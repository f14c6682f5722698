CONSTANTS
    Key <- Names
    HashCode <- Codes
    InitialLen = 2
SPECIFICATION Spec
INVARIANTS
    MissedOnlyIfHidden
PROPERTY RunsInTheEnd
CHECK_DEADLOCK FALSE
