CONSTANTS
    Session = {1, 2, 3}
    NoSession = NoSession
    NoName = NoName
    Name = {"a", "b"}
    NameOf <- Names
    Body = {"text"}
    MaxSend <- Talking
    Races = TRUE
SPECIFICATION FairSpec
INVARIANTS
    RegisteredAlive
    OrderKept
PROPERTY EveryConnectionServed
CHECK_DEADLOCK FALSE
