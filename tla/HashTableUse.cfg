CONSTANTS
    Key <- Names
    HashCode <- Codes
    InitialLen = 2
    Message = {m1, m2}
    MaxValue = 2
SPECIFICATION Spec
PROPERTY
    ImplementsMailbox
