CONSTANTS
    Session <- Clients
    NoSession = NoSession
    Name <- Clients
    NoName = NoName
    NameOf <- Itself
    Key <- Clients
    HashCode <- Itself
    InitialLen = 4
    Body <- Bodies
    MaxSend <- Budget
    Races = TRUE
    Sink = 5
    Graphs <- SuperGraphs
SPECIFICATION RunSpec
INVARIANTS
    ComputedWithAncestors
PROPERTIES
    SinkHearsAll
CHECK_DEADLOCK FALSE
