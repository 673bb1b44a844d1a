SPECIFICATION FairSpec
CONSTANTS
    c1 = c1
    c2 = c2
    NoOne = NoOne
    Commands = {c1, c2}
    MaxConns = 2
    MaxEvents = 2
    EventCap = 1
CHECK_DEADLOCK FALSE
INVARIANTS
    NewestIsKept
PROPERTIES
    Refines
    CallerReturns
