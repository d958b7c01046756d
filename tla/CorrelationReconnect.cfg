CONSTANTS
    Calls = {c1, c2}
    RawMod = 2
    Kinds = {"api", "envelope", "ping"}
    MaxConns = 2
    MaxChunks = 1
SPECIFICATION FairSpec
INVARIANTS
    BodyWhole
PROPERTIES
    ReplyReaches
    EveryCallReturns
CHECK_DEADLOCK FALSE
