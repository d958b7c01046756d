CONSTANTS
    Calls = {c1, c2, c3}
    RawMod = 2
    Kinds = {"envelope", "api", "ping"}
    MaxConns = 1
    MaxChunks = 0
SPECIFICATION Spec
SYMMETRY CallSymmetry
INVARIANTS
    AnswerMatches
    MapSound
CHECK_DEADLOCK FALSE
