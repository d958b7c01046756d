CONSTANTS
    Connectors = {a1, a2}
    Closers = {z1}
    Senders = {s1}
    Crews = {{a1, a2}, {a1, z1, s1}}
    ConnectsOverlap = FALSE
    MaxConns = 2
    WritesMayBlock = FALSE
SPECIFICATION LiveSpec
CONSTRAINT OneCrew
INVARIANTS
    NeverNilConn
PROPERTIES
    DeadReported
    LoopsEnd
CHECK_DEADLOCK FALSE
