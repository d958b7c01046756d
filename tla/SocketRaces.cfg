CONSTANTS
    Connectors = {a1, a2}
    Closers = {z1}
    Senders = {}
    ConnectsOverlap = TRUE
    MaxConns = 2
    WritesMayBlock = TRUE
SPECIFICATION Spec
SYMMETRY ConnectorSymmetry
INVARIANTS
    NoticeBound
PROPERTIES
    Refinement
CHECK_DEADLOCK FALSE
