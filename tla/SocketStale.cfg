CONSTANTS
    Connectors = {a1, a2}
    Closers = {}
    Senders = {}
    ConnectsOverlap = FALSE
    MaxConns = 2
    WritesMayBlock = FALSE
SPECIFICATION Spec
PROPERTIES
    NoStaleTeardown
CHECK_DEADLOCK FALSE
