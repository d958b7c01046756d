CONSTANTS
    Base = 16
    MaxFrame = 260
    OpMod = 8
    OpClose = 4
    HandshakePrefix = 14
    Tokens <- MCTokens
    Envelopes <- MCEnvelopes
    Bodies <- MCBodies
    Ops = {2, 4, 5}
    Cids = {300}
    Codes = {0, 17}
    MaxFrames = 3
    MaxLost = 2
    Plane = 8
    High = 4
    Half = 2
    MaxText = 4
    MaxSub = 2
    SeqBits = 1
    FieldBits = 1
    MaxClock = 3
    MaxIds = 6
SPECIFICATION MCSpec
INVARIANTS
    FramesIntact
    GatewayIntact
    OffsetsAgree
    UniqueIds
CHECK_DEADLOCK FALSE
