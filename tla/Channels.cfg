CONSTANTS
    Keys = {k1, k2}
    Apps = {a1}
    Dispatcher = d
    MaxChannels = 1
    MaxVersion = 2
    MaxOps = 3
    MaxEvents = 1
    Askers = {w1, w2}
    Listeners = {d1, d2}
    Starter = s
    MaxAsks = 2
    MaxArrivals = 2
    MaxInits = 1
SPECIFICATION MCSpec
INVARIANTS
    CachesCoherent
    Fresh
    DmReal
PROPERTIES
    Survives
    LostOnlyByRace
SYMMETRY Alike
CHECK_DEADLOCK FALSE
