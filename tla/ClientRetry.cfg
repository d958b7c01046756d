CONSTANTS
    Logins = {l1, l2}
    Closers = {z1, z2}
    Retriers = {r1, r2}
    Jobs = {j1, j2, j3}
    Max = 2
    Window = 2
    Capacity = 2
    Horizon = 3
SPECIFICATION MCSpec
INVARIANTS
    SingleRetry
    ConnectsSerial
    RateBound
    LaunchOrder
PROPERTIES
    RetryRecovers
    CloseEndsRetry
    EnqueueReturns
CHECK_DEADLOCK FALSE
