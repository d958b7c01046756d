CONSTANTS
    Logins = {l1}
    Closers = {z1}
    Retriers = {r1}
    Jobs = {}
    Max = 1
    Window = 1
    Capacity = 1
    Horizon = 0
SPECIFICATION MCSpec
PROPERTIES
    ClosePrevents
CHECK_DEADLOCK FALSE
