CONSTANTS
    Own = {"m1"}
    Theirs = {"m2"}
    NoId = "none"
    Callers = {w1}
    Loops = {d1, d2}
    MaxMessages = 1
    Registered <- NothingBefore
    MaxPosts = 3
    MaxCalls = 1
    MaxStarts = 1
SPECIFICATION Spec
INVARIANTS
    StoreSettled
    Identity
    
PROPERTIES
    StoreMonotone
SYMMETRY Alike
CHECK_DEADLOCK FALSE
