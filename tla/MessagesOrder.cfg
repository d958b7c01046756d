CONSTANTS
    Own = {}
    Theirs = {"m2"}
    NoId = "none"
    Callers = {w1}
    Loops = {d1}
    MaxMessages = 1
    Registered <- Before
    MaxPosts = 1
    MaxCalls = 0
    MaxStarts = 0
SPECIFICATION Spec
INVARIANTS
    InternalsFirst
CHECK_DEADLOCK FALSE
