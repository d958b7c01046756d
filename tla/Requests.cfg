CONSTANTS
    ApiCalls = {a1}
    Chats = {c1}
    Edits = {}
    MaxConns = 2
    Clans = {c1}
    Global = c0
    Connectors = {k1, k2}
    Builders = {b1}
    Rounds = 2
SPECIFICATION MCSpec
INVARIANTS
    PostedOnce
    RepeatedOnlyByFallback
    ResultTrue
    JoinHelps
    TriedOften
    LoadedBeforeJoin
PROPERTIES
    CallsReturn
    ClansSurvive
    Ends
CHECK_DEADLOCK FALSE
