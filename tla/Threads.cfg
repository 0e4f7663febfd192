SPECIFICATION MCSpec
CONSTANTS
    w1 = w1
    w2 = w2
    Writers = {w1, w2}
    None = None
    Slots = 2
    Burst = 2
    MaxRecords = 3
    MaxPosts = 2
    Scenarios <- AllWho
    r1 = r1
    r2 = r2
    Relays = {r1, r2}
    Repeats = {r2}
    Platforms = {"apple", "windows", "web"}
    MaxTicks = 1
    Capacity = 2
    MaxSent = 3
INVARIANTS AllTyped LogSound StopIsFinal
PROPERTIES ShutdownReturns PostsArrive
CHECK_DEADLOCK FALSE
