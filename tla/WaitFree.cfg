SPECIFICATION MCSpec
CONSTANTS
    v0 = v0
    v1 = v1
    v2 = v2
    Values = {v0, v1, v2}
    Initial = v0
    Torn = Torn
    a = a
    b = b
    Addresses = {a, b}
    None = None
    Batches <- MCBatches
    w1 = w1
    w2 = w2
    r1 = r1
    r2 = r2
    Writers = {w1, w2}
    Readers = {r1, r2}
    Away = Away
    Slots = 2
    MaxPushes = 3
    Kinds <- AllKinds
INVARIANTS AllTyped NeverTorn Exclusive
PROPERTIES Refines OthersRefine NothingOwed
