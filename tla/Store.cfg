SPECIFICATION MCSpec
CONSTANTS
    c1 = c1
    c2 = c2
    x = x
    y = y
    Cells = {c1, c2}
    Contents = {x, y}
    Blank = x
    None = None
    Requests <- MCRequests
    Writes <- MCWrites
    Reads = {"save", "read"}
    MaxSeq = 3
    MaxEra = 1
INVARIANTS TypeOK SlotsApart StagedApart
PROPERTIES AppliesWhatWasMoved Refines
