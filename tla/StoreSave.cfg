SPECIFICATION MCSpec
CONSTANTS
    c1 = c1
    c2 = c2
    x = x
    y = y
    Cells = {c1, c2}
    Contents = {x, y}
    Blank = x
    None = None
    Requests <- Loads
    Writes <- Once
    Reads = {"save", "read"}
    MaxSeq = 1
    MaxEra = 1
INVARIANTS SaveSeesLoad
