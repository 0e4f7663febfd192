SPECIFICATION MCSpec
CONSTANTS
    c1 = c1
    c2 = c2
    x = x
    y = y
    Cells = {c1, c2}
    Contents = {x, y}
    Blank = x
    None = None
    Requests <- LoadsAndMerge
    Writes <- OneWrite
    Reads = {"save", "read"}
    MaxSeq = 1
    MaxEra = 1
    MaxEdits = 2
    MaxLevel = 2
    Room = 1
    MaxMeterBlocks = 4
    MaxMoves = 3
    MaxFrames = 3
    MaxPublishes = 3
    MaxBounces = 1
    MaxMessages = 2
    Capacity = 4
    Sizes = {1, 2}
    MaxEntries = 3
    Words = 2
    MaxCopies = 3
    MaxWipes = 1
CHECK_DEADLOCK FALSE
INVARIANTS ProcessorTyped CarriesWhatWas
PROPERTIES LatestArrives LoadReturns
