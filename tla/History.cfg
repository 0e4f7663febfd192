SPECIFICATION FairSpec
CONSTANTS
    p = p
    q = q
    Params = {p, q}
    None = None
    Budget = 2
    Ops <- MCOps
    Plans <- AllPlans
    Loads <- MCLoads
CHECK_DEADLOCK FALSE
INVARIANTS FramesSound StepsMeetInOrder
PROPERTIES HeldLands
