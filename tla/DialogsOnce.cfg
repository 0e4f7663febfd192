SPECIFICATION MCSpec
CONSTANTS
    Mouse = Mouse
    f1 = f1
    f2 = f2
    Fingers <- Touches
    None = None
    Views = {"mac"}
    MaxEvents <- Events
    Uses <- Recognizers
    Fields = {1, 2, 3}
    Requests = {q1, q2}
    MaxSheetWaits = 2
    Platforms = {"web", "win"}
    Opened = {1}
    Editions <- Builds
    MaxChanges = 0
INVARIANT FiresOnce
CHECK_DEADLOCK FALSE
