SPECIFICATION MCSpec
CONSTANTS
    Mouse = Mouse
    f1 = f1
    f2 = f2
    Fingers <- Touches
    None = None
    Views = {"win", "mac", "ios", "web"}
    MaxEvents <- Events
    Uses <- Recognizers
    Fields = {1, 2, 3}
    Requests = {q1, q2}
    MaxSheetWaits = 2
    Platforms = {"win", "mac", "ios", "web"}
    Opened = {1, 2, 3}
    Editions <- Builds
    MaxChanges = 3
INVARIANTS WindowTyped GesturesEnd AsksAnswered EditorIsTold WatcherEnds
CHECK_DEADLOCK FALSE
