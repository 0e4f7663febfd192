SPECIFICATION Spec
CONSTANTS
    Settling = FALSE
    Subjects = {"clap", "vst3", "auv2", "auv3", "aax", "web", "notes", "session"}
    Values = {0, 1}
    Keys = {0}
    None = None
    MaxHold = 1
    FadeBlocks = 1
    Rates = {1, 2}
    MaxUi = 1
    MaxQueue = 1
    MaxPackets = 2
    RingSize = 1
    RingCap = 2
    LandingCap = 2
    Capacity = 2
    InboxRoom = 1
    OutboxRoom = 2
    Bends = {0, 1}
    Frames = 2
    MaxEvents = 3
    MaxBlocks = 2
    MaxTurns = 2
    StateBudget = 2
    ClapPlans <- ClapCalls
    Vst3Plans <- Vst3Calls
    Auv2Plans <- Auv2Calls
    Auv3Plans <- Auv3Calls
    AaxPlans <- AaxCalls
    WebPlans <- WebCalls
    SessionPlans <- SessionCalls
    Sessions <- TwoSessions
INVARIANTS HostsTyped ValuesAgree LatencyAgrees NoStaleRun LoadsStay NotesEnd SessionReturns
PROPERTIES SourcesApart
CHECK_DEADLOCK FALSE
