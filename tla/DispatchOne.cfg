SPECIFICATION DispatchSpec
CONSTANTS
    Sessions = {s1}
    r1 = r1
    r2 = r2
    Requests = {r1, r2}
    ProbeTypes = {"p1", "p2"}
    RegisteredProbes = {"p1"}
    HangingProbes = {}
    NoSession = NoSession
    NoRequest = NoRequest
    NoProbe = NoProbe
    ServerFrames <- AnyRequest
    Current = s1
    CanLose = TRUE
    CanClose = TRUE
CHECK_DEADLOCK FALSE
INVARIANTS
    ConversationInOrder
    FinishedIsAnswered
    DroppedOnlyIfLost
    DispatchInv
PROPERTIES
    KeepsContract
