SPECIFICATION DispatchSpec
CONSTANTS
    Sessions = {s1, s2}
    r1 = r1
    r2 = r2
    Requests = {r1, r2}
    ProbeTypes = {"p1", "p2"}
    RegisteredProbes = {"p1"}
    HangingProbes = {}
    NoSession = NoSession
    NoRequest = NoRequest
    NoProbe = NoProbe
    ServerFrames <- LongRequests
    Current = s1
    CanLose = TRUE
    CanClose = FALSE
CHECK_DEADLOCK FALSE
INVARIANTS
    DroppedOnlyIfLost
