SPECIFICATION FairDispatchSpec
CONSTANTS
    Sessions = {s1}
    r1 = r1
    r2 = r2
    Requests = {r1, r2}
    ProbeTypes = {"p1", "p2"}
    RegisteredProbes = {"p1", "p2"}
    HangingProbes = {"p2"}
    NoSession = NoSession
    NoRequest = NoRequest
    NoProbe = NoProbe
    ServerFrames <- LongRequests
    Current = s1
    CanLose = TRUE
    CanClose = FALSE
CHECK_DEADLOCK FALSE
PROPERTIES
    HandlersFinish
    KeepAlivesEnd
    RequestsAnswered
