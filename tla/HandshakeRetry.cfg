SPECIFICATION HandshakeSpec
CONSTANTS
    Sessions = {s1, s2}
    Requests = {}
    ProbeTypes = {}
    NoSession = NoSession
    NoRequest = NoRequest
    NoProbe = NoProbe
    Targets = {x1}
    LoadsFirst = TRUE
    CanRefuse = FALSE
    CanFailDial = TRUE
    CanLose = FALSE
    CanClose = FALSE
CHECK_DEADLOCK FALSE
INVARIANTS
    TargetsOnlyAfterAck
