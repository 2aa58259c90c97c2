SPECIFICATION HandshakeSpec
CONSTANTS
    Sessions = {s1}
    Requests = {}
    ProbeTypes = {}
    NoSession = NoSession
    NoRequest = NoRequest
    NoProbe = NoProbe
    Targets = {x1}
    LoadsFirst = TRUE
    CanRefuse = TRUE
    CanFailDial = FALSE
    CanLose = FALSE
    CanClose = FALSE
CHECK_DEADLOCK FALSE
INVARIANTS
    NoPanic
