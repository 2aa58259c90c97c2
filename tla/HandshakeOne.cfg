SPECIFICATION FairHandshakeSpec
CONSTANTS
    Sessions = {s1}
    Requests = {}
    ProbeTypes = {}
    NoSession = NoSession
    NoRequest = NoRequest
    NoProbe = NoProbe
    Targets = {x1, x2}
    LoadsFirst = FALSE
    CanRefuse = TRUE
    CanFailDial = TRUE
    CanLose = TRUE
    CanClose = FALSE
CHECK_DEADLOCK FALSE
INVARIANTS
    TargetsOnlyAfterAck
    RegistersOnlyIfAccepted
    PanicOnlyAfterRefusal
    ServingKeepsStatusChannel
    SoleHandshakeInv
PROPERTIES
    ConnectReturnsUnlessLost
    AcknowledgedSessionServes
