SPECIFICATION HandshakeSpec
CONSTANTS
    Sessions = {s1, s2}
    Requests = {}
    ProbeTypes = {}
    NoSession = NoSession
    NoRequest = NoRequest
    NoProbe = NoProbe
    Targets = {x1}
    LoadsFirst = TRUE
    CanRefuse = TRUE
    CanFailDial = TRUE
    CanLose = FALSE
    CanClose = TRUE
CHECK_DEADLOCK FALSE
INVARIANTS
    RegistersOnlyIfAccepted
    ServingKeepsStatusChannel
    TargetsNeedAckOrClose
    HandshakeInv
SYMMETRY Symmetry
