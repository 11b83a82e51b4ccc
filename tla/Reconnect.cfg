CONSTANTS
    Kinds = {"normal", "follow", "continuous"}
    Nodes = {n1, n2}
    Handlers = {h1}
    MaxConn = 2
    MaxFailures = 0
    MaxReconcile = 2
    QueueSize = 2
    Calm = TRUE
SPECIFICATION ReconnectSpec
CHECK_DEADLOCK FALSE
PROPERTIES
    ReconnectRestoresCapture
    StopEndsCapture
    NothingIsHeld
