CONSTANTS
    Kinds = {"normal", "follow", "continuous"}
    Nodes = {n1}
    Handlers = {h1, h2}
    MaxConn = 2
    MaxFailures = 0
    MaxReconcile = 0
    QueueSize = 4
    Calm = FALSE
SPECIFICATION FairSpec
CHECK_DEADLOCK FALSE
PROPERTY ReconnectRestoresCapture
