CONSTANTS
    Kinds = {"normal", "follow", "continuous"}
    Nodes = {n1}
    Handlers = {h1, h2}
    MaxConn = 2
    MaxFailures = 1
    MaxReconcile = 0
    QueueSize = 1
    Calm = FALSE
    MaxStarts = 2
    MaxWriteFaults = 1
    MaxBoots = 1
    Shapes <- MCShapes
    Uids = {u1, u2}
    PodNodes = {"node"}
    Joined = {{"node"}}
    PodInterfaces = {"node"}
    MaxPods = 2
    SessionPods = 2
    NodeSources = 4
    ChannelSize = 2
    MaxOwners = 2
    MaxChanges = 3
SPECIFICATION ControlSpec
CHECK_DEADLOCK FALSE
SYMMETRY HandlerSymmetry
INVARIANTS
    PartsTypeOK
    EndedIsFinal
    RunningIsServed
    CaptureStatusIsTrue
    SourcesAreLegal
    CapturesMatch
PROPERTIES
    CaptureIsSingleton
