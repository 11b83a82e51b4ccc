SPECIFICATION PacketsSpec
CONSTANTS
    p1 = p1
    p2 = p2
    p3 = p3
    n1 = n1
    n2 = n2
    rec = rec
    live = live
    Packets = {p1, p2, p3}
    Nodes = {n1, n2}
    Subscribers = {rec, live}
    LossAware = {rec}
    Recorder = rec
    Timestamp <- MCTimestamp
    SequenceNumber <- MCSequence
    Size <- MCSize
    Feed <- MCFeed
    Window = 1
    MaxDelay = 0
    MaxPackets = 2
    MaxBytes = 3
    QueueSize = 1
    SessionLimit = 3
    MaxTime = 2
    BatchPackets = 2
    BatchBytes = 3
    Sizes = {1, 4}
    ChannelSize = 1
    MaxRead = 3
    Interfaces = {"i1", "i2"}
    Filters = {"", "f", "bad"}
    RingSize = 2
    RingBudget = 5
    MaxCache = 1
    MaxCaptures = 3
CHECK_DEADLOCK FALSE
INVARIANTS
    PartsTypeOK
    ChannelDiscipline
    RecordedIsWhole
    OrderedWithinWindow
    ForwardedIsWhole
    BudgetIsKept
    FiltersAreRight
