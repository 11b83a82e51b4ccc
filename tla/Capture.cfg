CONSTANTS
    QueueSize = 2
    MaxStarts = 3
    MaxCommands = 4
    MaxDials = 2
    Sizes = {1}
    MaxRead = 2
    MaxChanges = 2
    MaxBatches = 3
SPECIFICATION CaptureSpec
CHECK_DEADLOCK FALSE
INVARIANTS
    PartsTypeOK
    TrackedUnlessOverlap
    OutputIsWhole
PROPERTIES
    OverflowKeepsCapture
    CaptureProgresses
    FollowConverges
    ClientLeavesNothing
