CONSTANTS
    QueueSize = 2
    MaxStarts = 1
    MaxCommands = 2
    MaxDials = 2
SPECIFICATION FairSpec
CHECK_DEADLOCK FALSE
PROPERTY FullQueueDrains
