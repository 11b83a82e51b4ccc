CONSTANTS
    Modes = {"normal", "continuous"}
    SegmentSize = 2
    MaxSessionSize = 5
    PacketSizes = {1, 2}
    MaxRuns = 2
    MaxPackets = 4
    MaxCrashes = 2
    Overlap = FALSE
    Streams = {s1, s2}
    MaxRetainedSize = 3
    LineSizes = {1, 2, 4}
    MaxDirs = 2
    MaxLines = 4
    MaxDeaths = 1
    MaxSessions = 2
    SessionSize = 2
    MaxTotal = 2
    MaxFaults = 2
SPECIFICATION RecordingsSpec
CHECK_DEADLOCK FALSE
INVARIANTS
    PartsTypeOK
    NoOverwrite
    RetentionIsRight
    CleanupOnlyFinished
    LogRetentionIsRight
    DeletionIsJustified
    ConfirmedUnlessChanged
    QuotaBound
