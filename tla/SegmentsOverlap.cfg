CONSTANTS
    Modes = {"normal", "continuous"}
    SegmentSize = 2
    MaxSessionSize = 4
    PacketSizes = {1, 2}
    MaxRuns = 2
    MaxPackets = 4
    MaxCrashes = 0
    Overlap = TRUE
SPECIFICATION Spec
CHECK_DEADLOCK FALSE
INVARIANT OpenSegmentExists
