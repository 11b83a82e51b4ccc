CONSTANTS
    Keys = {k1}
    MaxPods = 1
    QueueSize = 1
    MaxRuns = 1
    MaxFaults = 1
    MaxBoots = 1
SPECIFICATION Spec
CHECK_DEADLOCK FALSE
INVARIANT StopPreventsRecovery
