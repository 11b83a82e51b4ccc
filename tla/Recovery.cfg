CONSTANTS
    Callers = {c1, c2}
    Starter = s
    MaxGeneration = 6
    Keys = {k1, k2}
    MaxPods = 1
    QueueSize = 1
    MaxRuns = 2
    MaxFaults = 2
    MaxBoots = 1
SPECIFICATION RecoverySpec
CHECK_DEADLOCK FALSE
INVARIANTS
    PartsTypeOK
    StopIsDurable
    RunningSurvives
    LogEndIsClean
    LogDesiredIsDurable
PROPERTIES
    LogIsSingleton
    LogStopCompletes
    LogListedIsRead
