SPECIFICATION StmFairSpec
CONSTANTS
    Threads = {t1, t2}
    Main = t1
    ClockSources = {"realtime", "monotonic"}
    NsecPerSec = 3
    InitVal = 0
    MaxCount = 1
    MaxPending = 2
    Timeouts = {4}
    Offsets = {0, 2}
    MaxTime = 7
    MaxDelay = 1
    MaxSteps = 1
INVARIANTS ConvertedDeadline DeadlineNotEarly
PROPERTIES ImplementsSpec TimedCallsReturn
