SPECIFICATION Spec
CONSTANTS
    Threads = {t1}
    ClockSources = {"monotonic"}
    NsecPerSec = 3
    InitVal = 0
    MaxCount = 1
    Timeouts = {1, 3, 4}
    Offsets = {0, 1, 2}
    MaxTime = 5
    MaxDelay = 1
    MaxSteps = 0
INVARIANT WellFormedAccepted
