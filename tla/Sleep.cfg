SPECIFICATION FairSpec
CONSTANTS
    Threads = {t1, t2}
    MaxSleep = 3
    ClockSources = {"plain", "raw"}
INVARIANT NotEarly
PROPERTY SleepEnds
