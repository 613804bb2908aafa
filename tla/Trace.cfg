SPECIFICATION FairSpec
CONSTANTS
    Cnt = 3
    MaxSamples = 10
INVARIANTS StoreInBounds UndisturbedAnalysisIsOneBuffer OwnLastTime RecentUnlessSwitched
PROPERTY LastBufferAnalysed
\* The cyclic task stops after MaxSamples samples.
CHECK_DEADLOCK FALSE
