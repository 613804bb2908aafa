SPECIFICATION FairSpec
CONSTANTS
    Threads = {main, t1, t2}
    Main = main
    NoThread = NoThread
    Args = {a1, a2}
    NoArg = NoArg
    Cancellers = {main, t1, t2}
INVARIANTS StartArgsAlive OwnArgument CreatedIsSetUp
PROPERTY CreateEnds
\* The main thread may stay in its handler when everybody else is gone.
CHECK_DEADLOCK FALSE
