SPECIFICATION CFairSpec
CONSTANTS
    Threads = {t1, t2}
    NoThread = NoThread
    Types = {"errorcheck"}
    Robusts = {TRUE}
    MaxDepth = 1
    Mortal = {}
    Fns = {"timedwait", "timedwait_inval"}
    Users = {t1, t2}
    Careless = {t2}
PROPERTY TimedwaitEnds
CHECK_DEADLOCK FALSE
