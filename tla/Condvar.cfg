SPECIFICATION CFairSpec
CONSTANTS
    Threads = {t1, t2, t3}
    NoThread = NoThread
    Types = {"normal", "errorcheck", "recursive"}
    Robusts = {TRUE, FALSE}
    MaxDepth = 2
    Mortal = {t1}
    Fns = {"wait", "timedwait", "timedwait_inval"}
    Users = {t1, t2}
    Careless = {t2}
INVARIANTS ResultsAreTrue WaitReturnsLocked
PROPERTIES LockEnds WaitEnds
CHECK_DEADLOCK FALSE
