SPECIFICATION FairSpec
CONSTANTS
    Threads = {t1, t2, t3}
    Ops = {"post", "wait", "trywait", "timedwait", "timedwait_null", "timedwait_inval"}
    NoThread = NoThread
INVARIANTS TypeOK MutexHeldInside NoLostWakeup
PROPERTIES ImplementsSpec EventDelivered TimedCallsReturn
\* Waiters without a poster wait forever: the system may stop.
CHECK_DEADLOCK FALSE
