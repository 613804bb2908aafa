SPECIFICATION FairSpec
CONSTANTS
    Threads = {t1, t2}
    Owners = {t1}
    Senders = {t2}
    Receivers = {t1}
    Objects = {q1, q2}
    NumFds = 2
    OpenFlags = {{"WRONLY"}, {"RDWR", "CREAT", "EXCL"}}
    MaxMessages = {0, 1}
    ClockSources = {"realtime"}
    MaxSends = 2
    Timeouts = {1}
INVARIANTS ExactlyOnce TimeoutNotEarly
PROPERTIES TimedCallsEnd AccessAsAsked
