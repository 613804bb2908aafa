SPECIFICATION SetupSpec
CONSTANTS
    Writers = {app, logger}
    Procs = {app, logger}
    Logger = logger
    GreetingLines = 1
    max_messages = 3
    MaxPrints = 4
    MaxGets = 3
    MaxSerial = 7
    MaxCrashes = 1
INVARIANTS AttachedIsInitialised InOrderUnlessFull ReaderNotStranded
PROPERTY ImplementsLog
\* The bounded number of calls comes to an end.
CHECK_DEADLOCK FALSE
