SPECIFICATION FairSpec
CONSTANTS
    MaxWorkers = 2
    MaxEvents = 3
    MaxSignals = 2
INVARIANTS LoggerAlive Defined
PROPERTIES StopsOnSignal EventsServed
CHECK_DEADLOCK FALSE
