SPECIFICATION Spec
CONSTANTS
    MaxConns = 1
    NumWorkers = 1
    MaxRequests = 1
    MaxCrons = 0
    Polite = {}
CHECK_DEADLOCK FALSE
INVARIANT CloseProtocol
