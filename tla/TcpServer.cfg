SPECIFICATION FairSpec
CONSTANTS
    MaxConns = 3
    NumWorkers = 2
    MaxRequests = 2
    MaxCrons = 1
    Polite = {2, 3}
CHECK_DEADLOCK FALSE
INVARIANTS OneOwner TableIsHandles OneResponse PoliteCloseOnce
PROPERTY Answered
