SPECIFICATION CurlFairSpec
CONSTANTS
    Clients = {c1}
    None = none
    Timeouts = {2}
    MaxTime = 3
    MaxStart = 0
    Abandoned = {}
PROPERTY TimedOutIsCleanedUp
CHECK_DEADLOCK FALSE
