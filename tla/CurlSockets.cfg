SPECIFICATION CurlFairSpec
CONSTANTS
    Clients = {c1, c2}
    None = none
    Timeouts = {1, 2}
    MaxTime = 4
    MaxStart = 1    \* a transfer may begin a tick late
    Abandoned = {c1}
INVARIANTS OnlyLateTouched CleanedOnce Registered AddedIsAnnounced
PROPERTIES OwnResult NothingOverdue InFlightEnds FinishedIsReleased
CHECK_DEADLOCK FALSE
