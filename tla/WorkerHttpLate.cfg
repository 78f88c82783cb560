SPECIFICATION Spec
CONSTANTS
    Clients = {c1}
    None = None
    Timeouts = {1}
    MaxTime = 2
    MaxStart = 1
    Abandoned = {}
CHECK_DEADLOCK FALSE
INVARIANT NoDeadAccess
