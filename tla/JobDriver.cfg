SPECIFICATION BothSpec
CONSTANTS
    j1 = j1
    j2 = j2
    j3 = j3
    j4 = j4
    None = None
    Jobs = {j1, j2, j3, j4}
    ChainJobs = {j1, j2, j3}
    Parallel = {j1, j2, j3, j4}
    Cancellers = {}
    Sleepers = {j1, j2, j3, j4}
CHECK_DEADLOCK FALSE
INVARIANTS NoStaleJob ExactlyOneDelete DoneIsFinal
PROPERTIES HandedOverFirst ImplementsTree DrainEnds FinishedIsReaped
