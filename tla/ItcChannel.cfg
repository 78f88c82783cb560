SPECIFICATION FairSpec
CONSTANTS
    Last = 8
    kMaxBatchCount = 3
CHECK_DEADLOCK FALSE
INVARIANTS Baton NoLostWakeUp
PROPERTY ImplementsChannel
