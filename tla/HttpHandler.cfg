SPECIFICATION DemoFairSpec
CONSTANTS
    Requests <- MCRequests
    Streams <- MCStreams
    InitialSize = 2
    SuggestedSize = 7
    MaxRecvBuffLength = 16
    MaxCalls = 2
    DemoStreams <- MCDemoStreams
    SleepArguments <- MCSleepArguments
    kMaxSleepMs = 8
    kHttpTimeoutMs = 9
    Budget = 10     \* in units of 500 ms, like the two before
    MaxArrival = 1
    MaxHandlers = 2
CHECK_DEADLOCK FALSE
INVARIANTS AnsweredOnce NoByteLost WithinLimit RightAnswer CodecAgreesWithParser SuccessIsWhole WithinBudget RepliesTruly
PROPERTY Served
