SPECIFICATION CallsSpec
CONSTANTS
    Requests <- OneMessage
    Streams <- OneStream
    InitialSize = 2
    SuggestedSize = 7
    MaxRecvBuffLength = 16
    MaxCalls = 0
CHECK_DEADLOCK FALSE
INVARIANT WaitsForMore
