SPECIFICATION FairSpec
CONSTANTS
    MaxRetry = 1
    MaxFaults = 2
    MaxPublished = 2
    MaxReplies = 1
INVARIANTS
    TypeOK
    NoMessageTwice
    SocketsOutliveThreads
PROPERTIES
    StopCompletes
    WaitReturns
CHECK_DEADLOCK FALSE
