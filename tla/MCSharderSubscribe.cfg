CONSTANTS
    a = a
    b = b
    c = c
    TokenLists <- Lists
    MaxPerConn = 2
    BatchSize = 1
    QueueSize = 1
    MaxWorkers = 2
SPECIFICATION FairSpec
PROPERTY ConnectedIsSubscribed
CHECK_DEADLOCK FALSE
