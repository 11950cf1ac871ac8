CONSTANTS
    a = a
    b = b
    c = c
    TokenLists <- Lists
    MaxPerConn = 2
    BatchSize = 1
    QueueSize = 1
    MaxWorkers = 2
SPECIFICATION FairSpec
INVARIANTS TypeOK WorkersCoverTokens ReconnectedIsSubscribed SocketsHaveConsumers NoOrphans
PROPERTY OperationsReturn
CHECK_DEADLOCK FALSE
