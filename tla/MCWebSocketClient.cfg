CONSTANTS
    Streams = {s1, s2, s3}
    NoStream = NoStream
    BackoffInitial = 1
    BackoffMax = 5
SPECIFICATION FairSpec
INVARIANTS TypeOK StopJoins NoSilentDeath
PROPERTIES ImplementsConnection StopReturns Reconnects
CHECK_DEADLOCK FALSE
