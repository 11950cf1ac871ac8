CONSTANTS
    Streams = {s1, s2, s3, s4}
    NoStream = NoStream
    BackoffInitial = 1
    BackoffMax = 5
SPECIFICATION Spec
INVARIANT StreamInUseExists
CHECK_DEADLOCK FALSE
