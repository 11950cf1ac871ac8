SPECIFICATION Spec
CONSTANTS
    Threads = {t1, t2}
    MaxLevel = 1
    MaxLines = 2
    MaxTime = 1
SYMMETRY Interchangeable
INVARIANTS
    TypeOK
    LinesWhole
CHECK_DEADLOCK FALSE
