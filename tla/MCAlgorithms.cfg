SPECIFICATION Spec
CONSTANTS
    SizeBits = 8
    WordBits = 13
    CounterBits = 4
    TicksPerSecond = 2
    BinCode <- MCBinCode
    Strip = TRUE
    Threshold = 40
    MillisPerSecond = 4
    TicksPerMilli = 2
    TimeMod = 512
    Characters <- MCCharacters
    MaxCharacters = 8
    Times <- MCTimes
    Periods = {1, 2}
    Digits = {2, 3, 4}
    Windows = {0, 1, 2}
    Ticks <- MCTicks
    Positions = {1, 3}
INVARIANTS
    LeastPowerThatHolds
    SecretDecoded
    CodesSurviveSkew
    EncodingsAgree
CHECK_DEADLOCK FALSE
