CONSTANTS
    Capacity = 2
    Instruments = {x, y}
    Prefixes = {nse_cm}
    NoPrefix = NoPrefix
    Strip = nse_cm
    Garbage = Garbage
    Absent = Absent
    MaxFrames = 4
SPECIFICATION FairSpec
INVARIANTS TypeOK FramesAccounted TableIsLatest ThreadMatchesFlag
PROPERTIES QuotesNeverGoBack StopReturns AcceptedIsHandled
