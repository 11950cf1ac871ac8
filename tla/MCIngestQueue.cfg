CONSTANTS
    Capacity = 8
    IndexMod = 16
    MaxFrames = 18
    SizeCallers = {"producer", "consumer"}
SPECIFICATION FairSpec
INVARIANTS TypeOK NoSlotRace TestsExact SizeWithinCapacity
PROPERTIES ImplementsFifo EveryFrameDelivered
