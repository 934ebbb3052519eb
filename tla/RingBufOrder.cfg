SPECIFICATION HFairSpec
CONSTANTS
    Producers = {p1, p2}
    Events = {1, 2, 3, 4, 5, 6}
    RingSlots = 2
    Capacity = 2
    MapIsRingBuf = TRUE
    DroppedMod = 2
INVARIANTS TypeOK ReaderStopsOnlyOnDrop InOrder NothingVanishes DroppedIsExact NoSilentLoss NoTornRecord
PROPERTIES NoneIsFinal ImplementsLossyFifo EveryRecordIsRead OpenFailureEndsStream DropReturnsWhenQuiet
CHECK_DEADLOCK FALSE
