SPECIFICATION FairSpec
CONSTANTS
    Producers = {p1, p2}
    Events = {e1}
    RingSlots = 2
    Capacity = 2
    MapIsRingBuf = TRUE
    DroppedMod = 3
INVARIANT NewReportsOpenFailure
CHECK_DEADLOCK FALSE
