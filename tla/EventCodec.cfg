SPECIFICATION Spec
CONSTANTS
    StrLen = 6
    KernelLens = {0, 3, 5, 6, 7, 16}
    MaxText = 6
    Emitted <- MCEmitted
    Room <- MCRoom
    Stale <- MCStale
INVARIANTS TypeOK RoundTrip NothingForged LocationIfShorter
CHECK_DEADLOCK FALSE
