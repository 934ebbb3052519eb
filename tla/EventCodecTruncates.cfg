SPECIFICATION Spec
CONSTANTS
    StrLen = 6
    KernelLens = {6}
    MaxText = 6
    Emitted <- MCEmitted
    Room <- MCRoom
    Stale <- MCStale
INVARIANT LongMessagesAreTruncated
CHECK_DEADLOCK FALSE
