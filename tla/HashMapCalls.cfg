SPECIFICATION Spec
CONSTANTS
    Clients = {c1}
    Keys = {1, 2, 3}
    Values = {v1, v2}
    None = None
    Bucket <- MCBucket
    Sizes = {2, 3}
    MaxBatch = 2
    MaxSeen = 4
INVARIANT TypeOK
PROPERTIES ReturnsWhatItReplaced OkBatchIsComplete UndisturbedIterationIsExact OkClearRemovesUntouched
SYMMETRY MCSymmetry
