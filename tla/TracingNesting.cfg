SPECIFICATION Spec
CONSTANTS
    Cpus = {0, 2}
    InitCpus = 1
    Names = {a, b, c}
    Undecodable = {c}
    MaxLevel = 1
    BpfLevel = 1
    Preemptible = TRUE
    Filters = {0, 1}
    MaxOpen = 2
    Capacity = 1
    MaxLost = 1
    Ids <- MCIds
INVARIANTS TypeOK ExactWhenInSync NoPhantomNesting StaleSpansAreBounded
SYMMETRY MCSymmetry
