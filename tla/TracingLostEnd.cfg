SPECIFICATION FairSpec
CONSTANTS
    Cpus = {0}
    InitCpus = 1
    Names = {a}
    Undecodable = {}
    MaxLevel = 1
    BpfLevel = 1
    Preemptible = FALSE
    Filters = {1}
    MaxOpen = 1
    Capacity = 1
    MaxLost = 1
    Ids <- MCIds
PROPERTIES LostEndIsRepaired
