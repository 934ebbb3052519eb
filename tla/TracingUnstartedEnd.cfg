SPECIFICATION Spec
CONSTANTS
    Cpus = {0}
    InitCpus = 1
    Names = {a, b}
    Undecodable = {}
    MaxLevel = 2
    BpfLevel = 1
    Preemptible = FALSE
    Filters = {1}
    MaxOpen = 2
    Capacity = 1
    MaxLost = 0
    Ids <- MCIds
PROPERTIES UnstartedEndIsIgnored
