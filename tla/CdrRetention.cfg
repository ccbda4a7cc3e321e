SPECIFICATION RecordsSpec
CONSTANTS
    i1 = i1
    i2 = i2
    Instance = {i1}
    Ref = {"ref"}
    Group = {"g1", "g2"}
    Usages <- MCUsages
    None = "none"
    Modes <- MCModes
    FaultKind = {}
    MaxSeq = 2
    MaxRare = 2
CHECK_DEADLOCK FALSE
PROPERTIES
    DeletesOnlyArchived
