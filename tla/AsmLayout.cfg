SPECIFICATION FairSpec
CONSTANTS
    Programs <- AllPrograms
    LoadAddress = 80
    ProgStart = 16
    DataAlign = 32
    Im8Max = 7
    ExternAddress = 1000
CHECK_DEADLOCK FALSE
INVARIANTS
    OperandsReachTargets
    AlignedAsAsked
    LayoutAgrees
    FileMatchesMemory
PROPERTIES
    LayoutEnds
