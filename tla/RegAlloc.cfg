SPECIFICATION MCSpec
CONSTANTS
    VRegs = {1, 2, 3, 4}
    None = None
    NB = 3
    N = 4
    IRegs = 2
    FRegs = 1
    BodyLen = 2
    LastPoint = 3
    CallerSave = {1}
    Params <- MCParams
    PhysMax <- MCPhysMax
    Programs <- AnyProgram
    Interval <- MCInterval
INVARIANTS
    NoSharedRegister
    UsedCoversAssigned
    ReadsOwnValue
PROPERTIES
    FlowIsLiveness
    LivingMatchesIntervals
    SpillsFurthestEnd
    AllocationEnds
