SPECIFICATION Spec
CONSTANTS
    MaxRegArgs = 2
    MaxFregArgs = 1
    MaxArgs = 3
    Types <- AllTypes
    SaveOrder <- Saves
    Calls <- GoodCalls
    InnerCalls <- SomeCalls
    FrameSizes = {8, 16}
    StackCells = 60
INVARIANTS
    ArgsArrive
    StackAccounted
    LivingKept
