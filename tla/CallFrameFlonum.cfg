SPECIFICATION Spec
CONSTANTS
    MaxRegArgs = 2
    MaxFregArgs = 1
    MaxArgs = 3
    Types <- IntAndFlo
    SaveOrder <- Saves
    Calls <- AnyCalls
    InnerCalls <- SomeCalls
    FrameSizes = {8, 16}
    StackCells = 60
INVARIANT ArgsArrive
