SPECIFICATION MCSpec
CONSTANTS
    MaxRegArgs = 2
    MaxFregArgs = 1
    MaxParams = 3
    MaxLocals = 2
    Functions <- GoodFunctions
    NB = 4
    Code <- MCCode
INVARIANTS
    SlotsDisjoint
    SlotsInFrame
    ArgumentsStored
    FlowIsKept
