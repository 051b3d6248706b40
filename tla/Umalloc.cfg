SPECIFICATION FairSpec
CONSTANTS
    NoRequest = NoRequest
    MaxPayload = 3
    PageUnits = 3
    HeapLimit = 10
INVARIANTS
    EveryUnitOnce
PROPERTIES
    FailsOnlyWhenFull
    IsHeap
    Returns
