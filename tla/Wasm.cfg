SPECIFICATION FairSpec
CONSTANTS
    CharBit = 2
    FixnumSize <- WasmSizes
    Vars <- MCVars
    VarOrder <- MCOrder
    Inits <- MCInits
    Funcs <- MCFuncs
    Variadic = {"v"}
    Fuel = 12
    Programs <- MCPrograms
    TableOrders <- MCTableOrders
    Defined = {"k", "idle"}
    VaTypes <- MCVaTypes
    StackSize = 32
    MemorySize = 160
    Built <- MCBuilt
    Meaning <- MCMeaning
INVARIANTS
    WasmMeansSource
    Validates
    StackRestored
PROPERTIES
    WasmEnds
CHECK_DEADLOCK FALSE
