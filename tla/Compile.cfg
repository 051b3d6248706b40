SPECIFICATION FairSpec
CONSTANTS
    CharBit = 2
    FixnumSize <- X8664Sizes
    Inits <- NoInits
    Variadic = {}
    Fuel = 12
    Junk = 23130
    Vars <- MCVars
    VarOrder <- MCOrder
    Funcs <- MCFuncs
    Programs <- MCPrograms
    Code <- MCCode
    Meaning <- MCMeaning
INVARIANTS
    MeansSource
    ReadsAreDefined
    TargetsExist
PROPERTIES
    Ends
CHECK_DEADLOCK FALSE
