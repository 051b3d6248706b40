SPECIFICATION Spec
CONSTANT Programs <- AllPrograms
INVARIANTS
    ExpandsAsMeant
    LinesInStep
