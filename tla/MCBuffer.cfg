CONSTANTS
    InitLens   <- MCInitLens
    Bpl        = 2
    Counts     <- MCCounts
    Registers  <- MCRegisters
    MaxLen     = 3
    MaxHistory = 2
SPECIFICATION Spec
INVARIANT TypeOK
INVARIANT UndoBaseMatches
PROPERTY AbsSpec
CHECK_DEADLOCK FALSE
