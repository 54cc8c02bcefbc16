CONSTANTS
    FileLen           = 4
    Bpl               = 2
    Heights           <- MCHeights
    MaxPendingResizes = 0
    LoadSize          = 2
    Counts            = {1}
    MaxLen            = 6
    MaxHistory        = 2
SPECIFICATION Spec
INVARIANT UndoBaseMatches
