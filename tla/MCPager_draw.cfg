CONSTANTS
    FileLen  <- MCFileLen
    Bpl      <- MCBpl
    Heights  <- MCHeights
    MaxPendingResizes = 1
    LoadSize <- MCLoadSize
    MoveCounts = {1}
SPECIFICATION Spec
INVARIANT DrawSafe
