CONSTANTS
    x = x
    y = y
    e = e
    Chars <- MCAscii
    Width <- MCWidth
    MaxChars = 6
    Cols = 4
    Builds <- MCBuilds
    SearchCols = {12, 13, 15}
    MaxPieces = 4
SPECIFICATION Spec
CHECK_DEADLOCK FALSE
INVARIANT TypeOK
INVARIANT PromptArithmeticSafe
INVARIANT SearchPromptSafe
PROPERTY AbsSpec
