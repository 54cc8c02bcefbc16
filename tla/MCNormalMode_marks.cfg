CONSTANTS
    a = a
    b = b
    w = w
    Bytes <- MCBytes
    Wild = w
    Patterns <- MCPatterns
    Lengths <- MCLengthsAll
    Bpl = 2
    Digits = {0, 1, 4}
    MaxCount = 4
    MaxRegions = 3
SPECIFICATION Spec
INVARIANT NoMarkPanic
CHECK_DEADLOCK FALSE
SYMMETRY MCSymmetry
