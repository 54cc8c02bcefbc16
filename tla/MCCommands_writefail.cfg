CONSTANTS
    p1 = p1
    p2 = p2
    e = e
    c1 = c1
    c2 = c2
    NoPath = NoPath
    Absent = Absent
    NoArg = NoArg
    Paths <- MCPaths
    Contents <- MCContents
    EmptyData = e
    WriteArgs <- MCWriteArgsOwn
    MaxBuffers = 3
SYMMETRY MCSymmetry
SPECIFICATION Spec
CHECK_DEADLOCK FALSE
INVARIANT QuitLeavesFilesSaved
