SPECIFICATION Spec
CONSTANTS
    Ids = {a, b, c}
    BadIds = {x}
    Values = {v, w}
    NoValue = nv
    NoId = ni
    C = 0
    BucketSize = 1
    Depth <- MCDepth
    NumBuckets <- MCNumBuckets
    StashSize <- MCStashSize
    Path <- MCPath
    MallocRecycles = {TRUE}
SYMMETRY Symmetry
PROPERTIES IsMemory
