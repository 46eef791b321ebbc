SPECIFICATION Spec
CONSTANTS
    Ids = {a, b, c, d, e}
    BadIds = {x}
    Values = {v, w}
    NoValue = nv
    NoId = ni
    C = 1
    BucketSize = 1
    Depth <- MCDepth
    NumBuckets <- MCNumBuckets
    StashSize <- MCStashSize
    Path <- MCPath
    MallocRecycles = {FALSE}
SYMMETRY Symmetry
CONSTRAINT ThreeIdsUsed
INVARIANTS TypeOK OnItsPath OneCopy NoBlockLost SortsTheStash
PROPERTIES EvictionIsGreedy IsMemory
