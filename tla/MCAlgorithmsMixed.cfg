\* The bitonic sort with one direction for each key.
SPECIFICATION Spec
CONSTANTS
    Sizes = {4}
    KeysOf <- MCKeysOf
    BitonicDirs <- MixedDirections
    MergeDirs <- AllDirections
    NumBlocks = {2}
    BucketSizes = {4}
    Cs = {0, 3}
    Configurations = {}
    NumVertices = 2
    Weights = {0, 1, 2, 4}
INVARIANTS
    SortedAsAsked
CHECK_DEADLOCK FALSE
