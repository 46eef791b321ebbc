\* The sorts as Store_Blocks and the tests call them, and merge sort in every
\* direction; trees of depth one to four, where occupied is empty or full at each
\* level; equal controllers with powers of two and threes, and unequal
\* ones; graphs of four vertices.
SPECIFICATION Spec
CONSTANTS
    Sizes = {1, 2, 4, 8}
    KeysOf <- MCKeysOf
    BitonicDirs <- SameDirections
    MergeDirs <- AllDirections
    NumBlocks = {2, 3, 4, 5, 8, 9, 16}
    BucketSizes = {1, 4}
    Cs = {0, 3}
    Configurations <- MCConfigurations
    NumVertices = 4
    Weights = {0, 1, 2, 4}
INVARIANTS SortsAreCorrect OramTreeIsCorrect DecodingIsCorrect KernelsAreCorrect
CHECK_DEADLOCK FALSE
