SPECIFICATION Spec
CONSTANTS
    N = 4
    Null = Null
    Networks <- AllNetworks
    ManualNetworks <- Triangles
    EndNodes = {1, 2, 3}
    Channels = {0, 1}
INVARIANTS RoutesAreShortest RoutesAreUsable WarnsOfCycles
CHECK_DEADLOCK FALSE
