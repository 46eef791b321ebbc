SPECIFICATION Spec
CONSTANTS
  l1a = l1a
  l1b = l1b
  l2a = l2a
  l2b = l2b
  mm = mm
  Modules = {l1a, l1b, l2a, mm}
  MainMemory = mm
  Low <- LowShared
  NumWays <- TwoWaysInMemory
  NumPorts = 1
  Blocks = {b1, b2}
  Slots = {s1, s2}
  Kinds = {"load", "store", "nc_store"}
  MaxAccesses = 3
  None = None
SYMMETRY Symmetry
INVARIANTS AssertionsHold SingleWriter LevelsAgree EntriesAreSafe NoCircularWait
CHECK_DEADLOCK FALSE
