SPECIFICATION FairSpec
CONSTANTS
  l1a = l1a
  l1b = l1b
  l2a = l2a
  l2b = l2b
  mm = mm
  Modules = {l1a, l1b, l2a, l2b, mm}
  MainMemory = mm
  Low <- LowTwo
  NumWays <- OneWay
  NumPorts = 1
  Blocks = {b1}
  Slots = {s1, s2}
  Kinds = {"load", "store"}
  MaxAccesses = 3
  None = None
PROPERTIES
  Finishes
CHECK_DEADLOCK FALSE
