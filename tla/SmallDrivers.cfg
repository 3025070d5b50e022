SPECIFICATION Spec
CONSTANTS
  Drivers = {"pcd", "pcd_n", "arduino", "lcd"}
  NO_OF_DEVICES = 4
  Nodes <- MCNodes
  MayFail = {"driver", "array", "child"}
  None = None
  WriteCounts <- MCWriteCounts
  ReadCounts <- MCReadCounts
  Files = {f, d}
  Displays = {d}
INVARIANTS
  NothingOfStack
  TypeOK
  HoldsNothing
  Nested
  AttributesWork
  GivesAllBack
  ArrivesWhole
CHECK_DEADLOCK FALSE
