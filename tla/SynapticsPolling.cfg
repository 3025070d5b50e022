SPECIFICATION FairSpec
CONSTANTS
  Rates = {2, 7, 80, 100, 250}
  Jiffy = 10
  MaxLate = 1
INVARIANTS
  SlowsInTime
PROPERTIES
  SlowsEventually
