SPECIFICATION FairSpec
CONSTANTS
  Options = {"no_decel"}
  Setups <- UpsetSetup
PROPERTIES
  Recovers
CHECK_DEADLOCK FALSE
