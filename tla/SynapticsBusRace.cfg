SPECIFICATION Spec
CONSTANTS
  Options = {"no_decel"}
  Setups <- BareSetup
INVARIANTS
  NoRaceOnBus
CHECK_DEADLOCK FALSE
