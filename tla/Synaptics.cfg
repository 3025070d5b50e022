SPECIFICATION FairSpec
CONSTANTS
  Options = {"no_decel"}
  Setups <- AllSetups
INVARIANTS
  TypeOK
  PageHolds
  QuietWhenClosed
  NoUseAfterFree
  PollingAlive
  SuspendedQuiet
  ClosedForGood
PROPERTIES
  CallbacksReturn
  MotionIsRead
  RecoversOnceStarted
CHECK_DEADLOCK FALSE
