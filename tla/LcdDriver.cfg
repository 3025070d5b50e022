SPECIFICATION FairSpec
CONSTANTS
  Line = 2
  Users = {u1}
  Buffers <- MCBuffers
  Greeting <- ShortGreeting
  Starts <- AnyStart
  Unbinds = TRUE
  CharFails = TRUE
  MaxLost = 1
  Garbles = FALSE
INVARIANTS
  TypeOK
  InStep
  OnBothLines
  QuietWhenUnloaded
PROPERTIES
  KeepsScrolling
  Returns
