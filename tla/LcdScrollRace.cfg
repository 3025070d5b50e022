SPECIFICATION Spec
CONSTANTS
  Line = 2
  Users = {u1}
  Buffers <- OneBuffer
  Greeting <- NoGreeting
  Starts <- ColdStart
  Unbinds = FALSE
  CharFails = FALSE
  MaxLost = 0
  Garbles = TRUE
PROPERTIES
  ScrollKeepsRam
