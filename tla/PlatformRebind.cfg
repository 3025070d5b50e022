SPECIFICATION Spec
CONSTANTS
  a = a
  b = b
  c = c
  Devices = {a, b, c}
  Id <- MCId
  NoDevice = NoDevice
  Variants = {"005"}
  Concurrent = FALSE
  MAX_DEVICES = 3
  MayFail = {}
PROPERTIES
  DetectedGetsFile
