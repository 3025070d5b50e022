SPECIFICATION Spec
CONSTANTS
  a = a
  b = b
  c = c
  Devices = {a, b, c}
  Id <- MCId
  NoDevice = NoDevice
  Variants = {"004", "005", "006"}
  Concurrent = FALSE
  MAX_DEVICES = 4
  MayFail = {"driver", "cdev_add", "device_create", "sysfs"}
INVARIANTS
  TypeOK
  OwnFile
  NothingLeft
  Counted
  UnloadedClean
