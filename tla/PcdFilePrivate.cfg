SPECIFICATION Spec
CONSTANTS
  drw = drw
  dro = dro
  dwo = dwo
  f1 = f1
  f2 = f2
  t1 = t1
  t2 = t2
  None = None
  Devices = {drw}
  Size <- MCSize
  Perm <- MCPerm
  Files = {f1, f2}
  Tasks = {t1, t2}
  Users <- PrivateUsers
  Byte = {0, 1}
  Zero = 0
  Counts = {1, 3}
  Offsets = {0, 1}
PROPERTIES
  ImplementsCursor
