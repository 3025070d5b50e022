SPECIFICATION Spec
CONSTANTS
  drw = drw
  dro = dro
  dwo = dwo
  f1 = f1
  f2 = f2
  t1 = t1
  t2 = t2
  None = None
  Devices = {drw, dro, dwo}
  Size <- MCSize
  Perm <- MCPerm
  Files = {f1}
  Tasks = {t1, t2}
  Users <- SharedUsers
  Byte = {0, 1}
  Zero = 0
  Counts = {0, 1, 3}
  Offsets <- MCOffsets
INVARIANTS
  TypeOK
  TransferInBounds
  PositionInRange
  WriteOnlyUnread
PROPERTIES
  ReadOnlyUnchanged
