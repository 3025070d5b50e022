SPECIFICATION DevReadSpec
CONSTANTS
  Descriptions <- MCDescriptions
  Sizes <- MCSizes
  Offsets <- MCOffsets
  Requests <- MCRequests
  Counts = {0, 1, 3}
  BufSize = 3
  reader = reader
  Tasks = {reader}
INVARIANTS
  DevReadTypeOK
  CopiesInBuffer
  BufferHolds
  ReadsWhatIsThere
