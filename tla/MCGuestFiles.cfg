SPECIFICATION Spec
CONSTANTS
  Names = {"old", "new"}
  Existing = {"old"}
  Flags = {0, 1, 2, 7}
  Sizes = {0, 1, 2}
  Inherited <- MCInherited
  Offsets <- MCOffsets
  CELLS = 3
  MaxFd = 2
  MaxLength = 4
  MaxCalls = 4
INVARIANTS
  FileInv
PROPERTIES
  WritesNeedAHandle
  SeekLands
CHECK_DEADLOCK FALSE
