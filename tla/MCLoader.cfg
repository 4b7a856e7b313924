SPECIFICATION Spec
CONSTANTS
  SIZE = 12
  HOLE = 4
  Files <- MCFiles
  StackSizes = {1, 4}
  Names = {"init", "undefined", "missing"}
  MaxFd = 1
  MaxCalls = 2
INVARIANTS
  ResourceInv
  ProgramInv
PROPERTIES
  EveryCallReturns
CHECK_DEADLOCK FALSE
