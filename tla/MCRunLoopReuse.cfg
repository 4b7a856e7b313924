SPECIFICATION Spec
CONSTANTS
  WORD = 64
  MemSize = 40
  HOLE = 3
  StackSizes = {1, 2, 12, 50}
  Entry = 1
  Functions = {0, 1}
  Params = {1, 2}
  Results = {0, 5}
  Junk = {0}
  Program <- MCProgram
  Layout <- MCLayout
  FRAME = 4
PROPERTIES
  EveryReturnGoesToItsCall
CHECK_DEADLOCK FALSE
