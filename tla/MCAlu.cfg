SPECIFICATION Spec
CONSTANTS
  BITS = 4
  Registers = {1, 2, 15}
  Instructions <- MCInstructions
  MaxTurns = 2
  BitAnd <- MCAnd
  BitOr <- MCOr
  BitXor <- MCXor
INVARIANTS
  ComparisonDecides
  HiLoInv
  ValueInv
CHECK_DEADLOCK FALSE
