SPECIFICATION Spec
CONSTANTS
  BLOCK = 8
  HALF = 1
  BYTE = 8
  Pieces = {0, 1, 3, 8, 13, 33}
  MaxTotal = 70
INVARIANTS
  ContextInv
  NothingDropped
  DigestOfMessage
