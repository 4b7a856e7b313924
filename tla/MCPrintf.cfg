SPECIFICATION Spec
CONSTANTS
  SIZE = 4
  Formats <- MCFormats
  Arguments <- MCArguments
INVARIANTS
  BufferInv
  PrintsAPrefix
PROPERTIES
  Ends
CHECK_DEADLOCK FALSE
