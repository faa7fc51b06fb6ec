SPECIFICATION LinkSpec
CONSTANTS
  MaxLen = 3
  SQCap = 4
  Prefills = {0}
INVARIANT ChainInOrder
CHECK_DEADLOCK FALSE
