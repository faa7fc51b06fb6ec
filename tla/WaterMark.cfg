SPECIFICATION BufSpec
CONSTANTS
  RegCap = 2
  RegLen = 1
  Shapes <- MCShapes
  Calls = {"read_fixed"}
  Positions = {0}
  PosMax = 7
  Nil = Nil
INVARIANT WaterMark
CHECK_DEADLOCK FALSE
