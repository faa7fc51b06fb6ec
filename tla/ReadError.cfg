SPECIFICATION BufSpec
CONSTANTS
  RegCap = 2
  RegLen = 1
  Shapes <- MCShapes
  Calls = {"read_at"}
  Positions = {0}
  PosMax = 7
  Nil = Nil
INVARIANT InitSoundAlways
CHECK_DEADLOCK FALSE
