SPECIFICATION BufSpec
CONSTANTS
  RegCap = 2
  RegLen = 1
  Shapes <- MCShapes
  Calls = {"recvmsg"}
  Positions = {0}
  PosMax = 7
  Nil = Nil
INVARIANT WithinCapacity
CHECK_DEADLOCK FALSE
