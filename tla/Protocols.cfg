SPECIFICATION ProtoSpec
CONSTANTS
  Clones = {k1, k2, k3, k4, k5}
  Wakers = {w1, w2}
  None = None
  b1 = b1
  b2 = b2
  r1 = r1
  s1 = s1
  a1 = a1
  MaxLen = 4
  SQCap = 3
  Prefills = {0, 1, 2, 3}
  Callers = {c1, c2}
  Depth = 3
  Buf = {0, 1}
  Small = Small
  Large = Large
  Caps = {Small}
  Cap <- MCCap
  Tasks = {t1, t2, t3}
  SingleThread = TRUE
  Empty = Empty
INVARIANTS
  NotClosedInUse ClosedOnce Released
  PairLinked NoSpuriousError OkMeansDir
PROPERTIES
  CloseCompletes CancelledEnds ChainSettles CallEnds NextResolves
CHECK_DEADLOCK FALSE
