SPECIFICATION Spec
CONSTANTS
  m1 = m1
  o1 = o1
  s1 = s1
  w1 = w1
  w2 = w2
  Ops = {m1, o1}
  Multi = {m1}
  Oneshot = {o1}
  Wakers = {w1}
  None = None
  NSlots = 2
  SQCap = 1
  CQCap = 1
  MaxMore = 1
  MaxErrs = 0
INVARIANT DataHeldToTheEnd
