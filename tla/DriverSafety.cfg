SPECIFICATION SafetySpec
CONSTANTS
  m1 = m1
  o1 = o1
  s1 = s1
  w1 = w1
  w2 = w2
  Ops = {m1, o1, s1}
  Multi = {m1}
  Oneshot = {o1}
  Wakers = {w1, w2}
  None = None
  NSlots = 2
  SQCap = 2
  CQCap = 2
  MaxMore = 2
  MaxErrs = 1
  Reqs = {q1, q2}
  Unset = Unset
  MaxGen = 2
INVARIANTS
  TypeOK DataHeld FutureOwnsSlot CompletionsRouted ShutdownDrains
  InOrderDelivery NoLostWakeup CancelOnlyAsked
  RightFile MemoryHeld
