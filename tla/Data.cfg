SPECIFICATION DataSpec
CONSTANTS
  Lists = {l1, l2}
  Values = {v1, v2}
  Slots = {0, 1, 2, 3}
  MAX = MAX
  NoValue = NoValue
  NoList = NoList
  RegCap = 2
  RegLen = 1
  Shapes <- MCShapes
  Calls = {"read_at", "write_at", "read_fixed", "write_fixed", "recv_from", "recvmsg", "write_all"}
  Positions = {0, 6}
  PosMax = 7
  Nil = Nil
  Custom = {"O_RDWR", "O_CREAT", "O_TRUNC", "O_EXCL", "O_PATH"}
  Absent = Absent
  Recvs = {r1, r2}
  Sends = {s1}
  Opens = {a1}
  Bufs = {b1, b2}
  Nothing = Nothing
  Datagrams <- MCDatagrams
  HeaderLen = 2
  NameLen = 1
  BufLen = 5
  MaxArrivals = 3
  SendLens = {2}
  Rts = {ra, rb}
  Ops = {o1, o2}
  Oneshots = {o2}
  NoRt = NoRt
  Buf = {0, 1, 2}
  Small = Small
  Large = Large
  Caps = {Small, Large}
  Cap <- MCCap
  Tasks = {t1, t2, t3}
  SingleThread = TRUE
  Empty = Empty
INVARIANTS
  Linked
  InitSound SliceSound OneHolder WriteAllExact
  OpenedAsAsked
  BuffersAccounted OnlyDropsLose EndIsFinal PayloadInBuffer SendExact
  OwnRing OnlyEscapedPanic
  OneOwner FreeListsComplete NoMissedWakeup
PROPERTY ImplementsFifo
CHECK_DEADLOCK FALSE
