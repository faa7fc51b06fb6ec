------------------------- MODULE CompletionsProofs --------------------------
(***************************************************************************)
(* What completions carry reaches its operation, for any number of         *)
(* operations, buffers and datagrams.  A buffer is in one place because    *)
(* completions with a buffer are unique (Unique) and what a poll steps     *)
(* over carries none (Skipped); the end of an operation is its end because *)
(* only the last completion has no `more`, and then the kernel is done     *)
(* (Entries).                                                              *)
(***************************************************************************)
EXTENDS Completions, WellFoundedInduction, FiniteSetTheorems, TLAPS

-----------------------------------------------------------------------------
(* The inductive invariant.                                                *)

Cqe == [buf : Bufs \cup {Nothing}, ok : BOOLEAN, n : Nat, more : BOOLEAN, payload : Nat, named : BOOLEAN]
Data == [batch : Seq([buf : Bufs, len : Nat]), unparsed : SUBSET Bufs, bytes : Nat]

TypeOK ==
  /\ fut \in [CqeOps -> {"new", "live", "done", "dropped"}]
  /\ kern \in [CqeOps -> {"idle", "armed", "sent", "ended"}]
  /\ list \in [CqeOps -> Seq(Cqe)]
  /\ carried \in [CqeOps -> Data]
  /\ group \subseteq Bufs /\ providing \subseteq Bufs
  /\ owned \subseteq Bufs \cup Opens /\ lost \subseteq Bufs \cup Opens
  /\ taker \in [Bufs -> CqeOps \cup {Nothing}]
  /\ sent \in [CqeOps -> Nat]

\* Between two polls an operation holds no buffers: what it collects it yields.
NothingKept == \A o \in CqeOps : carried[o].batch = <<>> /\ carried[o].unparsed = {}

\* Only the last completion is final, and then the kernel is done; a buffer is
\* where the kernel put it.
Entries ==
  \A o \in CqeOps : \A i \in 1..Len(list[o]) :
    /\ ~list[o][i].more => i = Len(list[o]) /\ kern[o] = "ended"
    /\ list[o][i].buf # Nothing =>
         o \in Recvs /\ taker[list[o][i].buf] = o /\ list[o][i].ok /\ list[o][i].n <= BufLen

\* No buffer is in two completions.
Unique ==
  \A o, p \in CqeOps : \A i \in 1..Len(list[o]), j \in 1..Len(list[p]) :
    list[o][i].buf = list[p][j].buf /\ list[o][i].buf # Nothing => o = p /\ i = j

\* How far the future, the kernel and the list have come.
Phases ==
  \A o \in CqeOps :
    /\ fut[o] = "new" <=> kern[o] = "idle"
    /\ fut[o] \in {"new", "dropped", "done"} => list[o] = <<>>
    /\ fut[o] = "done" => kern[o] = "ended"

\* The buffers in completions.
Listed == {b \in Bufs : \E o \in CqeOps : \E i \in 1..Len(list[o]) : list[o][i].buf = b}

\* A buffer is in exactly one place.
Partition ==
  /\ Bufs = group \cup providing \cup (owned \cap Bufs) \cup (lost \cap Bufs) \cup Listed
  /\ group \cap providing = {} /\ group \cap owned = {} /\ group \cap lost = {}
  /\ group \cap Listed = {} /\ providing \cap owned = {} /\ providing \cap lost = {}
  /\ providing \cap Listed = {} /\ (owned \cap lost) \cap Bufs = {}
  /\ owned \cap Listed = {} /\ lost \cap Listed = {}

\* How far a zero-copy send has come, with the kernel at k, the list l, the bytes b
\* counted and n sent: nothing yet, the bytes sent, the notification; or everything
\* in one completion.
SendPhase(k, l, b, n) ==
  LET Bytes == CQE(Nothing, TRUE, n, TRUE)
      Done  == CQE(Nothing, TRUE, 0, FALSE)
  IN  \/ k \in {"idle", "armed"} /\ Len(l) = 0 /\ b = 0
      \/ k = "sent" /\ Len(l) = 1 /\ l[1] = Bytes /\ b = 0
      \/ k = "sent" /\ Len(l) = 0 /\ b = n
      \/ k = "ended" /\ Len(l) = 2 /\ l[1] = Bytes /\ l[2] = Done /\ b = 0
      \/ k = "ended" /\ Len(l) = 1 /\ l[1] = Done /\ b = n
      \/ /\ k = "ended" /\ Len(l) = 1 /\ b = 0
         /\ \E ok \in BOOLEAN, m \in Nat : l[1] = CQE(Nothing, ok, m, FALSE) /\ n = IF ok THEN m ELSE 0

Sending ==
  \A o \in Sends :
    /\ fut[o] = "done" => carried[o].bytes = sent[o]
    /\ fut[o] \in {"new", "live"} => SendPhase(kern[o], list[o], carried[o].bytes, sent[o])

IInv == /\ TypeOK /\ NothingKept /\ Entries /\ Unique /\ Phases /\ Partition /\ Sending
        /\ OnlyDropsLose /\ PayloadInBuffer

-----------------------------------------------------------------------------
LEMMA InitInv == ASSUME CqeAssumption, CqeInit PROVE IInv
<1> USE DEF CqeInit
<1>1. TypeOK
  BY DEF TypeOK, NoData, Data
<1>2. NothingKept /\ Phases /\ PayloadInBuffer /\ OnlyDropsLose
  BY DEF NothingKept, NoData, Phases, PayloadInBuffer, OnlyDropsLose
<1>3. Entries /\ Unique /\ Listed = {}
  BY DEF Entries, Unique, Listed
<1>4. Partition
  BY <1>3 DEF Partition
<1>5. Sending
  BY DEF Sending, SendPhase, NoData, CqeOps
<1> QED BY <1>1, <1>2, <1>3, <1>4, <1>5 DEF IInv

\* Induction over the natural numbers, for sets.
LEMMA NatSetInduction ==
  ASSUME NEW S, 0 \in S, \A n \in Nat : n \in S => n + 1 \in S
  PROVE  Nat \subseteq S
<1> DEFINE T == Nat \ S
<1> SUFFICES ASSUME T # {} PROVE FALSE
  OBVIOUS
<1>1. PICK x \in T : \A y \in T : ~(<<y, x>> \in OpToRel(<, Nat))
  BY NatLessThanWellFounded, WFMin, Zenon
<1>2. x \in Nat /\ x # 0
  OBVIOUS
<1>3. x - 1 \in Nat /\ x - 1 < x /\ (x - 1) + 1 = x
  BY <1>2
<1>4. x - 1 \notin T
  <2>1. <<x - 1, x>> \in OpToRel(<, Nat)
    BY <1>2, <1>3 DEF OpToRel
  <2> QED BY <2>1, <1>1
<1> QED BY <1>3, <1>4

\* The recursion of After has a solution.
LEMMA AfterDef ==
  ASSUME TypeOK, NEW o \in CqeOps
  PROVE  /\ After(o)[0] = carried[o]
         /\ \A j \in 1..Len(list[o]) : After(o)[j] = Update(o, After(o)[j - 1], list[o][j])
<1> DEFINE L == Len(list[o])
           Step(f, j) == IF j = 0 THEN carried[o] ELSE Update(o, f[j - 1], list[o][j])
           Solved == {n \in Nat : \E f : f = [j \in 0..n |-> Step(f, j)]}
           A == CHOOSE f : f = [j \in 0..L |-> Step(f, j)]
<1>0. L \in Nat
  BY DEF TypeOK
<1>1. 0 \in Solved
  <2> DEFINE f == [j \in 0..0 |-> carried[o]]
  <2>1. f = [j \in 0..0 |-> Step(f, j)] OBVIOUS
  <2> QED BY <2>1
<1>2. ASSUME NEW n \in Nat, n \in Solved PROVE n + 1 \in Solved
  <2>1. PICK f : f = [j \in 0..n |-> Step(f, j)] BY <1>2
  <2> DEFINE g == [j \in 0..(n + 1) |-> IF j = n + 1 THEN Step(f, j) ELSE f[j]]
  <2>2. ASSUME NEW j \in 0..(n + 1) PROVE g[j] = Step(g, j)
    <3>1. CASE j = 0
      <4>1. j # n + 1 /\ j \in 0..n BY <3>1
      <4>2. f[j] = carried[o] BY <2>1, <3>1, <4>1
      <4> QED BY <3>1, <4>1, <4>2
    <3>2. CASE j # 0
      <4>1. j - 1 \in 0..n /\ j - 1 # n + 1 /\ j - 1 \in 0..(n + 1) BY <3>2
      <4>2. g[j - 1] = f[j - 1] BY <4>1
      <4>3. g[j] = Step(f, j)
        <5>1. CASE j = n + 1 BY <5>1
        <5>2. CASE j # n + 1
          <6>1. j \in 0..n BY <5>2
          <6> HIDE DEF Step
          <6> QED BY <2>1, <5>2, <6>1
        <5> QED BY <5>1, <5>2
      <4> HIDE DEF g
      <4> QED BY <3>2, <4>2, <4>3
    <3> QED BY <3>1, <3>2
  <2>3. g = [j \in 0..(n + 1) |-> Step(g, j)]
    <3>1. g = [j \in 0..(n + 1) |-> g[j]] OBVIOUS
    <3> HIDE DEF g, Step
    <3> QED BY <2>2, <3>1
  <2> HIDE DEF g
  <2> QED BY <2>3
<1>3. L \in Solved
  <2> HIDE DEF Solved
  <2> QED BY <1>0, <1>1, <1>2, NatSetInduction
<1>4. A = [j \in 0..L |-> Step(A, j)]
  <2> HIDE DEF Step, L
  <2> QED BY <1>3
<1>5. After(o) = A
  BY DEF After
<1> HIDE DEF A
<1> QED BY <1>0, <1>4, <1>5

\* Record and UpdateSend keep the data of an operation well-formed.
LEMMA UpdateType ==
  ASSUME NEW o \in CqeOps, NEW d \in Data, NEW c \in Cqe
  PROVE  /\ Update(o, d, c) \in Data
         /\ o \notin Recvs => Update(o, d, c).batch = d.batch /\ Update(o, d, c).unparsed = d.unparsed
         /\ o \in Recvs /\ c.buf = Nothing => Update(o, d, c) = d
         /\ o \in Recvs /\ c.buf # Nothing => ShouldYield(o, Update(o, d, c))
<1>1. CASE o \notin Recvs
  BY <1>1 DEF Update, UpdateSend, Data, Cqe
<1>2. CASE o \in Recvs /\ c.buf = Nothing
  BY <1>2 DEF Update, Record
<1>3. CASE o \in Recvs /\ c.buf # Nothing
  <2> DEFINE p == [buf |-> c.buf, len |-> c.payload]
  <2>1. p \in [buf : Bufs, len : Nat] BY <1>3 DEF Cqe
  <2>2. CASE Parsed(c)
    <3>1. Update(o, d, c) = [d EXCEPT !.batch = Append(@, p)]
      BY <1>3, <2>2 DEF Update, Record
    <3>2. Append(d.batch, p) \in Seq([buf : Bufs, len : Nat]) /\ Append(d.batch, p) # <<>>
      <4> DEFINE P == [buf : Bufs, len : Nat]
      <4>1. p \in P /\ d.batch \in Seq(P) BY <2>1 DEF Data
      <4> HIDE DEF P, p
      <4>2. Append(d.batch, p) \in Seq(P) /\ Len(Append(d.batch, p)) = Len(d.batch) + 1 BY <4>1
      <4>3. Append(d.batch, p) # <<>> BY <4>1, <4>2
      <4> QED BY <4>2, <4>3 DEF P
    <3> QED BY <1>3, <3>1, <3>2 DEF Data, ShouldYield
  <2>3. CASE ~Parsed(c)
    <3>1. Update(o, d, c) = [d EXCEPT !.unparsed = @ \cup {c.buf}]
      BY <1>3, <2>3 DEF Update, Record
    <3> QED BY <1>3, <2>1, <3>1 DEF Data, ShouldYield
  <2> QED BY <2>2, <2>3
<1> QED BY <1>1, <1>2, <1>3

LEMMA AfterType ==
  ASSUME IInv, NEW o \in CqeOps, NEW k \in 0..Len(list[o])
  PROVE  /\ After(o)[k] \in Data
         /\ o \notin Recvs => After(o)[k].batch = <<>> /\ After(o)[k].unparsed = {}
<1> DEFINE A == After(o)
           L == Len(list[o])
           Good == {n \in Nat : n \in 0..L =>
                      /\ A[n] \in Data
                      /\ o \notin Recvs => A[n].batch = <<>> /\ A[n].unparsed = {}}
<1>0. L \in Nat /\ carried[o] \in Data /\ \A j \in 1..L : list[o][j] \in Cqe
  BY DEF IInv, TypeOK
<1>1. A[0] = carried[o] /\ \A j \in 1..L : A[j] = Update(o, A[j - 1], list[o][j])
  BY AfterDef DEF IInv
<1> HIDE DEF A
<1>2. 0 \in Good
  BY <1>0, <1>1 DEF IInv, NothingKept
<1>3. ASSUME NEW n \in Nat, n \in Good PROVE n + 1 \in Good
  <2> SUFFICES ASSUME n + 1 \in 0..L
               PROVE  /\ A[n + 1] \in Data
                      /\ o \notin Recvs => A[n + 1].batch = <<>> /\ A[n + 1].unparsed = {}
    OBVIOUS
  <2>1. n \in 0..L /\ n + 1 \in 1..L /\ (n + 1) - 1 = n BY <1>0
  <2>2. A[n + 1] = Update(o, A[n], list[o][n + 1]) BY <1>1, <2>1
  <2> QED BY <1>0, <1>3, <2>1, <2>2, UpdateType
<1>4. k \in Good
  <2> HIDE DEF Good
  <2> QED BY <1>0, <1>2, <1>3, NatSetInduction
<1> QED BY <1>4 DEF A

\* What a poll steps over carries no buffer.
LEMMA Skipped ==
  ASSUME IInv, NEW o \in CqeOps, NEW k \in 0..Len(list[o]), Unfinished(o, k)
  PROVE  /\ After(o)[k].batch = <<>> /\ After(o)[k].unparsed = {}
         /\ \A j \in 1..k : list[o][j].buf = Nothing
<1>0. list[o] \in Seq(Cqe) /\ Len(list[o]) \in Nat
  BY DEF IInv, TypeOK
<1>1. CASE o \notin Recvs
  BY <1>0, <1>1, AfterType DEF IInv, Entries
<1>2. CASE o \in Recvs
  <2>1. After(o)[k].batch = <<>> /\ After(o)[k].unparsed = {}
    <3>1. CASE k = 0 BY <3>1, AfterDef DEF IInv, NothingKept
    <3>2. CASE k # 0
      <4>1. k \in 1..k BY <1>0, <3>2
      <4> QED BY <1>2, <4>1 DEF Unfinished, ShouldYield
    <3> QED BY <3>1, <3>2
  <2>2. ASSUME NEW j \in 1..k PROVE list[o][j].buf = Nothing
    <3>1. j \in 1..Len(list[o]) /\ j - 1 \in 0..Len(list[o]) BY <1>0
    <3>2. After(o)[j] = Update(o, After(o)[j - 1], list[o][j]) BY <3>1, AfterDef DEF IInv
    <3>3. After(o)[j - 1] \in Data /\ list[o][j] \in Cqe BY <1>0, <3>1, AfterType
    <3> QED BY <1>2, <3>2, <3>3, UpdateType DEF Unfinished
  <2> QED BY <2>1, <2>2
<1> QED BY <1>1, <1>2

\* The first k completions of o are consumed.
LEMMA Consumed ==
  ASSUME CqeAssumption, IInv, NEW o \in CqeOps, NEW k \in 0..Len(list[o]), list' = [list EXCEPT ![o] = Rest(o, k)],
         kern' = kern, taker' = taker
  PROVE  /\ list' \in [CqeOps -> Seq(Cqe)] /\ Entries' /\ Unique'
         /\ Listed' = Listed \ {list[o][j].buf : j \in 1..k}
         /\ k = Len(list[o]) => list'[o] = <<>>
         /\ \A p \in CqeOps \ {o} : list'[p] = list[p]
<1> DEFINE s == list[o]
           r == Rest(o, k)
<1>0. s \in Seq(Cqe) /\ Len(s) \in Nat /\ k \in Nat /\ k <= Len(s) /\ list \in [CqeOps -> Seq(Cqe)]
  BY DEF IInv, TypeOK
<1>1. /\ r \in Seq(Cqe) /\ Len(r) = Len(s) - k
      /\ \A i \in 1..Len(r) : r[i] = s[i + k] /\ i + k \in 1..Len(s)
  BY <1>0 DEF Rest
<1>2. list'[o] = r /\ \A p \in CqeOps \ {o} : list'[p] = list[p]
  BY <1>0
<1> HIDE DEF r
<1>3. list' \in [CqeOps -> Seq(Cqe)]
  BY <1>0, <1>1 DEF r
\* Where a completion of the new list was in the old one.
<1> DEFINE Was(p, i) == IF p = o THEN i + k ELSE i
<1>4. \A p \in CqeOps : \A i \in 1..Len(list'[p]) :
        /\ Was(p, i) \in 1..Len(list[p]) /\ list'[p][i] = list[p][Was(p, i)]
        /\ i \in Nat /\ Was(p, i) \in Nat /\ (Was(p, i) = Len(list[p]) => i = Len(list'[p]))
  <2> SUFFICES ASSUME NEW p \in CqeOps, NEW i \in 1..Len(list'[p])
               PROVE /\ Was(p, i) \in 1..Len(list[p]) /\ list'[p][i] = list[p][Was(p, i)]
                     /\ i \in Nat /\ Was(p, i) \in Nat /\ (Was(p, i) = Len(list[p]) => i = Len(list'[p]))
    OBVIOUS
  <2>1. CASE p = o BY <1>0, <1>1, <1>2, <2>1
  <2>2. CASE p # o BY <1>0, <1>2, <2>2
  <2> QED BY <2>1, <2>2
<1>5. Entries'
  <2> SUFFICES ASSUME NEW p \in CqeOps, NEW i \in 1..Len(list'[p])
               PROVE  /\ ~list'[p][i].more => i = Len(list'[p]) /\ kern[p] = "ended"
                      /\ list'[p][i].buf # Nothing =>
                           /\ p \in Recvs /\ taker[list'[p][i].buf] = p
                           /\ list'[p][i].ok /\ list'[p][i].n <= BufLen
    BY DEF Entries
  <2> HIDE DEF Was
  <2> QED BY <1>4 DEF IInv, Entries
<1>6. Unique'
  <2> SUFFICES ASSUME NEW p \in CqeOps, NEW q \in CqeOps,
                      NEW i \in 1..Len(list'[p]), NEW j \in 1..Len(list'[q]),
                      list'[p][i].buf = list'[q][j].buf, list'[p][i].buf # Nothing
               PROVE  p = q /\ i = j
    BY DEF Unique
  <2>1. /\ Was(p, i) \in 1..Len(list[p]) /\ list'[p][i] = list[p][Was(p, i)]
        /\ Was(q, j) \in 1..Len(list[q]) /\ list'[q][j] = list[q][Was(q, j)] /\ i \in Nat /\ j \in Nat
    BY <1>4
  <2>2. p = q /\ Was(p, i) = Was(q, j)
    <3> HIDE DEF Was
    <3> QED BY <2>1 DEF IInv, Unique
  <2> QED BY <1>0, <2>1, <2>2
<1>7. Listed' = Listed \ {s[j].buf : j \in 1..k}
  <2>1. ASSUME NEW b \in Bufs, NEW p \in CqeOps, NEW i \in 1..Len(list'[p]), list'[p][i].buf = b
        PROVE  b \in Listed /\ \A j \in 1..k : s[j].buf # b
    <3>1. /\ Was(p, i) \in 1..Len(list[p]) /\ list[p][Was(p, i)].buf = b
          /\ p = o => Was(p, i) > k
      BY <1>0, <1>4, <2>1
    <3>2. b # Nothing BY DEF CqeAssumption
    <3>3. ASSUME NEW j \in 1..k, s[j].buf = b PROVE FALSE
      <4>1. j \in 1..Len(s) /\ j <= k BY <1>0
      <4>2. p = o /\ Was(p, i) = j
        <5> HIDE DEF Was
        <5> QED BY <3>1, <3>2, <3>3, <4>1 DEF IInv, Unique
      <4> QED BY <1>0, <3>1, <4>1, <4>2
    <3> QED BY <3>1, <3>3 DEF Listed
  <2>2. ASSUME NEW b \in Bufs, NEW p \in CqeOps, NEW i \in 1..Len(list[p]), list[p][i].buf = b,
               \A j \in 1..k : s[j].buf # b
        PROVE  \E j \in 1..Len(list'[p]) : list'[p][j].buf = b
    <3>1. CASE p = o
      <4>1. i \notin 1..k BY <2>2, <3>1
      <4>2. i - k \in 1..Len(r) /\ (i - k) + k = i BY <1>0, <1>1, <3>1, <4>1
      <4>3. r[i - k] = s[i] BY <1>1, <4>2
      <4> QED BY <1>2, <2>2, <3>1, <4>2, <4>3
    <3>2. CASE p # o BY <1>2, <2>2, <3>2
    <3> QED BY <3>1, <3>2
  <2> QED BY <2>1, <2>2 DEF Listed
<1>8. k = Len(s) => list'[o] = <<>>
  BY <1>0, <1>1, <1>2
<1> QED BY <1>2, <1>3, <1>5, <1>6, <1>7, <1>8

\* A completion c arrives for o: it goes on the list, or is thrown away.
LEMMA Posted ==
  ASSUME CqeAssumption, IInv, NEW o \in CqeOps, NEW c \in Cqe, Post(o, c),
         kern[o] \in {"armed", "sent"}, ~c.more => kern'[o] = "ended",
         \A p \in CqeOps \ {o} : kern'[p] = kern[p],
         \/ c.buf = Nothing /\ taker' = taker
         \/ /\ o \in Recvs /\ c.buf \in group /\ taker' = [taker EXCEPT ![c.buf] = o]
            /\ c.ok /\ c.n <= BufLen
  PROVE  /\ list' \in [CqeOps -> Seq(Cqe)] /\ Entries' /\ Unique'
         /\ fut[o] = "dropped" =>
              list' = list /\ Listed' = Listed /\ lost' = lost \cup Carried(o, c)
         /\ fut[o] # "dropped" =>
              /\ Listed' = Listed \cup ({c.buf} \ {Nothing}) /\ lost' = lost
              /\ list' = [list EXCEPT ![o] = Append(list[o], c)]
<1>0. list \in [CqeOps -> Seq(Cqe)] /\ \A p \in CqeOps : Len(list[p]) \in Nat
  BY DEF IInv, TypeOK
<1>1. \A p \in CqeOps : \A i \in 1..Len(list[p]) :
        list[p][i].buf # Nothing => list[p][i].buf \in Listed /\ list[p][i].buf \in Bufs
  <2> SUFFICES ASSUME NEW p \in CqeOps, NEW i \in 1..Len(list[p]), list[p][i].buf # Nothing
               PROVE  list[p][i].buf \in Listed /\ list[p][i].buf \in Bufs
    OBVIOUS
  <2>1. list[p][i] \in Cqe BY <1>0
  <2>2. list[p][i].buf \in Bufs BY <2>1 DEF Cqe
  <2> QED BY <2>2 DEF Listed
<1>2. c.buf # Nothing => c.buf \in Bufs /\ c.buf \notin Listed
  BY DEF IInv, Partition, TypeOK
<1>3. \A p \in CqeOps : \A i \in 1..Len(list[p]) :
        list[p][i].buf # Nothing => taker'[list[p][i].buf] = taker[list[p][i].buf]
  BY <1>1, <1>2 DEF IInv, TypeOK
<1>4. \A i \in 1..Len(list[o]) : list[o][i].more
  BY DEF IInv, Entries
<1>5. CASE fut[o] = "dropped"
  <2>1. list' = list /\ lost' = lost \cup Carried(o, c) BY <1>5 DEF Post
  <2>2. list[o] = <<>> BY <1>5 DEF IInv, Phases
  <2>3. Entries'
    <3> SUFFICES ASSUME NEW p \in CqeOps, NEW i \in 1..Len(list[p])
                 PROVE  /\ ~list[p][i].more => i = Len(list[p]) /\ kern'[p] = "ended"
                        /\ list[p][i].buf # Nothing =>
                             /\ p \in Recvs /\ taker'[list[p][i].buf] = p
                             /\ list[p][i].ok /\ list[p][i].n <= BufLen
      BY <2>1 DEF Entries
    <3>1. p # o BY <2>2
    <3> QED BY <1>3, <3>1 DEF IInv, Entries
  <2>4. Unique' /\ Listed' = Listed BY <2>1 DEF IInv, Unique, Listed
  <2> QED BY <1>0, <1>5, <2>1, <2>3, <2>4
<1>6. CASE fut[o] # "dropped"
  <2> DEFINE s == list[o]
             r == Append(s, c)
  <2>1. list' = [list EXCEPT ![o] = r] /\ lost' = lost BY <1>6 DEF Post
  <2>2. /\ r \in Seq(Cqe) /\ Len(r) = Len(s) + 1 /\ r[Len(r)] = c
        /\ \A i \in 1..Len(s) : r[i] = s[i] /\ i \in 1..Len(r) /\ i # Len(r)
        /\ \A i \in 1..Len(r) : i \in 1..Len(s) \/ i = Len(r)
        /\ Len(r) \in 1..Len(r)
    BY <1>0
  <2>3. list'[o] = r /\ \A p \in CqeOps \ {o} : list'[p] = list[p] BY <1>0, <2>1
  <2> HIDE DEF r
  <2>4. list' \in [CqeOps -> Seq(Cqe)] BY <1>0, <2>1, <2>2
  \* Every completion of the new lists is an old one or c.
  <2>5. \A p \in CqeOps : \A i \in 1..Len(list'[p]) :
          \/ p = o /\ i = Len(r) /\ list'[p][i] = c
          \/ i \in 1..Len(list[p]) /\ list'[p][i] = list[p][i]
    BY <2>2, <2>3
  <2>6. Entries'
    <3> SUFFICES ASSUME NEW p \in CqeOps, NEW i \in 1..Len(list'[p])
                 PROVE  /\ ~list'[p][i].more => i = Len(list'[p]) /\ kern'[p] = "ended"
                        /\ list'[p][i].buf # Nothing =>
                             /\ p \in Recvs /\ taker'[list'[p][i].buf] = p
                             /\ list'[p][i].ok /\ list'[p][i].n <= BufLen
      BY DEF Entries
    <3>1. CASE p = o /\ i = Len(r) /\ list'[p][i] = c
      BY <2>3, <3>1 DEF IInv, TypeOK
    <3>2. CASE i \in 1..Len(list[p]) /\ list'[p][i] = list[p][i]
      BY <1>3, <1>4, <2>3, <3>2 DEF IInv, Entries
    <3> QED BY <2>5, <3>1, <3>2
  <2>7. Unique'
    <3> SUFFICES ASSUME NEW p \in CqeOps, NEW q \in CqeOps,
                        NEW i \in 1..Len(list'[p]), NEW j \in 1..Len(list'[q]),
                        list'[p][i].buf = list'[q][j].buf, list'[p][i].buf # Nothing
                 PROVE  p = q /\ i = j
      BY DEF Unique
    <3>1. \/ p = o /\ i = Len(r) /\ list'[p][i] = c
          \/ i \in 1..Len(list[p]) /\ list'[p][i] = list[p][i]
      BY <2>5
    <3>2. \/ q = o /\ j = Len(r) /\ list'[q][j] = c
          \/ j \in 1..Len(list[q]) /\ list'[q][j] = list[q][j]
      BY <2>5
    <3>3. CASE p = o /\ i = Len(r) /\ list'[p][i] = c
      <4>1. ~(j \in 1..Len(list[q]) /\ list'[q][j] = list[q][j]) BY <1>1, <1>2, <3>3
      <4> QED BY <3>2, <3>3, <4>1
    <3>4. CASE q = o /\ j = Len(r) /\ list'[q][j] = c
      <4>1. ~(i \in 1..Len(list[p]) /\ list'[p][i] = list[p][i]) BY <1>1, <1>2, <3>4
      <4> QED BY <3>1, <3>4, <4>1
    <3>5. CASE /\ i \in 1..Len(list[p]) /\ list'[p][i] = list[p][i]
               /\ j \in 1..Len(list[q]) /\ list'[q][j] = list[q][j]
      BY <3>5 DEF IInv, Unique
    <3> QED BY <3>1, <3>2, <3>3, <3>4, <3>5
  <2>8. Listed' = Listed \cup ({c.buf} \ {Nothing})
    <3>1. Listed' \subseteq Listed \cup ({c.buf} \ {Nothing})
      <4> SUFFICES ASSUME NEW b \in Bufs, NEW p \in CqeOps, NEW i \in 1..Len(list'[p]), list'[p][i].buf = b
                   PROVE  b \in Listed \cup ({c.buf} \ {Nothing})
        BY DEF Listed
      <4> QED BY <2>5 DEF Listed, CqeAssumption
    <3>2. Listed \subseteq Listed'
      <4> SUFFICES ASSUME NEW b \in Bufs, NEW p \in CqeOps, NEW i \in 1..Len(list[p]), list[p][i].buf = b
                   PROVE  \E j \in 1..Len(list'[p]) : list'[p][j].buf = b
        BY DEF Listed
      <4> QED BY <2>2, <2>3
    <3>3. {c.buf} \ {Nothing} \subseteq Listed'
      BY <1>2, <2>2, <2>3 DEF Listed
    <3> QED BY <3>1, <3>2, <3>3
  <2> QED BY <1>6, <2>1, <2>4, <2>6, <2>7, <2>8 DEF r
<1> QED BY <1>5, <1>6

\* The completions without a buffer.
LEMMA PostedPlain ==
  ASSUME CqeAssumption, IInv, NEW o \in CqeOps, NEW c \in Cqe, Post(o, c), c.buf = Nothing,
         kern[o] \in {"armed", "sent"}, NEW x \in {"sent", "ended"}, kern' = [kern EXCEPT ![o] = x],
         ~c.more => x = "ended", sent' \in [CqeOps -> Nat],
         UNCHANGED <<fut, carried, caller, taker>>, Sending'
  PROVE  IInv'
<1>1. kern'[o] = x /\ \A p \in CqeOps \ {o} : kern'[p] = kern[p]
  BY DEF IInv, TypeOK
<1>2. /\ list' \in [CqeOps -> Seq(Cqe)] /\ Entries' /\ Unique' /\ Listed' = Listed
      /\ lost' = lost \/ (fut[o] = "dropped" /\ lost' = lost \cup Carried(o, c))
      /\ \A p \in CqeOps \ {o} : list'[p] = list[p]
      /\ fut[o] = "dropped" => list' = list
  <2>1. taker' = taker OBVIOUS
  <2>2. ~c.more => kern'[o] = "ended" BY <1>1
  <2>3. /\ list' \in [CqeOps -> Seq(Cqe)] /\ Entries' /\ Unique'
        /\ fut[o] = "dropped" =>
             list' = list /\ Listed' = Listed /\ lost' = lost \cup Carried(o, c)
        /\ fut[o] # "dropped" =>
             /\ Listed' = Listed \cup ({c.buf} \ {Nothing}) /\ lost' = lost
             /\ list' = [list EXCEPT ![o] = Append(list[o], c)]
    BY <1>1, <2>1, <2>2, Posted
  <2> QED BY <2>3 DEF IInv, TypeOK
<1>3. Carried(o, c) \subseteq {o} \cap Opens
  BY DEF Carried
<1>4. TypeOK'
  BY <1>2, <1>3 DEF IInv, TypeOK, caller
<1>5. NothingKept' /\ PayloadInBuffer'
  BY DEF IInv, NothingKept, PayloadInBuffer, caller
<1>6. Phases'
  BY <1>1, <1>2 DEF IInv, Phases, TypeOK
<1>7. Partition'
  <2>1. o \notin Bufs BY DEF CqeAssumption
  <2>2. lost' \cap Bufs = lost \cap Bufs BY <1>2, <1>3, <2>1
  <2>3. Listed \subseteq Bufs BY DEF Listed
  <2> QED BY <1>2, <2>2, <2>3 DEF IInv, Partition, TypeOK, caller
<1>8. OnlyDropsLose'
  BY <1>2, <1>3 DEF IInv, OnlyDropsLose, CqeAssumption
<1> QED BY <1>2, <1>4, <1>5, <1>6, <1>7, <1>8 DEF IInv

LEMMA PlainCqe ==
  ASSUME NEW ok \in BOOLEAN, NEW n \in Nat, NEW more \in BOOLEAN
  PROVE  CQE(Nothing, ok, n, more) \in Cqe /\ CQE(Nothing, ok, n, more).buf = Nothing
         /\ CQE(Nothing, ok, n, more).more = more /\ CQE(Nothing, ok, n, more).n = n
         /\ CQE(Nothing, ok, n, more).ok = ok
  BY DEF CQE, Cqe

\* A step of o leaves the other sends alone.
LEMMA SendFrame ==
  ASSUME CqeAssumption, IInv, NEW o \in CqeOps,
         \A p \in CqeOps \ {o} : /\ list'[p] = list[p] /\ kern'[p] = kern[p] /\ sent'[p] = sent[p]
                                 /\ fut'[p] = fut[p] /\ carried'[p] = carried[p],
         o \in Sends =>
           /\ fut'[o] = "done" => carried'[o].bytes = sent'[o]
           /\ fut'[o] \in {"new", "live"} => SendPhase(kern'[o], list'[o], carried'[o].bytes, sent'[o])
  PROVE  Sending'
<1> SUFFICES ASSUME NEW p \in Sends
             PROVE  /\ fut'[p] = "done" => carried'[p].bytes = sent'[p]
                    /\ fut'[p] \in {"new", "live"} =>
                         SendPhase(kern'[p], list'[p], carried'[p].bytes, sent'[p])
  BY DEF Sending, SendPhase, CQE
<1>1. p \in CqeOps BY DEF CqeOps
<1>2. CASE p = o BY <1>2
<1>3. CASE p # o BY <1>1, <1>3 DEF IInv, Sending
<1> QED BY <1>2, <1>3

\* What is on the list of o after a completion for it.
LEMMA PostedList ==
  ASSUME IInv, NEW o \in CqeOps, NEW c \in Cqe, Post(o, c)
  PROVE  /\ \A p \in CqeOps \ {o} : list'[p] = list[p]
         /\ fut[o] # "dropped" =>
              /\ Len(list'[o]) = Len(list[o]) + 1 /\ list'[o][Len(list[o]) + 1] = c
              /\ \A i \in 1..Len(list[o]) : list'[o][i] = list[o][i]
<1>1. list \in [CqeOps -> Seq(Cqe)] BY DEF IInv, TypeOK
<1>2. CASE fut[o] = "dropped" BY <1>1, <1>2 DEF Post
<1>3. CASE fut[o] # "dropped"
  <2>1. list' = [list EXCEPT ![o] = Append(list[o], c)] BY <1>3 DEF Post
  <2> QED BY <1>1, <2>1
<1> QED BY <1>2, <1>3

LEMMA StepKEnd ==
  ASSUME CqeAssumption, IInv, NEW o \in CqeOps, NEW ok \in BOOLEAN, KFinish(o, ok) \/ KNewFd(o, ok)
  PROVE  IInv'
<1> DEFINE c == CQE(Nothing, ok, 0, FALSE)
<1>1. /\ o \in Recvs \cup Opens /\ kern[o] = "armed" /\ Post(o, c)
      /\ kern' = [kern EXCEPT ![o] = "ended"] /\ UNCHANGED <<fut, carried, caller, taker, sent>>
  BY DEF KFinish, KNewFd, End
<1>2. c \in Cqe /\ c.buf = Nothing
  BY PlainCqe
<1> HIDE DEF c
<1>3. sent' \in [CqeOps -> Nat]
  BY <1>1 DEF IInv, TypeOK
<1>4. Sending'
  <2>1. o \notin Sends BY <1>1 DEF CqeAssumption
  <2>2. \A p \in CqeOps \ {o} : list'[p] = list[p] /\ kern'[p] = kern[p]
    BY <1>1, <1>2, PostedList DEF IInv, TypeOK
  <2> QED BY <1>1, <2>1, <2>2, SendFrame
<1> QED BY <1>1, <1>2, <1>3, <1>4, PostedPlain

LEMMA StepKSend ==
  ASSUME CqeAssumption, IInv, NEW o \in CqeOps, NEW n \in SendLens, KSend(o, n)
  PROVE  IInv'
<1> DEFINE c == CQE(Nothing, TRUE, n, TRUE)
<1>1. /\ o \in Sends /\ kern[o] = "armed" /\ Post(o, c) /\ n \in Nat
      /\ kern' = [kern EXCEPT ![o] = "sent"] /\ sent' = [sent EXCEPT ![o] = n]
      /\ UNCHANGED <<fut, carried, caller, taker>>
  BY DEF KSend, CqeAssumption
<1>2. c \in Cqe /\ c.buf = Nothing /\ c.more
  BY <1>1, PlainCqe
<1>3. sent' \in [CqeOps -> Nat] /\ sent'[o] = n /\ \A p \in CqeOps \ {o} : sent'[p] = sent[p]
  BY <1>1 DEF IInv, TypeOK
<1>4. Sending'
  <2>1. \A p \in CqeOps \ {o} : list'[p] = list[p] /\ kern'[p] = kern[p]
    BY <1>1, <1>2, PostedList DEF IInv, TypeOK
  <2>2. fut[o] # "done" /\ kern'[o] = "sent" BY <1>1 DEF IInv, Phases, TypeOK
  <2>3. fut[o] \in {"new", "live"} => Len(list[o]) = 0 /\ carried[o].bytes = 0
    <3>1. fut[o] \in {"new", "live"} => SendPhase("armed", list[o], carried[o].bytes, sent[o])
      BY <1>1 DEF IInv, Sending
    <3> QED BY <3>1 DEF SendPhase
  <2>4. ASSUME fut[o] \in {"new", "live"} PROVE Len(list'[o]) = 1 /\ list'[o][1] = c
    <3> HIDE DEF c
    <3>1. Len(list'[o]) = Len(list[o]) + 1 /\ list'[o][Len(list[o]) + 1] = c
      BY <1>1, <1>2, <2>4, PostedList
    <3>2. Len(list[o]) + 1 = 1 BY <2>3, <2>4
    <3> QED BY <3>1, <3>2
  <2>5. fut[o] \in {"new", "live"} => SendPhase("sent", list'[o], carried[o].bytes, n)
    BY <2>3, <2>4 DEF SendPhase
  <2> HIDE DEF c
  <2> QED BY <1>1, <1>3, <2>1, <2>2, <2>5, SendFrame
<1> HIDE DEF c
<1> QED BY <1>1, <1>2, <1>3, <1>4, PostedPlain

LEMMA StepKNotify ==
  ASSUME CqeAssumption, IInv, NEW o \in CqeOps, KNotify(o)
  PROVE  IInv'
<1> DEFINE c == CQE(Nothing, TRUE, 0, FALSE)
<1>1. /\ o \in Sends /\ kern[o] = "sent" /\ Post(o, c)
      /\ kern' = [kern EXCEPT ![o] = "ended"]
      /\ UNCHANGED <<fut, carried, caller, taker, sent>>
  BY DEF KNotify, End
<1>2. c \in Cqe /\ c.buf = Nothing
  BY PlainCqe
<1>3. sent' \in [CqeOps -> Nat]
  BY <1>1 DEF IInv, TypeOK
<1>4. Sending'
  <2>1. \A p \in CqeOps \ {o} : list'[p] = list[p] /\ kern'[p] = kern[p]
    BY <1>1, <1>2, PostedList DEF IInv, TypeOK
  <2>2. fut[o] # "done" /\ fut[o] # "new" /\ kern'[o] = "ended" BY <1>1 DEF IInv, Phases, TypeOK
  <2>3. ASSUME fut[o] = "live" PROVE SendPhase("ended", list'[o], carried[o].bytes, sent[o])
    <3>1. SendPhase("sent", list[o], carried[o].bytes, sent[o])
      BY <1>1, <2>3 DEF IInv, Sending
    <3>2. /\ Len(list'[o]) = Len(list[o]) + 1 /\ list'[o][Len(list[o]) + 1] = c
          /\ \A i \in 1..Len(list[o]) : list'[o][i] = list[o][i]
      BY <1>1, <1>2, <2>3, PostedList
    <3>3. CASE Len(list[o]) = 1 /\ list[o][1] = CQE(Nothing, TRUE, sent[o], TRUE) /\ carried[o].bytes = 0
      <4>1. Len(list[o]) + 1 = 2 /\ 1 \in 1..Len(list[o]) BY <3>3
      <4>2. Len(list'[o]) = 2 /\ list'[o][2] = c /\ list'[o][1] = list[o][1]
        <5> HIDE DEF c
        <5> QED BY <3>2, <4>1
      <4> QED BY <3>3, <4>2 DEF SendPhase
    <3>4. CASE Len(list[o]) = 0 /\ carried[o].bytes = sent[o]
      <4>1. Len(list[o]) + 1 = 1 BY <3>4
      <4>2. Len(list'[o]) = 1 /\ list'[o][1] = c
        <5> HIDE DEF c
        <5> QED BY <3>2, <4>1
      <4> QED BY <3>4, <4>2 DEF SendPhase
    <3> QED BY <3>1, <3>3, <3>4 DEF SendPhase
  <2> QED BY <1>1, <2>1, <2>2, <2>3, SendFrame
<1> HIDE DEF c
<1> QED BY <1>1, <1>2, <1>3, <1>4, PostedPlain

LEMMA StepKSendOnce ==
  ASSUME CqeAssumption, IInv, NEW o \in CqeOps, NEW n \in SendLens, NEW ok \in BOOLEAN,
         KSendOnce(o, n, ok)
  PROVE  IInv'
<1> DEFINE c == CQE(Nothing, ok, n, FALSE)
           m == IF ok THEN n ELSE 0
<1>1. /\ o \in Sends /\ kern[o] = "armed" /\ Post(o, c) /\ n \in Nat
      /\ kern' = [kern EXCEPT ![o] = "ended"] /\ sent' = [sent EXCEPT ![o] = m]
      /\ UNCHANGED <<fut, carried, caller, taker>>
  BY DEF KSendOnce, CqeAssumption, End
<1>2. c \in Cqe /\ c.buf = Nothing
  BY <1>1, PlainCqe
<1>3. /\ sent' \in [CqeOps -> Nat] /\ sent'[o] = m
      /\ \A p \in CqeOps \ {o} : sent'[p] = sent[p]
  BY <1>1 DEF IInv, TypeOK
<1>4. Sending'
  <2>1. \A p \in CqeOps \ {o} : list'[p] = list[p] /\ kern'[p] = kern[p]
    BY <1>1, <1>2, PostedList DEF IInv, TypeOK
  <2>2. fut[o] # "done" /\ kern'[o] = "ended" BY <1>1 DEF IInv, Phases, TypeOK
  <2>3. fut[o] \in {"new", "live"} => Len(list[o]) = 0 /\ carried[o].bytes = 0
    <3>1. fut[o] \in {"new", "live"} => SendPhase("armed", list[o], carried[o].bytes, sent[o])
      BY <1>1 DEF IInv, Sending
    <3> QED BY <3>1 DEF SendPhase
  <2>4. ASSUME fut[o] \in {"new", "live"} PROVE Len(list'[o]) = 1 /\ list'[o][1] = c
    <3> HIDE DEF c
    <3>1. Len(list'[o]) = Len(list[o]) + 1 /\ list'[o][Len(list[o]) + 1] = c
      BY <1>1, <1>2, <2>4, PostedList
    <3>2. Len(list[o]) + 1 = 1 BY <2>3, <2>4
    <3> QED BY <3>1, <3>2
  <2>5. fut[o] \in {"new", "live"} => SendPhase("ended", list'[o], carried[o].bytes, m)
    BY <1>1, <2>3, <2>4 DEF SendPhase
  <2> HIDE DEF c
  <2> QED BY <1>1, <1>3, <2>1, <2>2, <2>5, SendFrame
<1> HIDE DEF c, m
<1> QED BY <1>1, <1>2, <1>3, <1>4, PostedPlain

\* A datagram: the buffer leaves the group for a completion.
LEMMA StepKRecv ==
  ASSUME CqeAssumption, IInv, NEW o \in CqeOps, NEW b \in Bufs, NEW d \in Datagrams, KRecv(o, b, d)
  PROVE  IInv'
<1> DEFINE room == BufLen - HeaderLen - NameLen
           n == HeaderLen + NameLen + (IF d.payload <= room THEN d.payload ELSE room)
           c == [buf |-> b, ok |-> TRUE, n |-> n, more |-> d.payload > 0,
                 payload |-> d.payload, named |-> d.named]
           x == IF d.payload = 0 THEN "ended" ELSE kern[o]
<1>1. /\ o \in Recvs /\ kern[o] = "armed" /\ b \in group /\ group' = group \ {b}
      /\ taker' = [taker EXCEPT ![b] = o] /\ Post(o, c)
      /\ UNCHANGED <<fut, carried, providing, owned, packets, sent>>
  BY DEF KRecv
<1>2. kern' = [kern EXCEPT ![o] = x]
  BY DEF KRecv, End, IInv, TypeOK
<1>3. d.payload \in Nat /\ d.named \in BOOLEAN /\ n \in Nat /\ n <= BufLen
  BY DEF CqeAssumption
<1>4. c \in Cqe /\ c.buf = b /\ c.ok /\ c.n <= BufLen /\ (~c.more => x = "ended")
  <2> DEFINE more == d.payload > 0
  <2>1. more \in BOOLEAN /\ (~more => d.payload = 0) BY <1>3
  <2> HIDE DEF n, more, room
  <2>2. c = [buf |-> b, ok |-> TRUE, n |-> n, more |-> more, payload |-> d.payload, named |-> d.named]
    BY DEF more
  <2> HIDE DEF c
  <2> QED BY <1>3, <2>1, <2>2 DEF Cqe
<1> HIDE DEF c
<1>5. x \in {"armed", "ended"} /\ kern'[o] = x /\ \A p \in CqeOps \ {o} : kern'[p] = kern[p]
  BY <1>1, <1>2 DEF IInv, TypeOK
<1>6. b # Nothing BY DEF CqeAssumption
<1>7. /\ list' \in [CqeOps -> Seq(Cqe)] /\ Entries' /\ Unique'
      /\ fut[o] = "dropped" =>
           list' = list /\ Listed' = Listed /\ lost' = lost \cup Carried(o, c)
      /\ fut[o] # "dropped" =>
           /\ Listed' = Listed \cup ({c.buf} \ {Nothing}) /\ lost' = lost
           /\ list' = [list EXCEPT ![o] = Append(list[o], c)]
  BY <1>1, <1>4, <1>5, Posted
<1>8. Carried(o, c) = {b}
  BY <1>1, <1>4, <1>6 DEF Carried, CqeAssumption
<1>9. \/ fut[o] = "dropped" /\ list' = list /\ Listed' = Listed /\ lost' = lost \cup {b}
      \/ fut[o] # "dropped" /\ Listed' = Listed \cup {b} /\ lost' = lost
         /\ \A p \in CqeOps \ {o} : list'[p] = list[p]
  BY <1>4, <1>6, <1>7, <1>8 DEF IInv, TypeOK
<1>10. TypeOK'
  BY <1>1, <1>2, <1>5, <1>7, <1>9 DEF IInv, TypeOK
<1>11. NothingKept' /\ PayloadInBuffer'
  BY <1>1 DEF IInv, NothingKept, PayloadInBuffer
<1>12. Phases'
  BY <1>1, <1>5, <1>9 DEF IInv, Phases, TypeOK
<1>13. Partition'
  <2>1. Listed \subseteq Bufs BY DEF Listed
  <2> QED BY <1>1, <1>9, <2>1 DEF IInv, Partition, TypeOK
<1>14. OnlyDropsLose'
  <2> SUFFICES ASSUME NEW r \in lost' PROVE fut[IF r \in Bufs THEN taker'[r] ELSE r] = "dropped"
    BY <1>1 DEF OnlyDropsLose
  <2>1. CASE r = b
    <3>1. b \notin lost BY <1>1 DEF IInv, Partition
    <3> QED BY <1>1, <1>9, <2>1, <3>1 DEF IInv, TypeOK
  <2>2. CASE r # b
    BY <1>1, <1>9, <2>2 DEF IInv, OnlyDropsLose, TypeOK
  <2> QED BY <2>1, <2>2
<1>15. Sending'
  <2>1. o \notin Sends BY <1>1 DEF CqeAssumption
  <2> QED BY <1>1, <1>5, <1>9, <2>1, SendFrame
<1> QED BY <1>7, <1>10, <1>11, <1>12, <1>13, <1>14, <1>15 DEF IInv

-----------------------------------------------------------------------------
(* The calls.                                                              *)

LEMMA StepSubmit ==
  ASSUME CqeAssumption, IInv, NEW o \in CqeOps, SubmitOp(o)
  PROVE  IInv'
<1>1. /\ fut[o] = "new" /\ fut' = [fut EXCEPT ![o] = "live"] /\ kern' = [kern EXCEPT ![o] = "armed"]
      /\ UNCHANGED <<list, carried, group, providing, owned, packets, lost, taker, sent>>
  BY DEF SubmitOp, caller
<1>2. /\ fut'[o] = "live" /\ kern'[o] = "armed" /\ kern[o] = "idle" /\ list[o] = <<>>
      /\ \A p \in CqeOps \ {o} : fut'[p] = fut[p] /\ kern'[p] = kern[p]
  BY <1>1 DEF IInv, TypeOK, Phases
<1>3. TypeOK' /\ NothingKept' /\ Unique' /\ PayloadInBuffer' /\ Listed' = Listed
  BY <1>1 DEF IInv, TypeOK, NothingKept, Unique, PayloadInBuffer, Listed
<1>4. Entries'
  <2> SUFFICES ASSUME NEW p \in CqeOps, NEW i \in 1..Len(list[p])
               PROVE  /\ ~list[p][i].more => i = Len(list[p]) /\ kern'[p] = "ended"
                      /\ list[p][i].buf # Nothing =>
                           /\ p \in Recvs /\ taker[list[p][i].buf] = p
                           /\ list[p][i].ok /\ list[p][i].n <= BufLen
    BY <1>1 DEF Entries
  <2>1. p # o BY <1>2
  <2> QED BY <1>2, <2>1 DEF IInv, Entries
<1>5. Phases'
  BY <1>1, <1>2 DEF IInv, Phases
<1>6. Partition'
  BY <1>1, <1>3 DEF IInv, Partition
<1>7. Sending'
  <2>1. ASSUME o \in Sends PROVE SendPhase("armed", list[o], carried[o].bytes, sent[o])
    <3>1. SendPhase("idle", list[o], carried[o].bytes, sent[o])
      BY <1>1, <1>2, <2>1 DEF IInv, Sending
    <3> QED BY <3>1 DEF SendPhase
  <2> QED BY <1>1, <1>2, <2>1, SendFrame
<1>8. OnlyDropsLose'
  BY <1>1 DEF IInv, OnlyDropsLose, TypeOK
<1> QED BY <1>3, <1>4, <1>5, <1>6, <1>7, <1>8 DEF IInv

\* Only what IInv does not mention changes.
LEMMA StepCancel ==
  ASSUME IInv, NEW o \in CqeOps, Cancel(o)
  PROVE  IInv'
<1>1. UNCHANGED <<fut, kern, list, carried, group, providing, owned, packets, lost, taker, sent>>
  BY DEF Cancel, caller
<1>2. TypeOK' /\ NothingKept' /\ Entries' /\ Unique' /\ Phases' /\ PayloadInBuffer' /\ OnlyDropsLose'
  BY <1>1 DEF IInv, TypeOK, NothingKept, Entries, Unique, Phases, PayloadInBuffer, OnlyDropsLose
<1>3. Partition'
  BY <1>1 DEF IInv, Partition, Listed
<1>4. Sending'
  <2>1. UNCHANGED <<fut, kern, list, carried, sent>> BY <1>1
  <2> QED BY <2>1 DEF IInv, Sending, SendPhase, CQE
<1> QED BY <1>2, <1>3, <1>4 DEF IInv

\* A buffer goes from the caller to a request, and on to the group or back.
LEMMA StepProvide ==
  ASSUME CqeAssumption, IInv, NEW b \in Bufs, Provide(b) \/ \E ok \in BOOLEAN : KProvide(b, ok)
  PROVE  IInv'
<1>1. /\ UNCHANGED <<fut, kern, list, carried, packets, lost, taker, sent>>
      /\ \/ /\ b \in owned /\ owned' = owned \ {b} /\ providing' = providing \cup {b}
            /\ group' = group
         \/ /\ b \in providing /\ providing' = providing \ {b}
            /\ group' = group \cup {b} /\ owned' = owned
         \/ /\ b \in providing /\ providing' = providing \ {b}
            /\ owned' = owned \cup {b} /\ group' = group
  BY DEF Provide, KProvide
<1>2. TypeOK' /\ NothingKept' /\ Entries' /\ Unique' /\ Phases' /\ PayloadInBuffer' /\ OnlyDropsLose'
  BY <1>1 DEF IInv, TypeOK, NothingKept, Entries, Unique, Phases, PayloadInBuffer, OnlyDropsLose
<1>3. Partition'
  <2>1. Listed' = Listed BY <1>1 DEF Listed
  <2> QED BY <1>1, <2>1 DEF IInv, Partition
<1>4. Sending'
  <2>1. UNCHANGED <<fut, kern, list, carried, sent>> BY <1>1
  <2> QED BY <2>1 DEF IInv, Sending, SendPhase, CQE
<1> QED BY <1>2, <1>3, <1>4 DEF IInv

\* What the completions on the list carry is lost with the future.
LEMMA StepDrop ==
  ASSUME CqeAssumption, IInv, NEW o \in CqeOps, DropOp(o)
  PROVE  IInv'
<1> DEFINE k == Len(list[o])
           X == UNION {Carried(o, c) : c \in Range(list[o])}
           B == {list[o][j].buf : j \in 1..k}
<1>1. /\ fut[o] = "live" /\ fut' = [fut EXCEPT ![o] = "dropped"]
      /\ lost' = lost \cup X \cup BufsOf(carried[o])
      /\ list' = [list EXCEPT ![o] = <<>>] /\ carried' = [carried EXCEPT ![o] = NoData]
      /\ UNCHANGED <<kern, group, providing, owned, packets, taker, sent>>
  BY DEF DropOp, caller
<1>2. BufsOf(carried[o]) = {}
  BY DEF BufsOf, IInv, NothingKept, Range
<1>3. list[o] \in Seq(Cqe) /\ k \in Nat /\ DOMAIN list[o] = 1..k /\ k \in 0..k
  BY DEF IInv, TypeOK
<1>4. Rest(o, k) = <<>>
  BY <1>3 DEF Rest
<1>5. /\ list' \in [CqeOps -> Seq(Cqe)] /\ Entries' /\ Unique' /\ Listed' = Listed \ B
      /\ list'[o] = <<>> /\ \A p \in CqeOps \ {o} : list'[p] = list[p]
  <2> HIDE DEF k
  <2>1. k = Len(list[o]) BY DEF k
  <2>2. list' = [list EXCEPT ![o] = Rest(o, k)] BY <1>1, <1>4
  <2> QED BY <1>1, <1>3, <2>1, <2>2, Consumed
<1>6. \A r \in X : r \notin Bufs => r = o /\ o \in Opens
  <2> SUFFICES ASSUME NEW r \in X, r \notin Bufs PROVE r = o /\ o \in Opens
    OBVIOUS
  <2>1. PICK j \in 1..k : r \in Carried(o, list[o][j]) BY <1>3 DEF Range
  <2>2. list[o][j] \in Cqe BY <1>3
  <2>3. list[o][j].buf \in Bufs \cup {Nothing} BY <2>2 DEF Cqe
  <2> QED BY <2>1, <2>3 DEF Carried
<1>7. \A r \in X : r \in Bufs => r \in B /\ taker[r] = o
  <2> SUFFICES ASSUME NEW r \in X, r \in Bufs PROVE r \in B /\ taker[r] = o
    OBVIOUS
  <2>1. PICK j \in 1..k : r \in Carried(o, list[o][j]) BY <1>3 DEF Range
  <2>2. o \notin Bufs BY DEF CqeAssumption
  <2>3. r = list[o][j].buf /\ r # Nothing BY <2>1, <2>2 DEF Carried
  <2> QED BY <2>3 DEF IInv, Entries
<1>8. \A r \in B \cap Bufs : r \in X /\ r \in Listed
  <2> SUFFICES ASSUME NEW r \in Bufs, NEW j \in 1..k, r = list[o][j].buf PROVE r \in X /\ r \in Listed
    OBVIOUS
  <2>1. r # Nothing BY DEF CqeAssumption
  <2>2. o \in Recvs BY <2>1 DEF IInv, Entries
  <2>3. r \in Carried(o, list[o][j]) BY <2>1, <2>2 DEF Carried, CqeAssumption
  <2>4. list[o][j] \in Range(list[o]) BY <1>3 DEF Range
  <2> QED BY <2>3, <2>4 DEF Listed
<1> HIDE DEF X, B, k
<1>9. TypeOK' /\ NothingKept' /\ PayloadInBuffer'
  BY <1>1, <1>2, <1>5, <1>6 DEF IInv, TypeOK, NothingKept, PayloadInBuffer, NoData, Data
<1>10. Phases'
  BY <1>1, <1>5 DEF IInv, Phases, TypeOK
<1>11. Partition'
  <2>1. Listed \subseteq Bufs BY DEF Listed
  <2>2. (lost' \cap Bufs) = (lost \cap Bufs) \cup (B \cap Bufs) BY <1>1, <1>2, <1>7, <1>8
  <2>3. Listed' \cup (B \cap Bufs) = Listed /\ Listed' \cap B = {} BY <1>5, <1>8, <2>1
  <2>4. group \subseteq Bufs /\ providing \subseteq Bufs /\ Listed' \subseteq Bufs
    BY <1>5, <2>1 DEF IInv, TypeOK
  <2> HIDE DEF Listed
  <2> QED BY <1>1, <2>1, <2>2, <2>3, <2>4 DEF IInv, Partition
<1>12. OnlyDropsLose'
  BY <1>1, <1>2, <1>6, <1>7 DEF IInv, OnlyDropsLose, TypeOK
<1>13. Sending'
  <2>1. fut'[o] = "dropped" /\ \A p \in CqeOps \ {o} : fut'[p] = fut[p] /\ carried'[p] = carried[p]
    BY <1>1 DEF IInv, TypeOK
  <2> QED BY <1>1, <1>5, <2>1, SendFrame
<1> QED BY <1>5, <1>9, <1>10, <1>11, <1>12, <1>13 DEF IInv

-----------------------------------------------------------------------------
(* The polls.                                                              *)

\* What one completion adds to data without buffers: its buffer, and if it parses
\* a packet within it.
LEMMA Recorded ==
  ASSUME CqeAssumption, NEW d \in Data, d.batch = <<>>, d.unparsed = {}, NEW c \in Cqe
  PROVE  /\ BufsOf(Record(d, c)) = {c.buf} \ {Nothing}
         /\ \A p \in Range(Record(d, c).batch) : c.buf # Nothing /\ HeaderLen + NameLen + p.len <= c.n
<1>0. Range(<<>>) = {}
  BY DEF Range
<1>1. CASE c.buf = Nothing
  BY <1>0, <1>1 DEF Record, BufsOf
<1>2. CASE c.buf # Nothing /\ Parsed(c)
  <2> DEFINE p == [buf |-> c.buf, len |-> c.payload]
             e == [d EXCEPT !.batch = Append(@, p)]
  <2>1. Record(d, c) = e BY <1>2 DEF Record
  <2>2. e.unparsed = {} /\ e.batch = Append(<<>>, p) BY DEF Data
  <2>3. Range(Append(<<>>, p)) = {p}
    <3> HIDE DEF p
    <3>1. Len(<<>>) = 0 /\ <<>> \in Seq({p}) OBVIOUS
    <3>2. Append(<<>>, p) \in Seq({p}) /\ Len(Append(<<>>, p)) = 1 /\ Append(<<>>, p)[1] = p BY <3>1
    <3>3. DOMAIN Append(<<>>, p) = 1..1 BY <3>2
    <3> QED BY <3>2, <3>3 DEF Range
  <2>4. Range(e.batch) = {p} BY <2>2, <2>3
  <2>5. p.buf = c.buf /\ p.len = c.payload OBVIOUS
  <2> HIDE DEF p, e
  <2> QED BY <1>2, <2>1, <2>2, <2>4, <2>5 DEF BufsOf, Parsed
<1>3. CASE c.buf # Nothing /\ ~Parsed(c)
  <2>1. Record(d, c) = [d EXCEPT !.unparsed = @ \cup {c.buf}] BY <1>3 DEF Record
  <2>2. Record(d, c).batch = <<>> /\ Record(d, c).unparsed = {c.buf} BY <2>1 DEF Data
  <2> QED BY <1>0, <1>3, <2>2 DEF BufsOf
<1> QED BY <1>1, <1>2, <1>3

\* A poll of o consumes k completions, hands their buffers out and leaves data e
\* and the future at y.
LEMMA Polled ==
  ASSUME CqeAssumption, IInv, NEW o \in CqeOps, NEW k \in 0..Len(list[o]), NEW e \in Data,
         NEW y \in {"live", "done"}, fut[o] = "live",
         list' = [list EXCEPT ![o] = Rest(o, k)], carried' = [carried EXCEPT ![o] = e],
         fut' = [fut EXCEPT ![o] = y], UNCHANGED <<kern, group, providing, lost, taker, sent>>,
         e.batch = <<>>, e.unparsed = {},
         owned' \subseteq Bufs \cup Opens,
         owned' \cap Bufs = (owned \cap Bufs) \cup ({list[o][j].buf : j \in 1..k} \ {Nothing}),
         y = "done" => k = Len(list[o]) /\ kern[o] = "ended", PayloadInBuffer',
         o \in Sends => IF y = "done" THEN e.bytes = sent[o]
                        ELSE SendPhase(kern[o], list'[o], e.bytes, sent[o])
  PROVE  IInv'
<1> DEFINE B == {list[o][j].buf : j \in 1..k}
<1>1. /\ list' \in [CqeOps -> Seq(Cqe)] /\ Entries' /\ Unique' /\ Listed' = Listed \ B
      /\ k = Len(list[o]) => list'[o] = <<>>
      /\ \A p \in CqeOps \ {o} : list'[p] = list[p]
  BY Consumed
<1>2. /\ fut'[o] = y /\ carried'[o] = e
      /\ \A p \in CqeOps \ {o} : fut'[p] = fut[p] /\ carried'[p] = carried[p]
  BY DEF IInv, TypeOK
<1>3. B \ {Nothing} \subseteq Listed
  <2> SUFFICES ASSUME NEW j \in 1..k, list[o][j].buf # Nothing PROVE list[o][j].buf \in Listed
    OBVIOUS
  <2>1. list[o] \in Seq(Cqe) /\ j \in 1..Len(list[o]) BY DEF IInv, TypeOK
  <2>2. list[o][j] \in Cqe BY <2>1
  <2>3. list[o][j].buf \in Bufs BY <2>2 DEF Cqe
  <2> QED BY <2>1, <2>3 DEF Listed
<1>4. TypeOK'
  BY <1>1 DEF IInv, TypeOK
<1>5. NothingKept'
  BY <1>2 DEF IInv, NothingKept
<1>6. Phases'
  BY <1>1, <1>2 DEF IInv, Phases
<1>7. Partition'
  <2>1. Listed \subseteq Bufs /\ Nothing \notin Bufs BY DEF Listed, CqeAssumption
  <2>2. Listed' = Listed \ (B \ {Nothing}) BY <1>1, <2>1
  <2>3. group \subseteq Bufs /\ providing \subseteq Bufs BY DEF IInv, TypeOK
  <2> DEFINE C == B \ {Nothing}
             O == owned \cap Bufs
  <2>4. /\ owned' \cap Bufs = O \cup C /\ Listed' = Listed \ C /\ C \subseteq Listed
        /\ UNCHANGED <<group, providing, lost>>
    BY <1>3, <2>2
  <2>5. Listed' \subseteq Bufs BY <2>1, <2>4
  <2> HIDE DEF C, Listed
  <2>6. /\ Bufs = group \cup providing \cup O \cup (lost \cap Bufs) \cup Listed
        /\ group \cap providing = {} /\ group \cap O = {} /\ group \cap lost = {}
        /\ group \cap Listed = {} /\ providing \cap O = {} /\ providing \cap lost = {}
        /\ providing \cap Listed = {} /\ (owned \cap lost) \cap Bufs = {}
        /\ owned \cap Listed = {} /\ lost \cap Listed = {}
    BY DEF IInv, Partition
  <2>7. Bufs = group \cup providing \cup (owned' \cap Bufs) \cup (lost \cap Bufs) \cup Listed'
    BY <2>4, <2>6
  <2>8. /\ group \cap owned' = {} /\ providing \cap owned' = {} /\ (owned' \cap lost) \cap Bufs = {}
        /\ owned' \cap Listed' = {}
    BY <2>1, <2>3, <2>4, <2>5, <2>6
  <2>9. group \cap Listed' = {} /\ providing \cap Listed' = {} /\ lost \cap Listed' = {}
    BY <2>4, <2>6
  <2> QED BY <2>4, <2>6, <2>7, <2>8, <2>9 DEF Partition
<1>8. OnlyDropsLose'
  <2>1. \A r \in lost : (IF r \in Bufs THEN taker[r] ELSE r) # o
    BY DEF IInv, OnlyDropsLose
  <2>2. \A r \in lost : (IF r \in Bufs THEN taker[r] ELSE r) \in CqeOps \cup {Nothing}
    BY DEF IInv, TypeOK, CqeOps
  <2>3. fut' = [fut EXCEPT ![o] = y] /\ lost' = lost /\ taker' = taker OBVIOUS
  <2> QED BY <2>1, <2>2, <2>3 DEF IInv, OnlyDropsLose, TypeOK
<1>9. Sending'
  BY <1>1, <1>2, SendFrame
<1> QED BY <1>1, <1>4, <1>5, <1>6, <1>7, <1>8, <1>9 DEF IInv

\* The completion a poll stops at: those before it carry nothing.
LEMMA StopsAt ==
  ASSUME CqeAssumption, IInv, NEW o \in CqeOps, NEW k \in 1..Len(list[o]), Unfinished(o, k - 1)
  PROVE  /\ k \in Nat /\ k \in 0..Len(list[o]) /\ k - 1 \in 0..Len(list[o]) /\ list[o][k] \in Cqe
         /\ After(o)[k] = Update(o, After(o)[k - 1], list[o][k])
         /\ After(o)[k - 1] \in Data /\ After(o)[k - 1].batch = <<>> /\ After(o)[k - 1].unparsed = {}
         /\ {list[o][j].buf : j \in 1..k} \ {Nothing} = {list[o][k].buf} \ {Nothing}
         /\ list[o][k].buf # Nothing => list[o][k].ok /\ list[o][k].n <= BufLen
         /\ list[o][k].n \in Nat /\ list[o][k].buf \in Bufs \cup {Nothing}
<1>1. list[o] \in Seq(Cqe) /\ Len(list[o]) \in Nat
  BY DEF IInv, TypeOK
<1>2. k \in Nat /\ k \in 0..Len(list[o]) /\ k - 1 \in 0..Len(list[o]) /\ list[o][k] \in Cqe
  BY <1>1
<1>3. After(o)[k] = Update(o, After(o)[k - 1], list[o][k])
  BY AfterDef DEF IInv
<1>4. After(o)[k - 1] \in Data
  BY <1>2, AfterType
<1>5. /\ After(o)[k - 1].batch = <<>> /\ After(o)[k - 1].unparsed = {}
      /\ \A j \in 1..(k - 1) : list[o][j].buf = Nothing
  BY <1>2, Skipped
<1>6. {list[o][j].buf : j \in 1..k} \ {Nothing} = {list[o][k].buf} \ {Nothing}
  <2>1. \A j \in 1..k : j = k \/ j \in 1..(k - 1) BY <1>2
  <2>2. k \in 1..k BY <1>2
  <2> QED BY <1>5, <2>1, <2>2
<1>7. list[o][k].buf # Nothing => list[o][k].ok /\ list[o][k].n <= BufLen
  BY DEF IInv, Entries
<1>8. list[o][k].n \in Nat /\ list[o][k].buf \in Bufs \cup {Nothing}
  BY <1>2 DEF Cqe
<1> QED BY <1>2, <1>3, <1>4, <1>5, <1>6, <1>7, <1>8

\* What the caller gets from one completion: its buffer, and packets within it.
LEMMA Taken ==
  ASSUME CqeAssumption, IInv, NEW o \in Recvs,
         NEW d \in Data, d.batch = <<>>, d.unparsed = {}, NEW c \in Cqe,
         c.buf # Nothing => c.n <= BufLen, TakeBatch(Record(d, c))
  PROVE  /\ owned' = owned \cup ({c.buf} \ {Nothing})
         /\ PayloadInBuffer'
<1>1. owned' = owned \cup BufsOf(Record(d, c)) /\ packets' = Range(Record(d, c).batch)
  BY DEF TakeBatch
<1>2. /\ BufsOf(Record(d, c)) = {c.buf} \ {Nothing}
      /\ \A p \in Range(Record(d, c).batch) : c.buf # Nothing /\ HeaderLen + NameLen + p.len <= c.n
  BY Recorded
<1>3. PayloadInBuffer'
  <2> SUFFICES ASSUME NEW p \in packets' PROVE HeaderLen + NameLen + p.len <= BufLen
    BY DEF PayloadInBuffer
  <2>1. p \in Range(Record(d, c).batch) BY <1>1
  <2>2. HeaderLen + NameLen + p.len <= c.n /\ c.n <= BufLen BY <1>2, <2>1
  <2>3. c.n \in Nat /\ BufLen \in Nat BY DEF Cqe, CqeAssumption
  <2>4. HeaderLen + NameLen + p.len \in Nat
    <3>1. o \in CqeOps /\ Record(d, c) = Update(o, d, c) BY DEF CqeOps, Update
    <3>2. Record(d, c) \in Data BY <3>1, UpdateType
    <3> DEFINE P == [buf : Bufs, len : Nat]
               q == Record(d, c).batch
    <3>3. q \in Seq(P) BY <3>2 DEF Data
    <3>4. PICK i \in 1..Len(q) : p = q[i]
      <4> HIDE DEF P, q
      <4>1. DOMAIN q = 1..Len(q) BY <3>3
      <4> QED BY <2>1, <4>1 DEF Range, q
    <3>5. p \in P
      <4> HIDE DEF P, q
      <4> QED BY <3>3, <3>4
    <3> QED BY <3>5 DEF CqeAssumption
  <2> QED BY <2>2, <2>3, <2>4
<1> QED BY <1>1, <1>2, <1>3

LEMMA StepPollYield ==
  ASSUME CqeAssumption, IInv, NEW o \in CqeOps, NEW k \in 1..Len(list[o]), PollYield(o, k)
  PROVE  IInv'
<1> DEFINE c == list[o][k]
           d == After(o)[k - 1]
<1>1. /\ fut[o] = "live" /\ Unfinished(o, k - 1) /\ ShouldYield(o, After(o)[k]) /\ TakeBatch(After(o)[k])
      /\ list' = [list EXCEPT ![o] = Rest(o, k)] /\ carried' = [carried EXCEPT ![o] = NoData]
      /\ UNCHANGED <<fut, kern, group, providing, lost, taker, sent>>
  BY DEF PollYield
<1>2. /\ k \in 0..Len(list[o]) /\ c \in Cqe /\ After(o)[k] = Update(o, d, c)
      /\ d \in Data /\ d.batch = <<>> /\ d.unparsed = {}
      /\ {list[o][j].buf : j \in 1..k} \ {Nothing} = {c.buf} \ {Nothing}
      /\ c.buf # Nothing => c.ok /\ c.n <= BufLen
      /\ c.buf \in Bufs \cup {Nothing}
  BY <1>1, StopsAt
<1>3. o \in Recvs /\ o \notin Sends
  BY <1>1 DEF ShouldYield, CqeAssumption
<1> HIDE DEF c, d
<1>4. TakeBatch(Record(d, c))
  BY <1>1, <1>2, <1>3 DEF Update
<1>5. owned' = owned \cup ({c.buf} \ {Nothing}) /\ PayloadInBuffer'
  BY <1>2, <1>3, <1>4, Taken
<1>6. NoData \in Data /\ NoData.batch = <<>> /\ NoData.unparsed = {}
  BY DEF NoData, Data
<1>7. owned' \subseteq Bufs \cup Opens /\ owned' \cap Bufs = (owned \cap Bufs) \cup ({c.buf} \ {Nothing})
  BY <1>2, <1>5 DEF IInv, TypeOK
<1>8. fut' = [fut EXCEPT ![o] = "live"]
  BY <1>1 DEF IInv, TypeOK
<1>9. owned' \cap Bufs = (owned \cap Bufs) \cup ({list[o][j].buf : j \in 1..k} \ {Nothing})
  BY <1>2, <1>7
<1> QED BY <1>1, <1>2, <1>3, <1>5, <1>6, <1>7, <1>8, <1>9, Polled

\* How a send's bytes add up: the completion that ends it, and the one before it.
LEMMA SendEnds ==
  ASSUME CqeAssumption, IInv, NEW o \in Sends, NEW k \in 1..Len(list[o]), fut[o] = "live",
         Unfinished(o, k - 1), ~list[o][k].more
  PROVE  SendResult(After(o)[k - 1], list[o][k]) = sent[o]
<1> DEFINE l == list[o]
           b == carried[o].bytes
           n == sent[o]
<1>0. o \in CqeOps /\ l \in Seq(Cqe) /\ carried[o] \in Data /\ b \in Nat /\ n \in Nat /\ o \notin Recvs
  BY DEF IInv, TypeOK, CqeOps, Data, CqeAssumption
<1>1. k = Len(l) /\ kern[o] = "ended"
  BY <1>0 DEF IInv, Entries
<1>2. SendPhase("ended", l, b, n)
  BY <1>1 DEF IInv, Sending
<1>3. /\ After(o)[0] = carried[o]
      /\ \A j \in 1..Len(l) : After(o)[j] = Update(o, After(o)[j - 1], l[j])
  BY <1>0, AfterDef DEF IInv
<1>4. CASE Len(l) = 2 /\ l[1] = CQE(Nothing, TRUE, n, TRUE) /\ l[2] = CQE(Nothing, TRUE, 0, FALSE) /\ b = 0
  <2>1. k = 2 /\ k - 1 = 1 /\ 1 \in 1..Len(l) /\ 1 - 1 = 0 BY <1>1, <1>4
  <2>2. After(o)[1] = UpdateSend(carried[o], l[1]) BY <1>0, <1>3, <2>1 DEF Update
  <2>3. l[1].n = n /\ l[2].ok /\ l[2].n = 0 BY <1>4 DEF CQE
  <2>4. After(o)[1].bytes = b + l[1].n BY <1>0, <2>2 DEF UpdateSend, Data
  <2>5. After(o)[1].bytes = n /\ n + 0 = n BY <1>0, <1>4, <2>3, <2>4
  <2> HIDE DEF l, n, b
  <2>6. l[k] = l[2] /\ After(o)[k - 1] = After(o)[1] BY <2>1
  <2>7. SendResult(After(o)[1], l[2]) = n BY <2>3, <2>5 DEF SendResult
  <2> QED BY <2>6, <2>7 DEF l, n
<1>5. CASE Len(l) = 1 /\ l[1] = CQE(Nothing, TRUE, 0, FALSE) /\ b = n
  <2>1. k = 1 /\ k - 1 = 0 BY <1>1, <1>5
  <2>2. l[1].ok /\ l[1].n = 0 /\ b + 0 = n BY <1>0, <1>5 DEF CQE
  <2> HIDE DEF l, n
  <2>3. SendResult(carried[o], l[1]) = n BY <2>2 DEF SendResult
  <2> QED BY <1>3, <2>1, <2>3 DEF l, n
<1>6. CASE /\ Len(l) = 1 /\ b = 0
           /\ \E ok \in BOOLEAN, m \in Nat : l[1] = CQE(Nothing, ok, m, FALSE) /\ n = IF ok THEN m ELSE 0
  <2>1. k = 1 /\ k - 1 = 0 BY <1>1, <1>6
  <2>2. PICK ok \in BOOLEAN, m \in Nat : l[1] = CQE(Nothing, ok, m, FALSE) /\ n = IF ok THEN m ELSE 0
    BY <1>6
  <2>3. l[1].ok = ok /\ l[1].n = m /\ b + m = m BY <1>6, <2>2 DEF CQE
  <2> HIDE DEF l, n
  <2>4. SendResult(carried[o], l[1]) = n BY <2>2, <2>3 DEF SendResult
  <2> QED BY <1>3, <2>1, <2>4 DEF l, n
<1> QED BY <1>2, <1>4, <1>5, <1>6 DEF SendPhase

LEMMA StepPollFinal ==
  ASSUME CqeAssumption, IInv, NEW o \in CqeOps, NEW k \in 1..Len(list[o]), PollFinal(o, k)
  PROVE  IInv'
<1> DEFINE c == list[o][k]
           d == After(o)[k - 1]
           e == [NoData EXCEPT !.bytes = SendResult(d, c)]
<1>1. /\ fut[o] = "live" /\ Unfinished(o, k - 1) /\ ~c.more
      /\ list' = [list EXCEPT ![o] = Rest(o, k)] /\ carried' = [carried EXCEPT ![o] = e]
      /\ fut' = [fut EXCEPT ![o] = "done"]
      /\ UNCHANGED <<kern, group, providing, lost, taker, sent>>
  BY DEF PollFinal, Final
<1>2. /\ k \in 0..Len(list[o]) /\ c \in Cqe
      /\ d \in Data /\ d.batch = <<>> /\ d.unparsed = {}
      /\ {list[o][j].buf : j \in 1..k} \ {Nothing} = {c.buf} \ {Nothing}
      /\ c.buf # Nothing => c.ok /\ c.n <= BufLen
      /\ c.buf \in Bufs \cup {Nothing}
  BY <1>1, StopsAt
<1>3. k = Len(list[o]) /\ kern[o] = "ended" /\ (c.buf # Nothing => o \in Recvs)
  BY <1>1 DEF IInv, Entries
<1>4. /\ o \in Recvs => CompleteRecv(d, c)
      /\ o \in Opens => CompleteOpen(o, c)
      /\ o \in Sends => UNCHANGED <<owned, packets>>
  <2>1. CASE o \in Recvs BY <2>1 DEF PollFinal, CqeAssumption
  <2>2. CASE o \in Opens BY <2>2 DEF PollFinal, CqeAssumption
  <2>3. CASE o \in Sends BY <2>3 DEF PollFinal, CqeAssumption
  <2> QED BY <2>1, <2>2, <2>3 DEF CqeAssumption
<1>5. o \in Sends => SendResult(d, c) = sent[o]
  BY <1>1, SendEnds
<1> HIDE DEF c, d
<1>6. e \in Data /\ e.batch = <<>> /\ e.unparsed = {} /\ e.bytes = SendResult(d, c)
  <2>1. d.bytes \in Nat /\ c.n \in Nat BY <1>2 DEF Data, Cqe
  <2>2. SendResult(d, c) \in Nat BY <2>1 DEF SendResult
  <2> DEFINE r == SendResult(d, c)
  <2> HIDE DEF r
  <2>3. e = [NoData EXCEPT !.bytes = r] BY DEF r
  <2>4. r \in Nat BY <2>2 DEF r
  <2>5. NoData \in Data /\ NoData.batch = <<>> /\ NoData.unparsed = {} BY DEF NoData, Data
  <2> HIDE DEF e
  <2>6. e \in Data /\ e.batch = <<>> /\ e.unparsed = {} /\ e.bytes = r
    BY <2>3, <2>4, <2>5 DEF Data
  <2> QED BY <2>6 DEF r
<1> HIDE DEF e
<1>7. /\ PayloadInBuffer' /\ owned' \subseteq Bufs \cup Opens
      /\ owned' \cap Bufs = (owned \cap Bufs) \cup ({c.buf} \ {Nothing})
  <2>1. CASE o \in Recvs /\ c.ok
    <3>1. TakeBatch(Record(d, c)) BY <1>4, <2>1 DEF CompleteRecv
    <3>2. owned' = owned \cup ({c.buf} \ {Nothing}) /\ PayloadInBuffer' BY <1>2, <2>1, <3>1, Taken
    <3> QED BY <1>2, <3>2 DEF IInv, TypeOK
  <2>2. CASE o \in Recvs /\ ~c.ok
    <3>1. TakeBatch(d) /\ c.buf = Nothing BY <1>2, <1>4, <2>2 DEF CompleteRecv
    <3>2. Range(d.batch) = {} BY <1>2 DEF Range
    <3>3. owned' = owned /\ packets' = {} BY <1>2, <3>1, <3>2 DEF TakeBatch, BufsOf
    <3> QED BY <3>1, <3>3 DEF IInv, TypeOK, PayloadInBuffer
  <2>3. CASE o \in Opens
    <3>1. packets' = packets /\ owned \subseteq owned' /\ owned' \subseteq owned \cup {o}
      BY <1>4, <2>3 DEF CompleteOpen
    <3>2. c.buf = Nothing /\ o \notin Bufs BY <1>3, <2>3 DEF CqeAssumption
    <3> QED BY <2>3, <3>1, <3>2 DEF IInv, TypeOK, PayloadInBuffer
  <2>4. CASE o \in Sends
    <3>1. c.buf = Nothing BY <1>3, <2>4 DEF CqeAssumption
    <3> QED BY <1>4, <2>4, <3>1 DEF IInv, TypeOK, PayloadInBuffer
  <2> QED BY <2>1, <2>2, <2>3, <2>4 DEF CqeOps
<1>8. owned' \cap Bufs = (owned \cap Bufs) \cup ({list[o][j].buf : j \in 1..k} \ {Nothing})
  BY <1>2, <1>7
<1> QED BY <1>1, <1>2, <1>3, <1>5, <1>6, <1>7, <1>8, Polled

LEMMA StepPollDrained ==
  ASSUME CqeAssumption, IInv, NEW o \in CqeOps, PollDrained(o)
  PROVE  IInv'
<1> DEFINE k == Len(list[o])
           e == After(o)[k]
<1>1. /\ fut[o] = "live" /\ list[o] # <<>> /\ Unfinished(o, k)
      /\ carried' = [carried EXCEPT ![o] = e] /\ list' = [list EXCEPT ![o] = <<>>]
      /\ UNCHANGED <<fut, kern, group, providing, owned, packets, lost, taker, sent>>
  BY DEF PollDrained, caller
<1>2. list[o] \in Seq(Cqe) /\ k \in Nat /\ k \in 0..k /\ k # 0
  BY <1>1 DEF IInv, TypeOK
<1>3. e \in Data
  BY <1>2, AfterType
<1>4. e.batch = <<>> /\ e.unparsed = {} /\ \A j \in 1..k : list[o][j].buf = Nothing
  BY <1>1, <1>2, Skipped
<1>5. Rest(o, k) = <<>>
  BY <1>2 DEF Rest
<1>6. o \in Sends => SendPhase(kern[o], <<>>, e.bytes, sent[o])
  <2> SUFFICES ASSUME o \in Sends PROVE SendPhase(kern[o], <<>>, e.bytes, sent[o])
    OBVIOUS
  <2> DEFINE l == list[o]
             b == carried[o].bytes
             n == sent[o]
  <2>1. SendPhase(kern[o], l, b, n) BY <1>1 DEF IInv, Sending
  <2>2. \A j \in 1..k : l[j].more BY <1>1 DEF Unfinished
  <2>3. kern[o] = "sent" /\ Len(l) = 1 /\ l[1] = CQE(Nothing, TRUE, n, TRUE) /\ b = 0
    <3>1. k \in 1..k BY <1>2
    <3>2. l[k].more BY <2>2, <3>1
    <3>3. CASE Len(l) = 2 /\ l[2] = CQE(Nothing, TRUE, 0, FALSE) BY <3>2, <3>3 DEF CQE
    <3>4. CASE Len(l) = 1 /\ l[1] = CQE(Nothing, TRUE, 0, FALSE) BY <3>2, <3>4 DEF CQE
    <3>5. CASE Len(l) = 1 /\ \E ok \in BOOLEAN, m \in Nat : l[1] = CQE(Nothing, ok, m, FALSE)
      BY <3>2, <3>5 DEF CQE
    <3> QED BY <1>2, <2>1, <3>3, <3>4, <3>5 DEF SendPhase
  <2>4. After(o)[0] = carried[o] /\ After(o)[1] = Update(o, After(o)[1 - 1], l[1])
    <3>1. 1 \in 1..Len(l) BY <2>3
    <3> QED BY <3>1, AfterDef DEF IInv
  <2>5. o \notin Recvs /\ carried[o] \in Data /\ n \in Nat BY DEF CqeAssumption, IInv, TypeOK
  <2>6. e = UpdateSend(carried[o], l[1])
    <3>1. k = 1 /\ 1 - 1 = 0 BY <2>3
    <3>2. e = After(o)[1] /\ After(o)[1] = Update(o, carried[o], l[1]) BY <2>4, <3>1
    <3> HIDE DEF e, l
    <3> QED BY <2>5, <3>2 DEF Update
  <2>7. e.bytes = b + l[1].n
    <3> HIDE DEF e
    <3> QED BY <2>5, <2>6 DEF UpdateSend, Data
  <2>8. l[1].n = n BY <2>3 DEF CQE
  <2> HIDE DEF e
  <2>9. e.bytes = n
    <3>1. b = 0 /\ n \in Nat BY <2>3, <2>5
    <3> HIDE DEF l, b, n
    <3>2. e.bytes = b + n BY <2>7, <2>8
    <3> QED BY <3>1, <3>2
  <2>10. Len(<<>>) = 0 OBVIOUS
  <2> QED BY <2>3, <2>9, <2>10 DEF SendPhase
<1> HIDE DEF e
<1>7. /\ owned' \subseteq Bufs \cup Opens /\ PayloadInBuffer'
      /\ owned' \cap Bufs = (owned \cap Bufs) \cup ({list[o][j].buf : j \in 1..k} \ {Nothing})
  BY <1>1, <1>4 DEF IInv, TypeOK, PayloadInBuffer
<1>8. fut' = [fut EXCEPT ![o] = "live"] /\ list' = [list EXCEPT ![o] = Rest(o, k)] /\ list'[o] = <<>>
  BY <1>1, <1>5 DEF IInv, TypeOK
<1>9. o \in Sends => SendPhase(kern[o], list'[o], e.bytes, sent[o])
  BY <1>6, <1>8
<1>10. k \in 0..Len(list[o])
  BY <1>2
<1> HIDE DEF k
<1> QED BY <1>1, <1>3, <1>4, <1>7, <1>8, <1>9, <1>10, Polled

-----------------------------------------------------------------------------
LEMMA StepInv == ASSUME CqeAssumption, IInv, [CqeNext]_cqeVars PROVE IInv'
<1>1. ASSUME NEW o \in CqeOps, SubmitOp(o) \/ Cancel(o) \/ DropOp(o) \/ PollOp(o) \/ Kernel(o) PROVE IInv'
  <2>1. CASE SubmitOp(o) BY <2>1, StepSubmit
  <2>2. CASE Cancel(o) BY <2>2, StepCancel
  <2>3. CASE DropOp(o) BY <2>3, StepDrop
  <2>4. CASE PollOp(o) BY <2>4, StepPollYield, StepPollFinal, StepPollDrained DEF PollOp
  <2>5. CASE Kernel(o)
    BY <2>5, StepKRecv, StepKEnd, StepKSend, StepKSendOnce, StepKNotify DEF Kernel
  <2> QED BY <1>1, <2>1, <2>2, <2>3, <2>4, <2>5
<1>2. ASSUME NEW b \in Bufs, Provide(b) \/ \E ok \in BOOLEAN : KProvide(b, ok) PROVE IInv'
  BY <1>2, StepProvide
<1>3. CASE UNCHANGED cqeVars
  <2>1. UNCHANGED <<fut, kern, list, carried, group, providing, owned, packets, lost, taker, sent>>
    BY <1>3 DEF cqeVars
  <2>2. TypeOK' /\ NothingKept' /\ Entries' /\ Unique' /\ Phases' /\ PayloadInBuffer' /\ OnlyDropsLose'
    BY <2>1 DEF IInv, TypeOK, NothingKept, Entries, Unique, Phases, PayloadInBuffer, OnlyDropsLose
  <2>3. Partition' BY <2>1 DEF IInv, Partition, Listed
  <2>4. Sending' BY <2>1 DEF IInv, Sending, SendPhase, CQE
  <2> QED BY <2>2, <2>3, <2>4 DEF IInv
<1> QED BY <1>1, <1>2, <1>3 DEF CqeNext, NextOf

\* From Partition: one of the six places, and no second one.
LEMMA OnePlace == ASSUME CqeAssumption, IInv PROVE BuffersAccounted
<1> SUFFICES ASSUME NEW b \in Bufs PROVE Cardinality({i \in 1..6 : Places(b)[i]}) = 1
  BY DEF BuffersAccounted
<1> DEFINE P == Places(b)
<1>1. ~P[5]
  <2>1. \A o \in Recvs : BufsOf(carried[o]) = {} BY DEF BufsOf, Range, IInv, NothingKept, CqeOps
  <2> QED BY <2>1 DEF Places
<1>2. /\ P[1] = (b \in group) /\ P[2] = (b \in providing) /\ P[3] = (b \in owned)
      /\ P[4] = (b \in lost) /\ P[6] = (\E o \in Recvs : \E i \in DOMAIN list[o] : list[o][i].buf = b)
  BY DEF Places
<1>3. (\E o \in Recvs : \E i \in DOMAIN list[o] : list[o][i].buf = b) <=> b \in Listed
  <2>1. b # Nothing BY DEF CqeAssumption
  <2>2. \A o \in CqeOps : DOMAIN list[o] = 1..Len(list[o]) BY DEF IInv, TypeOK
  <2>3. ASSUME NEW o \in Recvs, NEW i \in DOMAIN list[o], list[o][i].buf = b PROVE b \in Listed
    <3>1. o \in CqeOps BY DEF CqeOps
    <3> QED BY <2>2, <2>3, <3>1 DEF Listed
  <2>4. ASSUME NEW o \in CqeOps, NEW i \in 1..Len(list[o]), list[o][i].buf = b
        PROVE  o \in Recvs /\ i \in DOMAIN list[o]
    BY <2>1, <2>2, <2>4 DEF IInv, Entries
  <2> QED BY <2>3, <2>4 DEF Listed
<1>4. /\ b \in group \/ b \in providing \/ b \in owned \/ b \in lost \/ b \in Listed
      /\ b \in group => b \notin providing /\ b \notin owned /\ b \notin lost /\ b \notin Listed
      /\ b \in providing => b \notin owned /\ b \notin lost /\ b \notin Listed
      /\ b \in owned => b \notin lost /\ b \notin Listed
      /\ b \in lost => b \notin Listed
  BY DEF IInv, Partition
<1> HIDE DEF P
<1>5. \E i \in 1..6 : {j \in 1..6 : P[j]} = {i}
  <2>1. \A j \in 1..6 : j = 1 \/ j = 2 \/ j = 3 \/ j = 4 \/ j = 5 \/ j = 6 OBVIOUS
  <2>2. CASE b \in group
    <3>1. P[1] /\ ~P[2] /\ ~P[3] /\ ~P[4] /\ ~P[5] /\ ~P[6] BY <1>1, <1>2, <1>3, <1>4, <2>2
    <3>2. {j \in 1..6 : P[j]} = {1} BY <2>1, <3>1
    <3> QED BY <3>2
  <2>3. CASE b \in providing
    <3>1. ~P[1] /\ P[2] /\ ~P[3] /\ ~P[4] /\ ~P[5] /\ ~P[6] BY <1>1, <1>2, <1>3, <1>4, <2>3
    <3>2. {j \in 1..6 : P[j]} = {2} BY <2>1, <3>1
    <3> QED BY <3>2
  <2>4. CASE b \in owned
    <3>1. ~P[1] /\ ~P[2] /\ P[3] /\ ~P[4] /\ ~P[5] /\ ~P[6] BY <1>1, <1>2, <1>3, <1>4, <2>4
    <3>2. {j \in 1..6 : P[j]} = {3} BY <2>1, <3>1
    <3> QED BY <3>2
  <2>5. CASE b \in lost
    <3>1. ~P[1] /\ ~P[2] /\ ~P[3] /\ P[4] /\ ~P[5] /\ ~P[6] BY <1>1, <1>2, <1>3, <1>4, <2>5
    <3>2. {j \in 1..6 : P[j]} = {4} BY <2>1, <3>1
    <3> QED BY <3>2
  <2>6. CASE b \in Listed
    <3>1. ~P[1] /\ ~P[2] /\ ~P[3] /\ ~P[4] /\ ~P[5] /\ P[6] BY <1>1, <1>2, <1>3, <1>4, <2>6
    <3>2. {j \in 1..6 : P[j]} = {6} BY <2>1, <3>1
    <3> QED BY <3>2
  <2> QED BY <1>4, <2>2, <2>3, <2>4, <2>5, <2>6
<1> QED BY <1>5, FS_Singleton DEF P

\* Every provided buffer is in exactly one place, for any number of receives,
\* buffers and datagrams (record, take_batch, complete, Drop for Op).
THEOREM BuffersNeverForgotten == ASSUME CqeAssumption PROVE CqeSpec => []BuffersAccounted
<1>1. CqeInit => IInv BY InitInv
<1>2. IInv /\ [CqeNext]_cqeVars => IInv' BY StepInv
<1>3. IInv => BuffersAccounted BY OnePlace
<1> QED BY <1>1, <1>2, <1>3, PTL DEF CqeSpec

\* What completions carry is lost only with a dropped future (Lifecycle::complete
\* and Drop for Op).
THEOREM OnlyDroppedOpsLose == ASSUME CqeAssumption PROVE CqeSpec => []OnlyDropsLose
<1>1. CqeInit => IInv BY InitInv
<1>2. IInv /\ [CqeNext]_cqeVars => IInv' BY StepInv
<1>3. IInv => OnlyDropsLose BY DEF IInv
<1> QED BY <1>1, <1>2, <1>3, PTL DEF CqeSpec

\* After the final output the kernel is done and no completion is left (poll_op
\* returns at the completion without `more`).
THEOREM FinalMeansEnded == ASSUME CqeAssumption PROVE CqeSpec => []EndIsFinal
<1>1. CqeInit => IInv BY InitInv
<1>2. IInv /\ [CqeNext]_cqeVars => IInv' BY StepInv
<1>3. IInv => EndIsFinal BY DEF IInv, Phases, EndIsFinal
<1> QED BY <1>1, <1>2, <1>3, PTL DEF CqeSpec

\* A packet never reaches past the end of its buffer, whatever length the header
\* of a truncated datagram tells (parse_recvmsg_out).
THEOREM PacketsFit == ASSUME CqeAssumption PROVE CqeSpec => []PayloadInBuffer
<1>1. CqeInit => IInv BY InitInv
<1>2. IInv /\ [CqeNext]_cqeVars => IInv' BY StepInv
<1>3. IInv => PayloadInBuffer BY DEF IInv
<1> QED BY <1>1, <1>2, <1>3, PTL DEF CqeSpec

\* A zero-copy send reports what the kernel sent, however its completions and its
\* polls interleave (SendZc::update and complete).
THEOREM SendsReportExactly == ASSUME CqeAssumption PROVE CqeSpec => []SendExact
<1>1. CqeInit => IInv BY InitInv
<1>2. IInv /\ [CqeNext]_cqeVars => IInv' BY StepInv
<1>3. IInv => SendExact BY DEF IInv, Sending, SendExact
<1> QED BY <1>1, <1>2, <1>3, PTL DEF CqeSpec
=============================================================================
