--------------------------- MODULE BufferIoProofs ---------------------------
(***************************************************************************)
(* The lengths of buffers cover written bytes only, slices and reads agree *)
(* with them, the registered buffer has one holder, and write_fixed_all_at *)
(* writes every byte once: for every capacity, every number of segments    *)
(* and however the kernel cuts its transfers.                              *)
(***************************************************************************)
EXTENDS BufferIo, WellFoundedInduction, TLAPS

-----------------------------------------------------------------------------
(* The inductive invariant.                                                *)

\* Lengths len of a memory m that show written bytes only.
Covers(ini, m, len) == \A i \in DOMAIN len : len[i] <= ini[m][i]

\* A buffer and the memory behind it.  Only a recvmsg into several Vecs can leave
\* a length above a capacity, and only a Buffer of several segments grows wild.
GoodBuf(b, ini) ==
  /\ b \in BufSet
  /\ Len(b.cap) > 0 /\ Len(b.len) = Len(b.cap) /\ Len(ini[b.mem]) = Len(b.cap)
  /\ b.mem = "reg" => b.ty = "buffer" /\ b.cap = <<RegCap>>
  /\ b.ty = "vec" => Len(b.cap) = 1
  /\ b.ty = "wild" => Len(b.cap) > 1
  /\ b.ty # "vecs" => \A i \in 1..Len(b.cap) : b.len[i] <= b.cap[i]

\* A view of a buffer lies inside it and begins within the initialised bytes.
GoodView(b, v) ==
  v # Nil => /\ v \in ViewSet /\ b.ty # "vecs"
             /\ v[1] <= v[2] /\ v[2] <= bytes_total(b) /\ v[1] <= bytes_init(b)

\* Which buffers a call takes.
GoodCall(call, b, v) ==
  /\ call \in {"read_at", "write_at"} => b.ty = "buffer" /\ v = Nil
  /\ call \in {"read_fixed", "write_fixed", "write_all"} => b.mem = "reg"
  /\ call = "recv_from" => b.ty \in {"buffer", "vec"}
  /\ call = "recvmsg" => b.ty = "vecs" /\ v = Nil

\* A buffer in an operation shows written bytes only, unless its length was left
\* wrong before or a read_at has filled it in advance.
Shown(call, b, ini, bad) ==
  call # "read_at" /\ b.mem \notin bad => Covers(ini, b.mem, b.len)

RegInv ==
  /\ reg \in [free : BOOLEAN, len : Nat] /\ reg.len <= RegCap
  /\ init \in [Mems -> Seq(Nat)] /\ Len(init["reg"]) = 1
  /\ reg.free /\ "reg" \notin tainted => reg.len <= init["reg"][1]

CurInv ==
  /\ cur = Nil => view = Nil
  /\ cur # Nil => /\ GoodBuf(cur, init) /\ GoodView(cur, view)
                  /\ cur.mem \notin tainted => Covers(init, cur.mem, cur.len)

OpInv ==
  op # Nil =>
    /\ cur = Nil /\ result = Nil
    /\ op \in OpSet /\ op.mem = op.buf.mem
    /\ GoodBuf(op.buf, init) /\ GoodView(op.buf, op.view) /\ GoodView(op.buf, op.orig)
    /\ GoodCall(op.call, op.buf, op.view) /\ Shown(op.call, op.buf, init, tainted)
    /\ op.call # "write_all" => op.view = op.orig
    /\ op.st = "answered" =>
         /\ op.n <= Room(op) /\ (~op.ok => op.n = 0)
         /\ op.call \in Reads /\ ~IntoArray(op) =>
              Covers(init, op.mem, Filled(op.buf.cap, ViewBegin(op.view) + op.n))

OrphanInv ==
  orphan # Nil =>
    /\ orphan \in OrphanSet /\ orphan.mem = orphan.buf.mem
    /\ GoodBuf(orphan.buf, init) /\ GoodView(orphan.buf, orphan.view)
    /\ GoodCall(orphan.call, orphan.buf, orphan.view)
    /\ Shown(orphan.call, orphan.buf, init, tainted)

\* Each memory has one holder, and the registered one is free without.
HolderInv ==
  /\ orphan # Nil /\ cur # Nil => cur.mem # orphan.mem
  /\ orphan # Nil /\ op # Nil => op.mem # orphan.mem
  /\ reg.free <=> /\ cur # Nil => cur.mem # "reg"
                  /\ op # Nil => op.mem # "reg"
                  /\ orphan # Nil => orphan.mem # "reg"

Run(k, pos, begin) == [i \in 1..k |-> <<pos + i - 1, begin + i - 1>>]

\* The loop of write_fixed_all_at has written k bytes; o is its operation, whose
\* last answer it may not have looked at yet.
Progress(o, k) ==
  LET done == IF o.st = "answered" THEN k - o.n ELSE k IN
  /\ done >= 0 /\ o.pos = o.start + done
  /\ ViewBegin(o.view) = ViewBegin(o.orig) + done
  /\ view_init(o.buf, o.view) + done = view_init(o.buf, o.orig)
  /\ o.start + view_init(o.buf, o.orig) <= PosMax

WriteInv ==
  /\ op # Nil /\ op.call = "write_all" =>
       \E k \in Nat : out = Run(k, op.start, ViewBegin(op.orig)) /\ Progress(op, k)
  /\ result # Nil /\ result.call = "write_all" /\ result.ok =>
       out = Run(result.all, result.pos, result.begin)

\* What a successful read has left in its buffer.
ReadInv ==
  result # Nil /\ cur # Nil /\ result.ok /\ result.call \in {"read_at", "read_fixed"} =>
    cur.len = Filled(cur.cap, result.begin + result.n)

IInv == RegInv /\ CurInv /\ OpInv /\ OrphanInv /\ HolderInv /\ WriteInv /\ ReadInv
-----------------------------------------------------------------------------
(* Loops over segments.                                                    *)

\* Induction over the natural numbers, for sets.
LEMMA NatSetInduction ==
  ASSUME NEW S, 0 \in S, \A n \in Nat : n \in S => n + 1 \in S
  PROVE  Nat \subseteq S
<1> DEFINE T == Nat \ S
<1> SUFFICES ASSUME T # {} PROVE FALSE
  OBVIOUS
<1>1. PICK x \in T : \A y \in T : ~(<<y, x>> \in OpToRel(<, Nat))
  BY NatLessThanWellFounded, WFMin, Zenon
<1>2. x \in Nat /\ x # 0
  OBVIOUS
<1>3. x - 1 \in Nat /\ x - 1 < x /\ (x - 1) + 1 = x
  BY <1>2
<1>4. x - 1 \notin T
  <2>1. <<x - 1, x>> \in OpToRel(<, Nat)
    BY <1>2, <1>3 DEF OpToRel
  <2> QED BY <2>1, <1>1
<1> QED BY <1>3, <1>4

\* A loop over 1..N that carries a number has one run.
LEMMA LoopRuns ==
  ASSUME NEW N \in Nat, NEW a \in Nat, NEW G \in [(1..N) \X Nat -> Nat]
  PROVE  \E f \in [0..N -> Nat] : f[0] = a /\ \A i \in 1..N : f[i] = G[<<i, f[i - 1]>>]
<1> DEFINE Runs(m, f) == f[0] = a /\ \A i \in 1..m : f[i] = G[<<i, f[i - 1]>>]
           Done == {m \in Nat : m <= N => \E f \in [0..m -> Nat] : Runs(m, f)}
<1>1. 0 \in Done
  <2>1. [j \in 0..0 |-> a] \in [0..0 -> Nat] /\ Runs(0, [j \in 0..0 |-> a]) OBVIOUS
  <2> QED BY <2>1
<1>2. ASSUME NEW m \in Nat, m \in Done PROVE m + 1 \in Done
  <2> SUFFICES ASSUME m + 1 <= N PROVE \E f \in [0..(m + 1) -> Nat] : Runs(m + 1, f)
    OBVIOUS
  <2>1. PICK f \in [0..m -> Nat] : Runs(m, f)
    BY <1>2
  <2> DEFINE g == [j \in 0..(m + 1) |-> IF j = m + 1 THEN G[<<m + 1, f[m]>>] ELSE f[j]]
  <2>2. f[m] \in Nat /\ <<m + 1, f[m]>> \in (1..N) \X Nat
    OBVIOUS
  <2>3. g \in [0..(m + 1) -> Nat]
    BY <2>2
  <2>4. g[0] = a
    BY <2>1
  <2>5. ASSUME NEW i \in 1..(m + 1) PROVE g[i] = G[<<i, g[i - 1]>>]
    <3>1. i - 1 \in 0..m /\ g[i - 1] = f[i - 1] OBVIOUS
    <3>2. CASE i = m + 1
      <4>1. i - 1 = m /\ g[i] = G[<<i, f[m]>>] BY <3>2
      <4> QED BY <3>1, <4>1
    <3>3. CASE i # m + 1
      <4>1. i \in 1..m /\ g[i] = f[i] BY <3>3
      <4> QED BY <2>1, <3>1, <4>1
    <3> QED BY <3>2, <3>3
  <2> HIDE DEF g
  <2> QED BY <2>3, <2>4, <2>5
<1>3. N \in Done
  <2> HIDE DEF Done
  <2> QED BY <1>1, <1>2, NatSetInduction
<1> QED BY <1>3

\* Prefix sums one after the other.
LEMMA PrefixDef ==
  ASSUME NEW s \in Seq(Nat)
  PROVE  /\ Prefix(s) \in [0..Len(s) -> Nat] /\ Prefix(s)[0] = 0
         /\ \A i \in 1..Len(s) : Prefix(s)[i] = Prefix(s)[i - 1] + s[i]
<1> DEFINE N == Len(s)
           Step(f, i) == IF i = 0 THEN 0 ELSE f[i - 1] + s[i]
           P == CHOOSE f : f = [i \in 0..N |-> Step(f, i)]
           G == [x \in (1..N) \X Nat |-> x[2] + s[x[1]]]
<1>0. N \in Nat /\ \A i \in 1..N : s[i] \in Nat
  OBVIOUS
<1>1. G \in [(1..N) \X Nat -> Nat]
  BY <1>0
<1>2. PICK f \in [0..N -> Nat] : f[0] = 0 /\ \A i \in 1..N : f[i] = G[<<i, f[i - 1]>>]
  <2> HIDE DEF N, G
  <2>1. 0 \in Nat OBVIOUS
  <2> QED BY <1>0, <1>1, <2>1, LoopRuns, Zenon
<1>3. \A i \in 1..N : f[i] = f[i - 1] + s[i]
  <2> SUFFICES ASSUME NEW i \in 1..N PROVE f[i] = f[i - 1] + s[i]
    OBVIOUS
  <2>0. i - 1 \in 0..N
    <3> HIDE DEF N
    <3> QED BY <1>0
  <2>1. f[i - 1] \in Nat BY <2>0
  <2>2. <<i, f[i - 1]>> \in (1..N) \X Nat BY <2>1
  <2> QED BY <1>2, <2>2
<1>4. f = [i \in 0..N |-> Step(f, i)]
  <2>1. \A i \in 0..N : f[i] = Step(f, i) BY <1>0, <1>2, <1>3
  <2> QED BY <2>1
<1>5. P = [i \in 0..N |-> Step(P, i)]
  <2> HIDE DEF Step, N
  <2> QED BY <1>4
<1>6. Prefix(s) = P
  BY DEF Prefix
<1>7. P[0] = 0 /\ \A i \in 1..N : P[i] = P[i - 1] + s[i]
  <2> HIDE DEF P, N
  <2> QED BY <1>0, <1>5
<1>8. \A i \in 0..N : P[i] \in Nat
  <2> HIDE DEF P
  <2> DEFINE T == {m \in Nat : m <= N => P[m] \in Nat}
  <2>1. 0 \in T BY <1>7
  <2>2. \A m \in Nat : m \in T => m + 1 \in T
    <3> SUFFICES ASSUME NEW m \in Nat, m \in T, m + 1 <= N PROVE P[m + 1] \in Nat
      OBVIOUS
    <3>1. m + 1 \in 1..N /\ P[m + 1] = P[m] + s[m + 1] BY <1>0, <1>7
    <3> QED BY <1>0, <3>1
  <2>3. Nat \subseteq T
    <3> HIDE DEF T
    <3> QED BY <2>1, <2>2, NatSetInduction
  <2> QED BY <2>3
<1>9. P \in [0..N -> Nat]
  <2> HIDE DEF P, Step
  <2> QED BY <1>5, <1>8
<1> QED BY <1>6, <1>7, <1>9

\* What the loops over segments have left: everything beyond the capacities so far.
LEMMA LeftDef ==
  ASSUME NEW cap \in Seq(Nat), NEW n \in Nat
  PROVE  /\ Left(cap, n) \in [0..Len(cap) -> Nat] /\ Left(cap, n)[0] = n
         /\ \A i \in 1..Len(cap) :
              Left(cap, n)[i] = Left(cap, n)[i - 1] - Least(cap[i], Left(cap, n)[i - 1])
<1> DEFINE N == Len(cap)
           Step(f, i) == IF i = 0 THEN n ELSE f[i - 1] - Least(cap[i], f[i - 1])
           L == CHOOSE f : f = [i \in 0..N |-> Step(f, i)]
           G == [x \in (1..N) \X Nat |-> x[2] - Least(cap[x[1]], x[2])]
<1>0. N \in Nat /\ \A i \in 1..N : cap[i] \in Nat
  OBVIOUS
<1>1. G \in [(1..N) \X Nat -> Nat]
  BY <1>0 DEF Least
<1>2. PICK f \in [0..N -> Nat] : f[0] = n /\ \A i \in 1..N : f[i] = G[<<i, f[i - 1]>>]
  <2> HIDE DEF N, G
  <2> QED BY <1>0, <1>1, LoopRuns
<1>3. \A i \in 1..N : f[i] = f[i - 1] - Least(cap[i], f[i - 1])
  <2> SUFFICES ASSUME NEW i \in 1..N PROVE f[i] = f[i - 1] - Least(cap[i], f[i - 1])
    OBVIOUS
  <2>0. i - 1 \in 0..N
    <3> HIDE DEF N
    <3> QED BY <1>0
  <2>1. f[i - 1] \in Nat BY <2>0
  <2>2. <<i, f[i - 1]>> \in (1..N) \X Nat BY <2>1
  <2> QED BY <1>2, <2>2
<1>4. f = [i \in 0..N |-> Step(f, i)]
  <2>1. \A i \in 0..N : f[i] = Step(f, i) BY <1>0, <1>2, <1>3
  <2> QED BY <2>1
<1>5. L = [i \in 0..N |-> Step(L, i)]
  <2> HIDE DEF Step, N
  <2> QED BY <1>4
<1>6. Left(cap, n) = L
  BY DEF Left
<1>7. L[0] = n /\ \A i \in 1..N : L[i] = L[i - 1] - Least(cap[i], L[i - 1])
  <2> HIDE DEF L, N
  <2> QED BY <1>0, <1>5
<1>8. \A i \in 0..N : L[i] \in Nat
  <2> HIDE DEF L
  <2> DEFINE T == {m \in Nat : m <= N => L[m] \in Nat}
  <2>1. 0 \in T BY <1>7
  <2>2. \A m \in Nat : m \in T => m + 1 \in T
    <3> SUFFICES ASSUME NEW m \in Nat, m \in T, m + 1 <= N PROVE L[m + 1] \in Nat
      OBVIOUS
    <3>1. m + 1 \in 1..N /\ L[m + 1] = L[m] - Least(cap[m + 1], L[m]) BY <1>0, <1>7
    <3> QED BY <1>0, <3>1 DEF Least
  <2>3. Nat \subseteq T
    <3> HIDE DEF T
    <3> QED BY <2>1, <2>2, NatSetInduction
  <2> QED BY <2>3
<1>9. L \in [0..N -> Nat]
  <2> HIDE DEF L, Step
  <2> QED BY <1>5, <1>8
<1> QED BY <1>6, <1>7, <1>9

\* The loop and the closed form agree, for every number of segments.
LEMMA LeftIsRest ==
  ASSUME NEW cap \in Seq(Nat), NEW n \in Nat, NEW i \in 0..Len(cap)
  PROVE  Left(cap, n)[i] = IF n <= Prefix(cap)[i] THEN 0 ELSE n - Prefix(cap)[i]
<1> DEFINE N == Len(cap)
           L == Left(cap, n)
           P == Prefix(cap)
           T == {m \in Nat : m <= N => L[m] = IF n <= P[m] THEN 0 ELSE n - P[m]}
<1>1. /\ P \in [0..N -> Nat] /\ P[0] = 0
      /\ \A j \in 1..N : P[j] = P[j - 1] + cap[j]
  BY PrefixDef
<1>2. /\ L \in [0..N -> Nat] /\ L[0] = n
      /\ \A j \in 1..N : L[j] = L[j - 1] - Least(cap[j], L[j - 1])
  BY LeftDef
<1>3. N \in Nat /\ \A j \in 1..N : cap[j] \in Nat OBVIOUS
<1> HIDE DEF L, P, N
<1>4. 0 \in T BY <1>1, <1>2
<1>5. \A m \in Nat : m \in T => m + 1 \in T
  <2> SUFFICES ASSUME NEW m \in Nat, m \in T, m + 1 <= N
               PROVE  L[m + 1] = IF n <= P[m + 1] THEN 0 ELSE n - P[m + 1]
    OBVIOUS
  <2>1. m \in 0..N /\ m + 1 \in 1..N /\ (m + 1) - 1 = m BY <1>3
  <2>2. P[m] \in Nat /\ cap[m + 1] \in Nat /\ P[m + 1] = P[m] + cap[m + 1]
    BY <1>1, <1>3, <2>1
  <2>3. L[m] = IF n <= P[m] THEN 0 ELSE n - P[m] BY <2>1, <1>3
  <2>4. L[m + 1] = L[m] - Least(cap[m + 1], L[m]) BY <1>2, <2>1
  <2> QED BY <2>2, <2>3, <2>4 DEF Least
<1>6. Nat \subseteq T
  <2> HIDE DEF T
  <2> QED BY <1>4, <1>5, NatSetInduction
<1> QED BY <1>3, <1>6 DEF L, P, N

\* set_init of a Buffer: pos bytes, distributed as a vectored read fills them.
LEMMA SetInitFills ==
  ASSUME NEW b \in BufSet, b.ty = "buffer", NEW pos \in Nat
  PROVE  set_init(b, pos) = [b EXCEPT !.len = Filled(b.cap, pos)]
<1>1. b.cap \in Seq(Nat) /\ \A i \in 1..Len(b.cap) : b.cap[i] \in Nat
  BY DEF BufSet
<1>2. ASSUME NEW i \in DOMAIN b.cap
      PROVE  Least(b.cap[i], Left(b.cap, pos)[i - 1]) = Filled(b.cap, pos)[i]
  <2>1. i \in 1..Len(b.cap) /\ i - 1 \in 0..Len(b.cap) BY <1>1
  <2>2. Left(b.cap, pos)[i - 1] = IF pos <= Prefix(b.cap)[i - 1] THEN 0 ELSE pos - Prefix(b.cap)[i - 1]
    BY <1>1, <2>1, LeftIsRest
  <2>3. Prefix(b.cap)[i - 1] \in Nat BY <1>1, <2>1, PrefixDef
  <2> QED BY <1>1, <2>1, <2>2, <2>3 DEF Filled, Least
<1>3. [i \in DOMAIN b.cap |-> Least(b.cap[i], Left(b.cap, pos)[i - 1])] = Filled(b.cap, pos)
  BY <1>2 DEF Filled
<1> QED BY <1>3 DEF set_init

\* How segments fill.
LEMMA FilledType ==
  ASSUME NEW cap \in Seq(Nat), NEW n \in Nat
  PROVE  /\ Filled(cap, n) \in Seq(Nat) /\ Len(Filled(cap, n)) = Len(cap)
         /\ \A i \in 1..Len(cap) : Filled(cap, n)[i] <= cap[i]
         /\ Len(cap) > 0 => Filled(cap, n)[1] = Least(cap[1], n)
<1>1. Prefix(cap) \in [0..Len(cap) -> Nat] /\ Prefix(cap)[0] = 0
  BY PrefixDef
<1>2. DOMAIN cap = 1..Len(cap) /\ Len(cap) \in Nat /\ \A i \in 1..Len(cap) : cap[i] \in Nat
  OBVIOUS
<1>3. ASSUME NEW i \in 1..Len(cap) PROVE Filled(cap, n)[i] \in Nat /\ Filled(cap, n)[i] <= cap[i]
  <2>1. i - 1 \in 0..Len(cap) BY <1>2
  <2>2. Prefix(cap)[i - 1] \in Nat BY <1>1, <2>1
  <2> QED BY <1>2, <2>2 DEF Filled, Least
<1>4. Filled(cap, n) = [i \in 1..Len(cap) |-> Filled(cap, n)[i]]
  BY <1>2 DEF Filled
<1>5. Filled(cap, n) \in Seq(Nat) /\ Len(Filled(cap, n)) = Len(cap)
  <2> DEFINE F == Filled(cap, n)
  <2>1. F \in [1..Len(cap) -> Nat] BY <1>3, <1>4
  <2> HIDE DEF F
  <2> QED BY <1>2, <2>1 DEF F
<1>6. ASSUME Len(cap) > 0 PROVE Filled(cap, n)[1] = Least(cap[1], n)
  <2>1. 1 \in 1..Len(cap) /\ cap[1] \in Nat BY <1>2, <1>6
  <2> QED BY <1>1, <1>2, <2>1 DEF Filled, Least
<1> QED BY <1>3, <1>5, <1>6

\* The sum of one segment.
LEMMA SumOne == ASSUME NEW s \in Seq(Nat), Len(s) = 1 PROVE Sum(s) = s[1]
  BY PrefixDef DEF Sum

LEMMA SumType == ASSUME NEW s \in Seq(Nat) PROVE Sum(s) \in Nat
  BY PrefixDef DEF Sum

\* p bytes that fit fill the segments with p bytes in all.
LEMMA SumFilled ==
  ASSUME NEW cap \in Seq(Nat), NEW p \in Nat, p <= Sum(cap)
  PROVE  Sum(Filled(cap, p)) = p
<1> DEFINE N == Len(cap)
           C == Prefix(cap)
           S == Filled(cap, p)
           F == Prefix(S)
           T == {m \in Nat : m <= N => F[m] = Least(p, C[m])}
<1>1. /\ C \in [0..N -> Nat] /\ C[0] = 0
      /\ \A j \in 1..N : C[j] = C[j - 1] + cap[j]
  BY PrefixDef
<1>2. S \in Seq(Nat) /\ Len(S) = N
  BY FilledType
<1>3. /\ F[0] = 0 /\ \A j \in 1..N : F[j] = F[j - 1] + S[j]
  <2> HIDE DEF S
  <2> QED BY <1>2, PrefixDef
<1>4. \A j \in 1..N : S[j] = IF p <= C[j - 1] THEN 0 ELSE Least(cap[j], p - C[j - 1])
  BY DEF Filled
<1>5. N \in Nat /\ \A j \in 1..N : cap[j] \in Nat OBVIOUS
<1>6. Sum(cap) = C[N] /\ Sum(S) = F[N]
  BY <1>2 DEF Sum
<1> HIDE DEF C, F, S, N
<1>7. 0 \in T
  BY <1>1, <1>3 DEF Least
<1>8. \A m \in Nat : m \in T => m + 1 \in T
  <2> SUFFICES ASSUME NEW m \in Nat, m \in T, m + 1 <= N PROVE F[m + 1] = Least(p, C[m + 1])
    OBVIOUS
  <2>1. m \in 0..N /\ m + 1 \in 1..N /\ (m + 1) - 1 = m BY <1>5
  <2>2. C[m] \in Nat /\ cap[m + 1] \in Nat /\ C[m + 1] = C[m] + cap[m + 1]
    BY <1>1, <1>5, <2>1
  <2>3. F[m] = Least(p, C[m]) BY <1>5, <2>1
  <2>4. F[m + 1] = F[m] + S[m + 1] BY <1>3, <2>1
  <2>5. S[m + 1] = IF p <= C[m] THEN 0 ELSE Least(cap[m + 1], p - C[m]) BY <1>4, <2>1
  <2> QED BY <2>2, <2>3, <2>4, <2>5 DEF Least
<1>9. Nat \subseteq T
  <2> HIDE DEF T
  <2> QED BY <1>7, <1>8, NatSetInduction
<1>10. F[N] = Least(p, C[N]) BY <1>5, <1>9
<1>11. C[N] \in Nat /\ p <= C[N] BY <1>1, <1>5, <1>6
<1> QED BY <1>6, <1>10, <1>11 DEF Least, S
-----------------------------------------------------------------------------
(* Buffers, views and what the kernel writes.                              *)

\* A buffer of one segment.
LEMMA OneSegment ==
  ASSUME NEW b \in BufSet, Len(b.cap) = 1, Len(b.len) = 1
  PROVE  /\ bytes_init(b) = b.len[1] /\ bytes_total(b) = b.cap[1]
         /\ b.len[1] \in Nat /\ b.cap[1] \in Nat
<1>1. b.cap \in Seq(Nat) /\ b.len \in Seq(Nat) BY DEF BufSet
<1> QED BY <1>1, SumOne DEF bytes_init, bytes_total

LEMMA ViewSizes ==
  ASSUME NEW b, NEW ini, GoodBuf(b, ini), NEW v, GoodView(b, v)
  PROVE  /\ ViewBegin(v) \in Nat /\ view_init(b, v) \in Nat /\ view_total(b, v) \in Nat
         /\ bytes_init(b) \in Nat /\ bytes_total(b) \in Nat
         /\ ViewBegin(v) + view_total(b, v) <= bytes_total(b)
         /\ v # Nil => /\ view_init(b, v) = Least(v[2], bytes_init(b)) - v[1]
                       /\ v[2] \in Nat /\ v[1] \in Nat /\ ViewBegin(v) = v[1]
         /\ v = Nil => ViewBegin(v) = 0 /\ view_init(b, v) = bytes_init(b)
<1>1. b \in BufSet /\ b.cap \in Seq(Nat) /\ b.len \in Seq(Nat)
  BY DEF GoodBuf, BufSet
<1>2. bytes_init(b) \in Nat /\ bytes_total(b) \in Nat
  BY <1>1, SumType DEF bytes_init, bytes_total
<1>3. CASE v = Nil
  <2>1. view_total(b, v) = bytes_total(b) /\ view_init(b, v) = bytes_init(b) /\ ViewBegin(v) = 0
    BY <1>2, <1>3 DEF view_total, view_init, ViewBegin, ViewEnd
  <2> QED BY <1>2, <1>3, <2>1
<1>4. CASE v # Nil
  <2>1. /\ v[1] \in Nat /\ v[2] \in Nat /\ v[1] <= v[2] /\ v[2] <= bytes_total(b)
        /\ v[1] <= bytes_init(b)
    BY <1>4 DEF GoodView, ViewSet
  <2>2. ViewBegin(v) = v[1] /\ view_total(b, v) = v[2] - v[1]
        /\ view_init(b, v) = Least(v[2], bytes_init(b)) - v[1]
    BY <1>4, <2>1 DEF ViewBegin, view_init, view_total, ViewEnd
  <2>3. Least(v[2], bytes_init(b)) - v[1] \in Nat
    BY <1>2, <2>1 DEF Least
  <2> QED BY <1>2, <1>4, <2>1, <2>2, <2>3
<1> QED BY <1>3, <1>4

\* A buffer whose lengths are replaced.
LEMMA NewLength ==
  ASSUME NEW b, NEW ini, GoodBuf(b, ini), NEW l \in Seq(Nat), Len(l) = Len(b.cap),
         b.ty # "vecs" => \A i \in 1..Len(b.cap) : l[i] <= b.cap[i]
  PROVE  /\ GoodBuf([b EXCEPT !.len = l], ini) /\ [b EXCEPT !.len = l].mem = b.mem
         /\ [b EXCEPT !.len = l].cap = b.cap /\ [b EXCEPT !.len = l].len = l
         /\ [b EXCEPT !.len = l].ty = b.ty
  BY DEF GoodBuf, BufSet

\* Memory that grows covers what it covered.
LEMMA MoreWritten ==
  ASSUME NEW ini, NEW new, NEW b, GoodBuf(b, ini),
         Len(new[b.mem]) = Len(ini[b.mem]),
         ini[b.mem] \in Seq(Nat), new[b.mem] \in Seq(Nat),
         \A i \in 1..Len(ini[b.mem]) : ini[b.mem][i] <= new[b.mem][i]
  PROVE  /\ GoodBuf(b, new)
         /\ \A l \in Seq(Nat) : Len(l) = Len(b.cap) /\ Covers(ini, b.mem, l) => Covers(new, b.mem, l)
<1> DEFINE A == ini[b.mem]
           B == new[b.mem]
<1>1. GoodBuf(b, new) BY DEF GoodBuf
<1>2. ASSUME NEW l \in Seq(Nat), Len(l) = Len(b.cap), Covers(ini, b.mem, l), NEW i \in DOMAIN l
      PROVE  l[i] <= new[b.mem][i]
  <2>1. i \in 1..Len(A) /\ l[i] \in Nat BY <1>2 DEF GoodBuf
  <2>2. l[i] <= A[i] /\ A[i] <= B[i] BY <1>2, <2>1 DEF Covers
  <2>3. A \in Seq(Nat) /\ B \in Seq(Nat) /\ Len(B) = Len(A) OBVIOUS
  <2>4. l[i] <= B[i]
    <3> HIDE DEF A, B
    <3>1. A[i] \in Nat /\ B[i] \in Nat BY <2>1, <2>3
    <3> QED BY <2>1, <2>2, <3>1
  <2> QED BY <2>4
<1> QED BY <1>1, <1>2 DEF Covers

\* The kernel's writes grow the memory of the buffer and cover what they fill.
LEMMA WrittenGrows ==
  ASSUME RegInv, NEW x, GoodBuf(x.buf, init), x.mem = x.buf.mem, NEW n \in Nat,
         ViewBegin(x.view) \in Nat, NEW W, W = Written(x, n)
  PROVE  /\ W \in [Mems -> Seq(Nat)]
         /\ \A m \in Mems : Len(W[m]) = Len(init[m])
         /\ \A m \in Mems : \A i \in 1..Len(init[m]) : init[m][i] <= W[m][i]
         /\ ~IntoArray(x) => Covers(W, x.mem, Filled(x.buf.cap, ViewBegin(x.view) + n))
<1>0. CASE IntoArray(x)
  <2>1. W = init /\ init \in [Mems -> Seq(Nat)] BY <1>0 DEF Written, RegInv
  <2>2. \A m \in Mems : \A i \in 1..Len(init[m]) : init[m][i] <= init[m][i] BY <2>1
  <2> QED BY <1>0, <2>1, <2>2
<1> SUFFICES ASSUME ~IntoArray(x)
             PROVE  /\ W \in [Mems -> Seq(Nat)]
                    /\ \A m \in Mems : Len(W[m]) = Len(init[m])
                    /\ \A m \in Mems : \A i \in 1..Len(init[m]) : init[m][i] <= W[m][i]
                    /\ Covers(W, x.mem, Filled(x.buf.cap, ViewBegin(x.view) + n))
  BY <1>0
<1> DEFINE F == Filled(x.buf.cap, ViewBegin(x.view) + n)
           M == init[x.mem]
           l == [i \in DOMAIN M |-> Most(M[i], F[i])]
<1>1. /\ x.mem \in Mems /\ x.buf.cap \in Seq(Nat) /\ M \in Seq(Nat) /\ Len(M) = Len(x.buf.cap)
      /\ init \in [Mems -> Seq(Nat)]
  BY DEF RegInv, GoodBuf, BufSet
<1>2. F \in Seq(Nat) /\ Len(F) = Len(M)
  <2> DEFINE p == ViewBegin(x.view) + n
  <2>1. p \in Nat OBVIOUS
  <2> HIDE DEF p
  <2>2. Filled(x.buf.cap, p) \in Seq(Nat) /\ Len(Filled(x.buf.cap, p)) = Len(x.buf.cap)
    BY <1>1, <2>1, FilledType
  <2> QED BY <1>1, <2>2 DEF p
<1>3. W = [init EXCEPT ![x.mem] = l]
  BY DEF Written
<1>4. DOMAIN M = 1..Len(M) /\ DOMAIN F = 1..Len(M) /\ Len(M) \in Nat
  <2> HIDE DEF F, M
  <2> QED BY <1>1, <1>2
<1>5. \A i \in 1..Len(M) : M[i] \in Nat /\ F[i] \in Nat
  <2> HIDE DEF F, M
  <2> QED BY <1>1, <1>2
<1>6. \A i \in 1..Len(M) : Most(M[i], F[i]) \in Nat /\ M[i] <= Most(M[i], F[i]) /\ F[i] <= Most(M[i], F[i])
  <2> HIDE DEF F, M
  <2> QED BY <1>5 DEF Most
<1>7. l \in Seq(Nat) /\ Len(l) = Len(M) /\ \A i \in 1..Len(M) : l[i] = Most(M[i], F[i])
  <2> HIDE DEF F, M
  <2> QED BY <1>4, <1>6
<1> HIDE DEF F, l
<1>8. W[x.mem] = l /\ W \in [Mems -> Seq(Nat)] /\ \A m \in Mems : m # x.mem => W[m] = init[m]
  BY <1>1, <1>3, <1>7
<1>9. \A m \in Mems : \A i \in 1..Len(init[m]) : init[m][i] <= W[m][i]
  <2> SUFFICES ASSUME NEW m \in Mems, NEW i \in 1..Len(init[m]) PROVE init[m][i] <= W[m][i]
    OBVIOUS
  <2>1. CASE m = x.mem BY <2>1, <1>6, <1>7, <1>8
  <2>2. CASE m # x.mem
    <3>1. W[m] = init[m] /\ init[m][i] \in Nat BY <2>2, <1>1, <1>8
    <3> QED BY <3>1
  <2> QED BY <2>1, <2>2
<1>10. Covers(W, x.mem, F)
  BY <1>4, <1>6, <1>7, <1>8 DEF Covers
<1> QED BY <1>7, <1>8, <1>9, <1>10 DEF F

\* What is left after a first segment that takes everything.
LEMMA LeftNothing ==
  ASSUME NEW cap \in Seq(Nat), NEW n \in Nat, Len(cap) > 0, n <= cap[1], NEW i \in 1..Len(cap)
  PROVE  Left(cap, n)[i] = 0
<1>1. /\ Prefix(cap) \in [0..Len(cap) -> Nat] /\ Prefix(cap)[0] = 0
      /\ \A j \in 1..Len(cap) : Prefix(cap)[j] = Prefix(cap)[j - 1] + cap[j]
  BY PrefixDef
<1> DEFINE T == {m \in Nat : m + 1 <= Len(cap) => n <= Prefix(cap)[m + 1]}
<1>2. Len(cap) \in Nat /\ \A j \in 1..Len(cap) : cap[j] \in Nat OBVIOUS
<1>3. 0 \in T
  <2>1. 1 \in 1..Len(cap) /\ cap[1] \in Nat BY <1>2
  <2>2. Prefix(cap)[1] = Prefix(cap)[0] + cap[1] BY <1>1, <2>1
  <2> QED BY <1>1, <2>1, <2>2
<1>4. \A m \in Nat : m \in T => m + 1 \in T
  <2> SUFFICES ASSUME NEW m \in Nat, m \in T, (m + 1) + 1 <= Len(cap) PROVE n <= Prefix(cap)[(m + 1) + 1]
    OBVIOUS
  <2>1. m + 1 \in 0..Len(cap) /\ (m + 1) + 1 \in 1..Len(cap) /\ ((m + 1) + 1) - 1 = m + 1 BY <1>2
  <2>2. Prefix(cap)[(m + 1) + 1] = Prefix(cap)[m + 1] + cap[(m + 1) + 1] BY <1>1, <2>1
  <2>3. n <= Prefix(cap)[m + 1]
    <3>1. m + 1 <= Len(cap) BY <1>2
    <3> QED BY <3>1
  <2>4. Prefix(cap)[m + 1] \in Nat /\ cap[(m + 1) + 1] \in Nat
    BY <1>1, <1>2, <2>1
  <2> QED BY <2>2, <2>3, <2>4
<1>5. Nat \subseteq T
  <2> HIDE DEF T
  <2> QED BY <1>3, <1>4, NatSetInduction
<1>6. i - 1 \in Nat /\ (i - 1) + 1 = i /\ i \in 0..Len(cap) BY <1>2
<1>7. n <= Prefix(cap)[i] BY <1>2, <1>5, <1>6
<1> QED BY <1>6, <1>7, LeftIsRest
-----------------------------------------------------------------------------
(* The steps of the task on its buffer.                                    *)

LEMMA InitInv == ASSUME BufAssumption, BufInit PROVE IInv
<1> USE DEF BufInit
<1>1. RegInv
  <2>1. init["reg"] = <<RegLen>> /\ init["own"] = <<>> BY DEF Mems
  <2> QED BY <2>1 DEF RegInv, BufAssumption, Mems
<1>2. CurInv /\ OpInv /\ OrphanInv /\ HolderInv
  BY DEF CurInv, OpInv, OrphanInv, HolderInv
<1>3. WriteInv /\ ReadInv
  BY DEF WriteInv, ReadInv
<1> QED BY <1>1, <1>2, <1>3 DEF IInv

\* A step that forgets the last result and has no write_all left.
LEMMA Forgets ==
  ASSUME ForgetResult, op' # Nil /\ op'.call = "write_all" => FALSE
  PROVE  WriteInv' /\ ReadInv'
  BY DEF ForgetResult, WriteInv, ReadInv

LEMMA CheckOutInv == ASSUME BufAssumption, IInv, CheckOut PROVE IInv'
<1> USE DEF CheckOut, check_out, HandsFree
<1>1. /\ cur' = [mem |-> "reg", ty |-> "buffer", cap |-> <<RegCap>>, len |-> <<reg.len>>]
      /\ reg' = [free |-> FALSE, len |-> reg.len] /\ view' = Nil
      /\ reg.free /\ reg.len \in Nat /\ reg.len <= RegCap /\ RegCap \in Nat
  BY DEF IInv, RegInv, CurInv, BufAssumption
<1>2. cur' \in BufSet /\ cur' # Nil
  <2>1. <<RegCap>> \in Seq(Nat) /\ <<reg.len>> \in Seq(Nat) BY <1>1
  <2>2. cur' \in BufSet BY <1>1, <2>1 DEF BufSet, Mems, Types
  <2> QED BY <2>2 DEF BufAssumption
<1>3. RegInv'
  BY <1>1 DEF IInv, RegInv
<1>4. GoodBuf(cur', init')
  BY <1>1, <1>2 DEF GoodBuf, IInv, RegInv
<1>5. cur'.mem \notin tainted' => Covers(init', cur'.mem, cur'.len)
  BY <1>1 DEF Covers, IInv, RegInv
<1>6. CurInv'
  BY <1>1, <1>2, <1>4, <1>5 DEF CurInv, GoodView
<1>7. OpInv' /\ OrphanInv'
  BY DEF IInv, OpInv, OrphanInv
<1>8. HolderInv'
  BY <1>1, <1>2 DEF IInv, HolderInv
<1>9. WriteInv' /\ ReadInv'
  BY Forgets
<1> QED BY <1>3, <1>6, <1>7, <1>8, <1>9 DEF IInv

LEMMA MakeBufInv == ASSUME BufAssumption, IInv, NEW s \in Shapes, MakeBuf(s) PROVE IInv'
<1> USE DEF MakeBuf, HandsFree
<1>1. /\ cur' = [mem |-> "own", ty |-> s.ty, cap |-> s.cap, len |-> s.len]
      /\ s.ty \in Types /\ s.ty # "wild" /\ s.cap \in Seq(Nat) /\ s.len \in Seq(Nat) /\ view' = Nil
      /\ Len(s.cap) > 0 /\ Len(s.len) = Len(s.cap) /\ (s.ty = "vec" => Len(s.cap) = 1)
      /\ \A i \in 1..Len(s.cap) : s.len[i] <= s.cap[i]
  BY DEF IInv, CurInv, BufAssumption
<1>2. cur' \in BufSet /\ cur' # Nil
  BY <1>1 DEF BufSet, Mems, BufAssumption
<1>3. init' \in [Mems -> Seq(Nat)] /\ init'["own"] = s.len /\ init'["reg"] = init["reg"]
  BY <1>1 DEF IInv, RegInv, Mems
<1>4. orphan # Nil => orphan.mem = "reg"
  BY DEF Holders, IInv, OrphanInv, OrphanSet, Mems
<1>5. RegInv'
  BY <1>3 DEF IInv, RegInv
<1>6. GoodBuf(cur', init')
  BY <1>1, <1>2, <1>3 DEF GoodBuf
<1>7. Covers(init', cur'.mem, cur'.len)
  BY <1>1, <1>3 DEF Covers
<1>8. CurInv'
  BY <1>1, <1>2, <1>6, <1>7 DEF CurInv, GoodView
<1>9. OrphanInv'
  <2> SUFFICES ASSUME orphan # Nil PROVE OrphanInv'
    BY DEF OrphanInv
  <2>1. orphan.buf.mem = "reg" /\ orphan' = orphan BY <1>4 DEF IInv, OrphanInv
  <2>2. GoodBuf(orphan.buf, init') BY <1>3, <2>1 DEF IInv, OrphanInv, GoodBuf
  <2>3. Shown(orphan.call, orphan.buf, init', tainted')
    BY <1>3, <2>1 DEF IInv, OrphanInv, Shown, Covers
  <2> QED BY <2>1, <2>2, <2>3 DEF IInv, OrphanInv
<1>10. OpInv' /\ HolderInv'
  BY <1>1, <1>2, <1>4 DEF IInv, OpInv, HolderInv
<1>11. WriteInv' /\ ReadInv'
  BY Forgets
<1> QED BY <1>5, <1>8, <1>9, <1>10, <1>11 DEF IInv

\* A buffer that goes back: a registered one with its length.
LEMMA DroppedReg ==
  ASSUME BufAssumption, RegInv, NEW b, GoodBuf(b, init'), DroppedBuf(b),
         init' \in [Mems -> Seq(Nat)], Len(init'["reg"]) = 1,
         b.mem # "reg" /\ reg.free /\ "reg" \notin tainted' => reg.len <= init'["reg"][1],
         b.mem \notin tainted' => Covers(init', b.mem, b.len)
  PROVE  RegInv' /\ (b.mem # "reg" => reg' = reg) /\ (b.mem = "reg" => reg'.free)
<1>1. CASE b.mem = "reg"
  <2>1. reg' = [free |-> TRUE, len |-> b.len[1]] BY <1>1 DEF DroppedBuf
  <2>2. b.cap = <<RegCap>> /\ Len(b.len) = 1 /\ b.len \in Seq(Nat) /\ b.ty = "buffer"
    BY <1>1 DEF GoodBuf, BufSet
  <2>3. b.len[1] \in Nat /\ b.len[1] <= RegCap /\ 1 \in DOMAIN b.len
    BY <2>2 DEF GoodBuf
  <2>4. "reg" \notin tainted' => b.len[1] <= init'["reg"][1]
    BY <1>1, <2>3 DEF Covers
  <2> QED BY <1>1, <2>1, <2>3, <2>4 DEF RegInv
<1>2. CASE b.mem # "reg"
  BY <1>2 DEF DroppedBuf, RegInv
<1> QED BY <1>1, <1>2

LEMMA DropBufInv == ASSUME BufAssumption, IInv, DropBuf PROVE IInv'
<1> USE DEF DropBuf
<1>1. GoodBuf(cur, init') /\ (cur.mem \notin tainted' => Covers(init', cur.mem, cur.len))
  BY DEF IInv, CurInv
<1>2. RegInv' /\ (cur.mem # "reg" => reg' = reg) /\ (cur.mem = "reg" => reg'.free)
  BY <1>1, DroppedReg DEF IInv, RegInv
<1>3. CurInv' /\ OpInv' /\ OrphanInv'
  BY DEF IInv, CurInv, OpInv, OrphanInv
<1>4. HolderInv'
  BY <1>2 DEF IInv, HolderInv, OpInv
<1>5. WriteInv' /\ ReadInv'
  BY Forgets DEF IInv, OpInv
<1> QED BY <1>2, <1>3, <1>4, <1>5 DEF IInv

\* Slices.
LEMMA NewView ==
  ASSUME IInv, cur # Nil, GoodView(cur, view'), ForgetResult,
         UNCHANGED <<reg, init, cur, op, orphan, tainted>>
  PROVE  IInv'
<1>1. RegInv' /\ CurInv' /\ OrphanInv' /\ HolderInv'
  BY DEF IInv, RegInv, CurInv, OrphanInv, HolderInv
<1>2. OpInv'
  BY DEF IInv, OpInv
<1>3. WriteInv' /\ ReadInv'
  BY Forgets DEF IInv, OpInv
<1> QED BY <1>1, <1>2, <1>3 DEF IInv

LEMMA SliceInv ==
  ASSUME BufAssumption, IInv, cur # Nil, NEW lo \in Nat, NEW hi \in Nat, lo <= hi,
         Slice(lo, hi) \/ SliceAgain(lo, hi)
  PROVE  IInv'
<1>1. GoodBuf(cur, init) /\ GoodView(cur, view)
  BY DEF IInv, CurInv
<1>2. CASE Slice(lo, hi)
  <2>1. view' = <<lo, hi>> /\ hi <= bytes_total(cur) /\ lo <= bytes_init(cur) /\ cur.ty # "vecs"
    BY <1>2 DEF Slice
  <2>2. GoodView(cur, view')
    BY <2>1 DEF GoodView, ViewSet
  <2> QED BY <1>2, <2>2, NewView DEF Slice
<1>3. CASE SliceAgain(lo, hi)
  <2>1. /\ view # Nil /\ view[1] \in Nat /\ view[2] \in Nat
        /\ cur.ty # "vecs" /\ view[2] <= bytes_total(cur)
    BY <1>1, <1>3 DEF SliceAgain, GoodView, ViewSet
  <2>2. bytes_init(cur) \in Nat /\ bytes_total(cur) \in Nat
    BY <1>1, ViewSizes
  <2>3. /\ view' = <<view[1] + lo, view[1] + hi>>
        /\ view[1] + hi <= view[2] /\ view[1] + lo <= bytes_init(cur)
    BY <1>3 DEF SliceAgain, slice_slice
  <2>4. view[1] + hi <= bytes_total(cur) /\ view[1] + lo <= view[1] + hi
    BY <2>1, <2>2, <2>3
  <2>5. GoodView(cur, view')
    BY <2>1, <2>3, <2>4 DEF GoodView, ViewSet
  <2> QED BY <1>3, <2>5, NewView DEF SliceAgain
<1> QED BY <1>2, <1>3

LEMMA IntoInnerInv == ASSUME IInv, into_inner PROVE IInv'
  BY NewView DEF into_inner, GoodView
-----------------------------------------------------------------------------
(* Calls: the buffer moves into an operation.                              *)

CallNames == Reads \cup {"write_at", "write_fixed", "write_all"}

LEMMA BeginsInv ==
  ASSUME BufAssumption, IInv, cur # Nil, NEW call \in CallNames,
         NEW st \in {"built", "inflight"}, NEW pos \in Nat, NEW b,
         GoodCall(call, cur, view), b = cur \/ (call = "read_at" /\ b = fill(cur)),
         call = "write_all" => pos + view_init(cur, view) <= PosMax,
         Begins(call, b, st, pos)
  PROVE  IInv'
<1> USE DEF Begins
<1>0. GoodBuf(cur, init) /\ GoodView(cur, view) /\ op = Nil
      /\ (cur.mem \notin tainted => Covers(init, cur.mem, cur.len))
  BY DEF IInv, CurInv, OpInv
<1>1. /\ GoodBuf(b, init) /\ b.mem = cur.mem /\ b.ty = cur.ty /\ b.cap = cur.cap
      /\ GoodView(b, view) /\ (call # "read_at" => b = cur)
  <2>1. CASE b = cur BY <1>0, <2>1
  <2>2. CASE call = "read_at" /\ b = fill(cur)
    <3>1. b = [cur EXCEPT !.len = cur.cap] /\ view = Nil BY <2>2 DEF fill, GoodCall
    <3>2. cur.cap \in Seq(Nat) /\ \A i \in 1..Len(cur.cap) : cur.cap[i] \in Nat
      BY <1>0 DEF GoodBuf, BufSet
    <3>3. \A i \in 1..Len(cur.cap) : cur.cap[i] <= cur.cap[i] BY <3>2
    <3>4. GoodBuf(b, init) /\ b.mem = cur.mem /\ b.ty = cur.ty /\ b.cap = cur.cap
      BY <1>0, <3>1, <3>2, <3>3, NewLength
    <3> QED BY <2>2, <3>1, <3>4 DEF GoodView
  <2> QED BY <2>1, <2>2
<1>2. op' = Operation(call, b, st, pos) OBVIOUS
<1>3. view \in ViewSet \cup {Nil} /\ b \in BufSet /\ b.mem \in Mems
  BY <1>0, <1>1 DEF GoodView, GoodBuf, BufSet
<1>4. op' \in OpSet
  BY <1>2, <1>3 DEF Operation, OpSet, CallNames
<1>5. op' # Nil
  BY <1>4 DEF BufAssumption
<1>6. /\ op'.call = call /\ op'.mem = b.mem /\ op'.buf = b /\ op'.view = view /\ op'.orig = view
      /\ op'.st = st /\ op'.pos = pos /\ op'.start = pos
  BY <1>2 DEF Operation
<1>7. RegInv'
  BY DEF IInv, RegInv
<1>8. CurInv'
  BY DEF CurInv
<1>9. OpInv'
  <2>1. GoodCall(call, b, view) BY <1>1 DEF GoodCall
  <2>2. Shown(call, b, init, tainted) BY <1>0, <1>1 DEF Shown
  <2>3. result' = Nil /\ cur' = Nil /\ init' = init /\ tainted' = tainted BY DEF ForgetResult
  <2>4. op'.st # "answered" BY <1>6
  <2> QED BY <1>1, <1>4, <1>6, <2>1, <2>2, <2>3, <2>4 DEF OpInv
<1>10. OrphanInv'
  BY DEF IInv, OrphanInv
<1>11. HolderInv'
  BY <1>0, <1>1, <1>5, <1>6 DEF IInv, HolderInv
<1>12. WriteInv'
  <2> SUFFICES ASSUME call = "write_all"
               PROVE  out' = Run(0, op'.start, ViewBegin(op'.orig)) /\ Progress(op', 0)
    BY <1>6 DEF WriteInv, ForgetResult
  <2>1. out' = Run(0, op'.start, ViewBegin(op'.orig)) BY DEF Run, ForgetResult
  <2>2. b = cur /\ view_init(b, view) \in Nat /\ ViewBegin(view) \in Nat
    BY <1>0, <1>1, ViewSizes
  <2>3. Progress(op', 0) BY <1>6, <2>2 DEF Progress
  <2> QED BY <2>1, <2>3
<1>13. ReadInv'
  BY DEF ReadInv, ForgetResult
<1> QED BY <1>7, <1>8, <1>9, <1>10, <1>11, <1>12, <1>13 DEF IInv

LEMMA CallsInv ==
  ASSUME BufAssumption, IInv,
         \/ read_at \/ write_at \/ read_fixed_at \/ write_fixed_at \/ recv_from \/ recvmsg
         \/ \E pos \in Positions : WriteAll(pos)
  PROVE  IInv'
<1>0. 0 \in Nat /\ Reads \subseteq CallNames /\ {"write_at", "write_fixed", "write_all"} \subseteq CallNames
  BY DEF CallNames
<1>1. CASE read_at
  <2>1. cur # Nil /\ GoodCall("read_at", cur, view) /\ Begins("read_at", fill(cur), "built", 0)
    BY <1>1 DEF read_at, IsBuffer, Whole, GoodCall
  <2> QED BY <1>0, <2>1, BeginsInv DEF Reads
<1>2. CASE write_at
  <2>1. cur # Nil /\ GoodCall("write_at", cur, view) /\ Begins("write_at", cur, "built", 0)
    BY <1>2 DEF write_at, IsBuffer, Whole, GoodCall
  <2> QED BY <1>0, <2>1, BeginsInv
<1>3. CASE read_fixed_at
  <2>1. cur # Nil /\ GoodCall("read_fixed", cur, view) /\ Begins("read_fixed", cur, "inflight", 0)
    BY <1>3 DEF read_fixed_at, Fixed, IsBuffer, GoodCall
  <2> QED BY <1>0, <2>1, BeginsInv DEF Reads
<1>4. CASE write_fixed_at
  <2>1. cur # Nil /\ GoodCall("write_fixed", cur, view) /\ Begins("write_fixed", cur, "inflight", 0)
    BY <1>4 DEF write_fixed_at, Fixed, IsBuffer, GoodCall
  <2> QED BY <1>0, <2>1, BeginsInv
<1>5. CASE recv_from
  <2>1. cur # Nil /\ GoodCall("recv_from", cur, view) /\ Begins("recv_from", cur, "inflight", 0)
    BY <1>5 DEF recv_from, GoodCall
  <2> QED BY <1>0, <2>1, BeginsInv DEF Reads
<1>6. CASE recvmsg
  <2>1. view = Nil BY <1>6 DEF recvmsg, IInv, CurInv, GoodView
  <2>2. cur # Nil /\ GoodCall("recvmsg", cur, view) /\ Begins("recvmsg", cur, "inflight", 0)
    BY <1>6, <2>1 DEF recvmsg, GoodCall
  <2> QED BY <1>0, <2>2, BeginsInv DEF Reads
<1>7. ASSUME NEW pos \in Positions, WriteAll(pos) PROVE IInv'
  <2>1. /\ cur # Nil /\ GoodCall("write_all", cur, view) /\ Begins("write_all", cur, "inflight", pos)
        /\ pos + view_init(cur, view) <= PosMax
    BY <1>7 DEF WriteAll, Fixed, IsBuffer, GoodCall
  <2>2. pos \in Nat BY DEF BufAssumption
  <2> QED BY <1>0, <2>1, <2>2, BeginsInv
<1> QED BY <1>1, <1>2, <1>3, <1>4, <1>5, <1>6, <1>7

\* write_fixed_all_at without a request.
LEMMA WriteAllAtOnceInv ==
  ASSUME BufAssumption, IInv, NEW pos \in Positions, WriteAllAtOnce(pos)
  PROVE  IInv'
<1> USE DEF WriteAllAtOnce
<1>1. cur # Nil /\ op = Nil
  BY DEF Fixed, IsBuffer, IInv, OpInv
<1>2. RegInv' /\ CurInv' /\ OrphanInv' /\ HolderInv' /\ OpInv'
  BY <1>1 DEF IInv, RegInv, CurInv, OrphanInv, HolderInv, OpInv
<1>3. WriteInv'
  <2>1. view_init(cur, view) \in Nat BY <1>1, ViewSizes DEF IInv, CurInv
  <2>2. pos \in Nat /\ PosMax \in Nat BY DEF BufAssumption
  <2>3. result'.ok => view_init(cur, view) = 0
    <3>1. result'.ok = (pos + view_init(cur, view) <= PosMax) OBVIOUS
    <3>2. pos + view_init(cur, view) > PosMax => ~(pos + view_init(cur, view) <= PosMax)
      BY <2>1, <2>2
    <3> QED BY <3>1, <3>2, Zenon
  <2>4. result'.ok => result'.all = 0 BY <2>3
  <2>5. out' = Run(0, result'.pos, result'.begin) BY DEF Run
  <2> QED BY <1>1, <2>4, <2>5 DEF WriteInv
<1>4. ReadInv'
  BY DEF ReadInv
<1> QED BY <1>2, <1>3, <1>4 DEF IInv

LEMMA SubmitInv == ASSUME BufAssumption, IInv, SubmitCall PROVE IInv'
<1> USE DEF SubmitCall
<1>1. op \in OpSet /\ op' = [op EXCEPT !.st = "inflight"]
  BY DEF IInv, OpInv
<1>2. op' \in OpSet /\ op' # Nil
  BY <1>1 DEF OpSet, BufAssumption
<1>3. /\ op'.call = op.call /\ op'.mem = op.mem /\ op'.buf = op.buf /\ op'.view = op.view
      /\ op'.orig = op.orig /\ op'.st = "inflight" /\ op'.pos = op.pos /\ op'.start = op.start
  BY <1>1 DEF OpSet
<1>4. RegInv' /\ CurInv' /\ OrphanInv' /\ ReadInv'
  BY DEF IInv, RegInv, CurInv, OrphanInv, ReadInv
<1>5. OpInv'
  BY <1>2, <1>3 DEF IInv, OpInv
<1>6. HolderInv'
  BY <1>2, <1>3 DEF IInv, HolderInv
<1>7. WriteInv'
  <2> SUFFICES ASSUME op.call = "write_all" PROVE WriteInv'
    BY <1>3 DEF IInv, WriteInv, OpInv
  <2>1. PICK k \in Nat : out = Run(k, op.start, ViewBegin(op.orig)) /\ Progress(op, k)
    BY DEF IInv, WriteInv
  <2>2. op.st # "answered" OBVIOUS
  <2>3. Progress(op', k) BY <1>3, <2>1, <2>2 DEF Progress
  <2>4. out' = Run(k, op'.start, ViewBegin(op'.orig)) BY <1>3, <2>1
  <2> QED BY <2>3, <2>4 DEF WriteInv, IInv, OpInv
<1> QED BY <1>4, <1>5, <1>6, <1>7 DEF IInv
-----------------------------------------------------------------------------
(* The kernel.                                                             *)

\* Memory that has only been written to.
LEMMA Grown ==
  ASSUME RegInv, init' \in [Mems -> Seq(Nat)],
         \A m \in Mems : Len(init'[m]) = Len(init[m]),
         \A m \in Mems : \A i \in 1..Len(init[m]) : init[m][i] <= init'[m][i]
  PROVE  /\ Len(init'["reg"]) = 1
         /\ reg.free /\ "reg" \notin tainted => reg.len <= init'["reg"][1]
         /\ \A b : GoodBuf(b, init) =>
              /\ GoodBuf(b, init')
              /\ \A l \in Seq(Nat) :
                   Len(l) = Len(b.cap) /\ Covers(init, b.mem, l) => Covers(init', b.mem, l)
<1>1. "reg" \in Mems /\ init["reg"] \in Seq(Nat) /\ init'["reg"] \in Seq(Nat)
      /\ Len(init["reg"]) = 1 /\ Len(init'["reg"]) = 1 /\ reg.len \in Nat
  BY DEF RegInv, Mems
<1>2. init["reg"][1] \in Nat /\ init'["reg"][1] \in Nat /\ init["reg"][1] <= init'["reg"][1]
  BY <1>1
<1>3. reg.free /\ "reg" \notin tainted => reg.len <= init'["reg"][1]
  BY <1>1, <1>2 DEF RegInv
<1>4. ASSUME NEW b, GoodBuf(b, init)
      PROVE  /\ GoodBuf(b, init')
             /\ \A l \in Seq(Nat) :
                  Len(l) = Len(b.cap) /\ Covers(init, b.mem, l) => Covers(init', b.mem, l)
  <2>1. b.mem \in Mems /\ init[b.mem] \in Seq(Nat) /\ init'[b.mem] \in Seq(Nat)
    BY <1>4 DEF GoodBuf, BufSet, RegInv
  <2> QED BY <1>4, <2>1, MoreWritten
<1> QED BY <1>1, <1>3, <1>4

\* Two sequences one after the other.
LEMMA Glued ==
  ASSUME NEW S, NEW A \in Seq(S), NEW B \in Seq(S)
  PROVE  /\ A \o B \in Seq(S) /\ Len(A \o B) = Len(A) + Len(B)
         /\ \A i \in 1..Len(A) : (A \o B)[i] = A[i]
         /\ \A i \in 1..(Len(A) + Len(B)) :
              i > Len(A) => (A \o B)[i] = B[i - Len(A)] /\ i - Len(A) \in 1..Len(B)
  OBVIOUS

\* A run of bytes that is continued.
LEMMA RunGrows ==
  ASSUME NEW k \in Nat, NEW n \in Nat, NEW pos \in Nat, NEW begin \in Nat
  PROVE  Run(k, pos, begin) \o Run(n, pos + k, begin + k) = Run(k + n, pos, begin)
<1> DEFINE A == Run(k, pos, begin)
           B == Run(n, pos + k, begin + k)
           C == Run(k + n, pos, begin)
<1>1. A \in Seq(Nat \X Nat) /\ Len(A) = k /\ B \in Seq(Nat \X Nat) /\ Len(B) = n
      /\ C \in Seq(Nat \X Nat) /\ Len(C) = k + n
  BY DEF Run
<1>2. /\ \A i \in 1..k : A[i] = <<pos + i - 1, begin + i - 1>>
      /\ \A i \in 1..n : B[i] = <<(pos + k) + i - 1, (begin + k) + i - 1>>
      /\ \A i \in 1..(k + n) : C[i] = <<pos + i - 1, begin + i - 1>>
  BY DEF Run
<1> HIDE DEF A, B, C
<1>3. /\ A \o B \in Seq(Nat \X Nat) /\ Len(A \o B) = k + n
      /\ \A i \in 1..k : (A \o B)[i] = A[i]
      /\ \A i \in 1..(k + n) : i > k => (A \o B)[i] = B[i - k] /\ i - k \in 1..n
  BY <1>1, Glued
<1> DEFINE D == A \o B
<1> HIDE DEF D
<1>4. \A i \in 1..(k + n) : D[i] = C[i]
  <2> SUFFICES ASSUME NEW i \in 1..(k + n) PROVE D[i] = C[i]
    OBVIOUS
  <2>1. CASE i <= k
    <3>1. i \in 1..k BY <2>1
    <3> QED BY <1>2, <1>3, <3>1 DEF D
  <2>2. CASE i > k
    <3>1. D[i] = B[i - k] /\ i - k \in 1..n BY <1>3, <2>2 DEF D
    <3>2. B[i - k] = <<(pos + k) + (i - k) - 1, (begin + k) + (i - k) - 1>> BY <1>2, <3>1
    <3>3. (pos + k) + (i - k) - 1 = pos + i - 1 /\ (begin + k) + (i - k) - 1 = begin + i - 1
      OBVIOUS
    <3> QED BY <1>2, <3>1, <3>2, <3>3
  <2> QED BY <2>1, <2>2
<1>5. D = C
  <2>1. D \in Seq(Nat \X Nat) /\ Len(D) = k + n BY <1>3 DEF D
  <2> QED BY <1>1, <1>4, <2>1
<1> QED BY <1>5 DEF A, B, C, D

LEMMA KDoneInv ==
  ASSUME BufAssumption, IInv, NEW n \in 0..Room(op), NEW ok \in BOOLEAN, KDone(n, ok)
  PROVE  IInv'
<1> USE DEF KDone
<1>1. /\ op \in OpSet /\ op.mem = op.buf.mem /\ cur = Nil /\ result = Nil /\ op # Nil
      /\ GoodBuf(op.buf, init) /\ GoodView(op.buf, op.view) /\ view = Nil
  BY DEF IInv, OpInv, CurInv
<1>2. ViewBegin(op.view) \in Nat /\ Room(op) \in Nat /\ n \in Nat /\ n <= Room(op)
  BY <1>1, ViewSizes DEF Room
<1>3. op' = [op EXCEPT !.st = "answered", !.n = n, !.ok = ok]
  OBVIOUS
<1>4. op' \in OpSet /\ op' # Nil
  <2>1. [op EXCEPT !.st = "answered", !.n = n] \in OpSet
    BY <1>1, <1>2 DEF OpSet
  <2>2. \A o \in OpSet, y \in BOOLEAN : [o EXCEPT !.ok = y] \in OpSet
    BY Zenon DEF OpSet
  <2>3. op' = [[op EXCEPT !.st = "answered", !.n = n] EXCEPT !.ok = ok]
    BY <1>1, <1>3 DEF OpSet
  <2>4. op' \in OpSet BY <2>1, <2>2, <2>3
  <2> QED BY <2>4 DEF BufAssumption
<1>5. /\ op'.call = op.call /\ op'.mem = op.mem /\ op'.buf = op.buf /\ op'.view = op.view
      /\ op'.orig = op.orig /\ op'.st = "answered" /\ op'.pos = op.pos /\ op'.start = op.start
      /\ op'.n = n /\ op'.ok = ok
  BY <1>1, <1>3 DEF OpSet
<1>6. /\ init' \in [Mems -> Seq(Nat)]
      /\ \A m \in Mems : Len(init'[m]) = Len(init[m])
      /\ \A m \in Mems : \A i \in 1..Len(init[m]) : init[m][i] <= init'[m][i]
      /\ op.call \in Reads /\ ~IntoArray(op) =>
           Covers(init', op.mem, Filled(op.buf.cap, ViewBegin(op.view) + n))
  <2>1. CASE op.call \in Reads
    <3>1. init' = Written(op, n) BY <2>1
    <3> QED BY <1>1, <1>2, <3>1, WrittenGrows DEF IInv
  <2>2. CASE op.call \notin Reads
    <3>1. init' = init /\ init \in [Mems -> Seq(Nat)] BY <2>2 DEF IInv, RegInv
    <3>2. \A m \in Mems : \A i \in 1..Len(init[m]) : init[m][i] <= init[m][i] BY <3>1
    <3> QED BY <2>2, <3>1, <3>2
  <2> QED BY <2>1, <2>2
<1>7. /\ Len(init'["reg"]) = 1
      /\ reg.free /\ "reg" \notin tainted => reg.len <= init'["reg"][1]
      /\ \A b : GoodBuf(b, init) =>
           /\ GoodBuf(b, init')
           /\ \A l \in Seq(Nat) :
                Len(l) = Len(b.cap) /\ Covers(init, b.mem, l) => Covers(init', b.mem, l)
  BY <1>6, Grown DEF IInv
<1>8. RegInv'
  BY <1>6, <1>7 DEF IInv, RegInv
<1>9. CurInv' /\ ReadInv'
  BY <1>1 DEF CurInv, ReadInv
<1>10. OpInv'
  <2>1. GoodBuf(op.buf, init') /\ GoodView(op.buf, op.orig) /\ GoodCall(op.call, op.buf, op.view)
        /\ (op.call # "write_all" => op.view = op.orig)
    BY <1>1, <1>7 DEF IInv, OpInv
  <2>2. Shown(op.call, op.buf, init', tainted')
    <3>1. Shown(op.call, op.buf, init, tainted) BY <1>1 DEF IInv, OpInv
    <3>2. op.buf.len \in Seq(Nat) /\ Len(op.buf.len) = Len(op.buf.cap) BY <1>1 DEF GoodBuf, BufSet
    <3> QED BY <1>1, <1>7, <3>1, <3>2 DEF Shown
  <2>3. Room(op') = Room(op) BY <1>5 DEF Room
  <2>4. op'.n <= Room(op') /\ (~op'.ok => op'.n = 0) BY <1>2, <1>5, <2>3
  <2>5. op'.call \in Reads /\ ~IntoArray(op') =>
          Covers(init', op'.mem, Filled(op'.buf.cap, ViewBegin(op'.view) + op'.n))
    BY <1>5, <1>6 DEF IntoArray
  <2> QED BY <1>1, <1>4, <1>5, <2>1, <2>2, <2>4, <2>5 DEF OpInv
<1>11. OrphanInv'
  <2> SUFFICES ASSUME orphan # Nil PROVE OrphanInv'
    BY DEF OrphanInv
  <2>1. GoodBuf(orphan.buf, init) /\ orphan' = orphan /\ Shown(orphan.call, orphan.buf, init, tainted)
    BY DEF IInv, OrphanInv
  <2>2. orphan.buf.len \in Seq(Nat) /\ Len(orphan.buf.len) = Len(orphan.buf.cap)
    BY <2>1 DEF GoodBuf, BufSet
  <2>3. GoodBuf(orphan.buf, init') /\ Shown(orphan.call, orphan.buf, init', tainted')
    BY <1>7, <2>1, <2>2 DEF Shown
  <2> QED BY <2>1, <2>3 DEF IInv, OrphanInv
<1>12. HolderInv'
  BY <1>1, <1>4, <1>5 DEF IInv, HolderInv
<1>13. WriteInv'
  <2> SUFFICES ASSUME op.call = "write_all"
               PROVE  \E k \in Nat : /\ out' = Run(k, op'.start, ViewBegin(op'.orig))
                                     /\ Progress(op', k)
    BY <1>1, <1>5 DEF WriteInv
  <2>1. PICK k \in Nat : out = Run(k, op.start, ViewBegin(op.orig)) /\ Progress(op, k)
    BY <1>1 DEF IInv, WriteInv
  <2>2. op.st # "answered" /\ op.call \notin Reads BY DEF Reads
  <2>3. op.pos = op.start + k /\ ViewBegin(op.view) = ViewBegin(op.orig) + k
    BY <2>1, <2>2 DEF Progress
  <2>4. op.start \in Nat /\ ViewBegin(op.orig) \in Nat
    <3>1. GoodView(op.buf, op.orig) BY <1>1 DEF IInv, OpInv
    <3> QED BY <1>1, <3>1, ViewSizes DEF OpSet
  <2>5. out' = Run(k + n, op.start, ViewBegin(op.orig))
    <3>1. out' = out \o Run(n, op.pos, ViewBegin(op.view))
      BY <2>2 DEF Run
    <3> HIDE DEF KDone
    <3>2. \A a, v \in Nat : Run(k, a, v) \o Run(n, a + k, v + k) = Run(k + n, a, v)
      BY <1>2, RunGrows
    <3>3. Run(k, op.start, ViewBegin(op.orig)) \o Run(n, op.start + k, ViewBegin(op.orig) + k)
            = Run(k + n, op.start, ViewBegin(op.orig))
      BY <2>4, <3>2, Zenon
    <3> QED BY <2>1, <2>3, <3>1, <3>3
  <2>6. Progress(op', k + n)
    <3>1. (k + n) - n = k BY <1>2
    <3> QED BY <1>5, <2>1, <2>2, <3>1 DEF Progress
  <2>7. k + n \in Nat BY <1>2
  <2> QED BY <1>5, <2>5, <2>6, <2>7
<1> QED BY <1>8, <1>9, <1>10, <1>11, <1>12, <1>13 DEF IInv

LEMMA KDoneOrphanInv ==
  ASSUME BufAssumption, IInv, orphan # Nil, NEW n \in 0..Room(orphan), KDoneOrphan(n)
  PROVE  IInv'
<1> USE DEF KDoneOrphan
<1>1. /\ orphan \in OrphanSet /\ orphan.mem = orphan.buf.mem
      /\ GoodBuf(orphan.buf, init) /\ GoodView(orphan.buf, orphan.view)
      /\ Shown(orphan.call, orphan.buf, init, tainted)
  BY DEF IInv, OrphanInv
<1>2. ViewBegin(orphan.view) \in Nat /\ n \in Nat
  BY <1>1, ViewSizes DEF Room
<1>3. /\ init' \in [Mems -> Seq(Nat)]
      /\ \A m \in Mems : Len(init'[m]) = Len(init[m])
      /\ \A m \in Mems : \A i \in 1..Len(init[m]) : init[m][i] <= init'[m][i]
  <2>1. CASE orphan.call \in Reads
    <3>1. init' = Written(orphan, n) BY <2>1
    <3> QED BY <1>1, <1>2, <3>1, WrittenGrows DEF IInv
  <2>2. CASE orphan.call \notin Reads
    <3>1. init' = init /\ init \in [Mems -> Seq(Nat)] BY <2>2 DEF IInv, RegInv
    <3> QED BY <3>1
  <2> QED BY <2>1, <2>2
<1>4. /\ Len(init'["reg"]) = 1
      /\ reg.free /\ "reg" \notin tainted => reg.len <= init'["reg"][1]
      /\ \A b : GoodBuf(b, init) =>
           /\ GoodBuf(b, init')
           /\ \A l \in Seq(Nat) :
                Len(l) = Len(b.cap) /\ Covers(init, b.mem, l) => Covers(init', b.mem, l)
  BY <1>3, Grown DEF IInv
<1>5. tainted \subseteq tainted' /\ (orphan.call = "read_at" => orphan.mem \in tainted')
  OBVIOUS
<1>6. orphan.buf.mem \notin tainted' => Covers(init', orphan.buf.mem, orphan.buf.len)
  <2>1. orphan.buf.len \in Seq(Nat) /\ Len(orphan.buf.len) = Len(orphan.buf.cap)
    BY <1>1 DEF GoodBuf, BufSet
  <2> QED BY <1>1, <1>4, <1>5, <2>1 DEF Shown
<1>7. /\ RegInv' /\ (orphan.buf.mem # "reg" => reg' = reg) /\ (orphan.buf.mem = "reg" => reg'.free)
  <2>1. reg.free /\ "reg" \notin tainted' => reg.len <= init'["reg"][1] BY <1>4, <1>5
  <2>2. RegInv BY DEF IInv
  <2>3. GoodBuf(orphan.buf, init') /\ DroppedBuf(orphan.buf) BY <1>1, <1>4
  <2> QED BY <1>3, <1>4, <1>6, <2>1, <2>2, <2>3, DroppedReg
<1>8. CurInv'
  <2>1. cur = Nil => view' = Nil BY DEF IInv, CurInv
  <2> SUFFICES ASSUME cur # Nil PROVE CurInv'
    BY <2>1 DEF CurInv
  <2>2. /\ GoodBuf(cur, init) /\ GoodView(cur, view)
        /\ (cur.mem \notin tainted => Covers(init, cur.mem, cur.len))
    BY DEF IInv, CurInv
  <2>3. cur.len \in Seq(Nat) /\ Len(cur.len) = Len(cur.cap) BY <2>2 DEF GoodBuf, BufSet
  <2>4. GoodBuf(cur, init') /\ (cur.mem \notin tainted' => Covers(init', cur.mem, cur.len))
    BY <1>4, <1>5, <2>2, <2>3
  <2> QED BY <2>2, <2>4 DEF CurInv
<1>9. OpInv'
  <2> SUFFICES ASSUME op # Nil PROVE OpInv'
    BY DEF OpInv
  <2>1. /\ op \in OpSet /\ op.mem = op.buf.mem /\ cur = Nil
        /\ GoodBuf(op.buf, init) /\ GoodView(op.buf, op.view)
        /\ Shown(op.call, op.buf, init, tainted)
    BY DEF IInv, OpInv
  <2>2. op.buf.len \in Seq(Nat) /\ Len(op.buf.len) = Len(op.buf.cap) /\ op.buf.cap \in Seq(Nat)
    BY <2>1 DEF GoodBuf, BufSet
  <2>3. GoodBuf(op.buf, init') /\ Shown(op.call, op.buf, init', tainted')
    BY <1>4, <1>5, <2>1, <2>2 DEF Shown
  <2>4. ASSUME op.st = "answered", op.call \in Reads, ~IntoArray(op)
        PROVE  Covers(init', op.mem, Filled(op.buf.cap, ViewBegin(op.view) + op.n))
    <3> DEFINE p == ViewBegin(op.view) + op.n
    <3>1. p \in Nat BY <2>1, ViewSizes DEF OpSet
    <3>2. Covers(init, op.mem, Filled(op.buf.cap, p)) BY <2>4 DEF IInv, OpInv
    <3> HIDE DEF p
    <3>3. Filled(op.buf.cap, p) \in Seq(Nat) /\ Len(Filled(op.buf.cap, p)) = Len(op.buf.cap)
      BY <2>2, <3>1, FilledType
    <3>4. Covers(init', op.mem, Filled(op.buf.cap, p)) BY <1>4, <2>1, <3>2, <3>3
    <3> QED BY <3>4 DEF p
  <2> QED BY <2>1, <2>3, <2>4 DEF IInv, OpInv
<1>10. OrphanInv'
  BY DEF OrphanInv
<1>11. HolderInv'
  <2>1. CASE orphan.mem = "reg"
    BY <1>1, <1>7, <2>1 DEF IInv, HolderInv
  <2>2. CASE orphan.mem # "reg"
    BY <1>1, <1>7, <2>2 DEF IInv, HolderInv
  <2> QED BY <2>1, <2>2
<1>12. WriteInv' /\ ReadInv'
  BY DEF IInv, WriteInv, ReadInv
<1> QED BY <1>7, <1>8, <1>9, <1>10, <1>11, <1>12 DEF IInv
-----------------------------------------------------------------------------
(* Completion.                                                             *)

\* The Vecs a recvmsg gives back.
LEMMA RecvmsgInit ==
  ASSUME NEW ini, NEW b, GoodBuf(b, ini), b.ty = "vecs", NEW n \in Nat, NEW r, r = recvmsg_init(b, n)
  PROVE  /\ GoodBuf(r, ini) /\ r.mem = b.mem /\ r.cap = b.cap /\ r.ty = b.ty
         /\ n <= b.cap[1] /\ Covers(ini, b.mem, b.len) /\ Covers(ini, b.mem, Filled(b.cap, n))
              => Covers(ini, b.mem, r.len)
<1> DEFINE left == Left(b.cap, n)
           l == [i \in DOMAIN b.cap |->
                  IF i > 1 /\ left[i - 1] = 0 THEN b.len[i] ELSE Most(b.len[i], left[i - 1])]
<1>1. /\ b.cap \in Seq(Nat) /\ b.len \in Seq(Nat) /\ Len(b.len) = Len(b.cap) /\ Len(b.cap) > 0
      /\ DOMAIN b.cap = 1..Len(b.cap) /\ Len(b.cap) \in Nat
  BY DEF GoodBuf, BufSet
<1>2. left \in [0..Len(b.cap) -> Nat] /\ left[0] = n
  BY <1>1, LeftDef
<1>3. r = [b EXCEPT !.len = l]
  BY DEF recvmsg_init
<1>4. n <= b.cap[1] => \A i \in 1..Len(b.cap) : left[i] = 0
  BY <1>1, LeftNothing
<1> HIDE DEF left
<1>5. ASSUME NEW i \in 1..Len(b.cap) PROVE b.len[i] \in Nat /\ left[i - 1] \in Nat
  <2>1. i - 1 \in 0..Len(b.cap) BY <1>1
  <2>2. left[i - 1] \in Nat BY <1>2, <2>1
  <2> HIDE DEF l
  <2>3. \A s \in Seq(Nat) : \A j \in 1..Len(s) : s[j] \in Nat OBVIOUS
  <2>4. i \in 1..Len(b.len) BY <1>1
  <2>5. b.len[i] \in Nat BY <1>1, <2>3, <2>4
  <2> QED BY <2>2, <2>5
<1>6. l \in Seq(Nat) /\ Len(l) = Len(b.cap)
  <2>1. \A i \in 1..Len(b.cap) : Most(b.len[i], left[i - 1]) \in Nat BY <1>5 DEF Most
  <2>2. l \in [1..Len(b.cap) -> Nat] BY <1>1, <1>5, <2>1
  <2>3. \A N \in Nat : \A f \in [1..N -> Nat] : f \in Seq(Nat) /\ Len(f) = N OBVIOUS
  <2> HIDE DEF l
  <2> QED BY <1>1, <2>2, <2>3
<1>7. GoodBuf(r, ini) /\ r.mem = b.mem /\ r.cap = b.cap /\ r.len = l /\ r.ty = b.ty
  <2> HIDE DEF l
  <2> QED BY <1>3, <1>6, NewLength
<1>8. ASSUME n <= b.cap[1], Covers(ini, b.mem, b.len), Covers(ini, b.mem, Filled(b.cap, n)),
             NEW i \in DOMAIN l
      PROVE  l[i] <= ini[b.mem][i]
  <2>1. i \in 1..Len(b.cap) /\ b.len[i] <= ini[b.mem][i]
    BY <1>1, <1>8 DEF Covers
  <2>2. CASE i = 1
    <3>1. /\ Filled(b.cap, n) \in Seq(Nat) /\ Len(Filled(b.cap, n)) = Len(b.cap)
          /\ Filled(b.cap, n)[1] = Least(b.cap[1], n) /\ b.cap[1] \in Nat
      BY <1>1, FilledType
    <3>2. n <= ini[b.mem][1]
      <4>1. 1 \in DOMAIN Filled(b.cap, n) BY <1>1, <3>1
      <4>2. Least(b.cap[1], n) = n BY <1>8, <3>1 DEF Least
      <4> QED BY <1>8, <3>1, <4>1, <4>2 DEF Covers
    <3>3. l[1] = Most(b.len[1], n) BY <1>1, <1>2
    <3> QED BY <2>1, <2>2, <3>2, <3>3 DEF Most
  <2>3. CASE i # 1
    <3>1. i - 1 \in 1..Len(b.cap) /\ i > 1 BY <1>1, <2>1, <2>3
    <3>2. left[i - 1] = 0 BY <1>4, <1>8, <3>1
    <3> QED BY <2>1, <3>1, <3>2, <1>1
  <2> QED BY <2>2, <2>3
<1> QED BY <1>7, <1>8 DEF Covers

\* A Vec or a Buffer whose set_init is told of n bytes behind its begin.
LEMMA SliceInit ==
  ASSUME NEW ini, NEW b, GoodBuf(b, ini), NEW v, GoodView(b, v), b.ty \in {"buffer", "vec"},
         NEW n \in Nat, n <= view_total(b, v), NEW r, r = slice_set_init(b, v, n)
  PROVE  /\ GoodBuf(r, ini) /\ GoodView(r, v) /\ r.mem = b.mem /\ r.cap = b.cap /\ r.ty = b.ty
         /\ b.ty = "buffer" => r.len = Filled(b.cap, ViewBegin(v) + n)
         /\ Covers(ini, b.mem, b.len) /\ Covers(ini, b.mem, Filled(b.cap, ViewBegin(v) + n))
              => Covers(ini, b.mem, r.len)
<1> DEFINE p == ViewBegin(v) + n
<1>1. /\ b \in BufSet /\ b.cap \in Seq(Nat) /\ b.len \in Seq(Nat) /\ Len(b.len) = Len(b.cap)
  BY DEF GoodBuf, BufSet
<1>2. /\ p \in Nat /\ p <= bytes_total(b) /\ ViewBegin(v) <= p
      /\ ViewBegin(v) \in Nat /\ (v # Nil => v[1] = ViewBegin(v))
  <2>1. /\ ViewBegin(v) + view_total(b, v) <= bytes_total(b) /\ bytes_total(b) \in Nat
        /\ ViewBegin(v) \in Nat /\ view_total(b, v) \in Nat
        /\ v # Nil => v[1] = ViewBegin(v)
    BY ViewSizes
  <2> QED BY <2>1
<1>3. r = set_init(b, p)
  BY DEF slice_set_init
<1> HIDE DEF p
<1>4. Filled(b.cap, p) \in Seq(Nat) /\ Len(Filled(b.cap, p)) = Len(b.cap)
  BY <1>1, <1>2, FilledType
<1>5. ASSUME GoodBuf(r, ini), r.cap = b.cap, r.ty = b.ty, p <= bytes_init(r), bytes_init(r) \in Nat
      PROVE  GoodView(r, v)
  <2> SUFFICES ASSUME v # Nil PROVE GoodView(r, v) BY DEF GoodView
  <2>1. v \in ViewSet /\ b.ty # "vecs" /\ v[1] <= v[2] /\ v[2] <= bytes_total(b)
    BY DEF GoodView
  <2>2. bytes_total(r) = bytes_total(b) BY <1>5 DEF bytes_total
  <2>3. v[1] <= bytes_init(r) BY <1>2, <1>5
  <2> QED BY <1>5, <2>1, <2>2, <2>3 DEF GoodView
<1>6. CASE b.ty = "buffer"
  <2>1. r = [b EXCEPT !.len = Filled(b.cap, p)] BY <1>1, <1>2, <1>3, <1>6, SetInitFills
  <2>2. \A i \in 1..Len(b.cap) : Filled(b.cap, p)[i] <= b.cap[i] BY <1>1, <1>2, FilledType
  <2>3. GoodBuf(r, ini) /\ r.mem = b.mem /\ r.cap = b.cap /\ r.len = Filled(b.cap, p) /\ r.ty = b.ty
    BY <1>4, <2>1, <2>2, NewLength
  <2>4. bytes_init(r) = p BY <1>1, <1>2, <2>3, SumFilled DEF bytes_init, bytes_total
  <2>5. GoodView(r, v) BY <1>2, <1>5, <2>3, <2>4
  <2> QED BY <2>3, <2>5 DEF p
<1>7. CASE b.ty = "vec"
  <2> DEFINE l == [b.len EXCEPT ![1] = Most(@, p)]
  <2>0. /\ Len(b.cap) = 1 /\ b.len[1] \in Nat /\ b.cap[1] \in Nat /\ b.len[1] <= b.cap[1]
        /\ bytes_total(b) = b.cap[1]
    <3>1. Len(b.cap) = 1 BY <1>7 DEF GoodBuf
    <3>2. b.len[1] <= b.cap[1] BY <1>7, <3>1 DEF GoodBuf
    <3> QED BY <1>1, <3>1, <3>2, OneSegment
  <2>1. r = [b EXCEPT !.len = l] BY <1>1, <1>3, <1>7 DEF set_init, BufSet
  <2>2. Most(b.len[1], p) \in Nat /\ Most(b.len[1], p) <= b.cap[1] /\ p <= Most(b.len[1], p)
    BY <1>2, <2>0 DEF Most
  <2>3. l \in Seq(Nat) /\ Len(l) = 1 /\ l[1] = Most(b.len[1], p) BY <1>1, <2>0, <2>2
  <2> HIDE DEF l
  <2>4. GoodBuf(r, ini) /\ r.mem = b.mem /\ r.cap = b.cap /\ r.len = l /\ r.ty = b.ty
    <3>1. \A i \in 1..Len(b.cap) : l[i] <= b.cap[i] BY <2>0, <2>2, <2>3
    <3> QED BY <2>0, <2>1, <2>3, <3>1, NewLength
  <2>5. bytes_init(r) = l[1] BY <2>3, <2>4, SumOne DEF bytes_init
  <2>6. GoodView(r, v) BY <1>5, <2>2, <2>3, <2>4, <2>5
  <2>7. ASSUME Covers(ini, b.mem, b.len), Covers(ini, b.mem, Filled(b.cap, p))
        PROVE  Covers(ini, b.mem, l)
    <3>1. DOMAIN l = {1} /\ 1 \in DOMAIN b.len /\ 1 \in DOMAIN Filled(b.cap, p)
      BY <1>1, <1>4, <2>0, <2>3
    <3>2. Filled(b.cap, p)[1] = p
      <4>1. Filled(b.cap, p)[1] = Least(b.cap[1], p) BY <1>1, <1>2, <2>0, FilledType
      <4> QED BY <1>2, <2>0, <4>1 DEF Least
    <3>3. b.len[1] <= ini[b.mem][1] /\ p <= ini[b.mem][1]
      BY <2>7, <3>1, <3>2 DEF Covers
    <3>4. l[1] <= ini[b.mem][1] BY <2>3, <3>3 DEF Most
    <3> QED BY <3>1, <3>4 DEF Covers
  <2> QED BY <1>7, <2>4, <2>6, <2>7 DEF p
<1> QED BY <1>6, <1>7

\* A Buffer of several segments whose iovec array the kernel has overwritten.
LEMMA WildInit ==
  ASSUME NEW ini, NEW b, GoodBuf(b, ini), NEW v, GoodView(b, v), b.mem # "reg", Len(b.cap) > 1,
         b.ty # "vecs", NEW r, r = [b EXCEPT !.ty = "wild"]
  PROVE  GoodBuf(r, ini) /\ GoodView(r, v) /\ r.mem = b.mem /\ r.cap = b.cap /\ r.ty = "wild"
<1>1. r \in BufSet /\ r.mem = b.mem /\ r.cap = b.cap /\ r.len = b.len /\ r.ty = "wild"
  BY DEF GoodBuf, BufSet, Types
<1>2. bytes_init(r) = bytes_init(b) /\ bytes_total(r) = bytes_total(b)
  BY <1>1 DEF bytes_init, bytes_total
<1>3. GoodView(r, v)
  BY <1>1, <1>2 DEF GoodView
<1>4. GoodBuf(r, ini)
  BY <1>1 DEF GoodBuf
<1> QED BY <1>1, <1>3, <1>4

\* The buffer a call gives back.
LEMMA ReturnedGood ==
  ASSUME IInv, op # Nil, op.st = "answered", NEW r, r = Returned(op)
  PROVE  /\ GoodBuf(r, init) /\ GoodView(r, op.orig) /\ r.mem = op.mem /\ r.cap = op.buf.cap
         /\ r.ty \in {op.buf.ty, "wild"}
         /\ \/ op.call = "read_at" /\ ~op.ok
            \/ op.call = "recvmsg" /\ op.n > op.buf.cap[1]
            \/ IntoArray(op) /\ op.ok /\ ViewBegin(op.view) + op.n > 0
            \/ op.call # "read_at" /\ op.mem \in tainted
            \/ Covers(init, r.mem, r.len)
         /\ op.ok /\ op.call \in {"read_at", "read_fixed"} =>
              r.len = Filled(r.cap, ViewBegin(op.orig) + op.n)
<1> DEFINE b == op.buf
           v == op.view
<1>1. /\ op \in OpSet /\ op.mem = b.mem
      /\ GoodBuf(b, init) /\ GoodView(b, v) /\ GoodView(b, op.orig)
      /\ GoodCall(op.call, b, v) /\ Shown(op.call, b, init, tainted)
      /\ (op.call # "write_all" => v = op.orig)
      /\ op.n <= Room(op)
      /\ (op.call \in Reads /\ ~IntoArray(op) =>
            Covers(init, b.mem, Filled(b.cap, ViewBegin(v) + op.n)))
  BY DEF IInv, OpInv
<1>2. op.n \in Nat /\ b \in BufSet
  BY <1>1 DEF OpSet
<1> HIDE DEF b, v
<1>3. CASE ~op.ok \/ op.call \notin Reads
  <2>1. r = b BY <1>3 DEF Returned, b
  <2>2. op.call \in {"read_at", "read_fixed"} => op.call \in Reads BY DEF Reads
  <2>3. op.call # "read_at" /\ op.mem \notin tainted => Covers(init, r.mem, r.len)
    BY <1>1, <2>1 DEF Shown
  <2> QED BY <1>1, <1>3, <2>1, <2>2, <2>3 DEF b
<1>4. CASE op.ok /\ op.call = "read_at"
  <2>1. op.call \in Reads BY <1>4 DEF Reads
  <2>2. b.ty = "buffer" /\ v = Nil /\ op.orig = Nil BY <1>1, <1>4 DEF GoodCall
  <2>3. ViewBegin(v) + op.n = op.n BY <1>2, <2>2 DEF ViewBegin
  <2>4. r = set_init(b, op.n) BY <1>4, <2>1 DEF Returned, b
  <2>5. r = [b EXCEPT !.len = Filled(b.cap, op.n)] BY <1>2, <2>2, <2>4, SetInitFills
  <2>6. /\ Filled(b.cap, op.n) \in Seq(Nat) /\ Len(Filled(b.cap, op.n)) = Len(b.cap)
        /\ \A i \in 1..Len(b.cap) : Filled(b.cap, op.n)[i] <= b.cap[i]
    BY <1>2, FilledType DEF BufSet
  <2>7. /\ GoodBuf(r, init) /\ r.mem = b.mem /\ r.cap = b.cap /\ r.len = Filled(b.cap, op.n)
        /\ r.ty = b.ty
    BY <1>1, <2>5, <2>6, NewLength
  <2>8. Covers(init, r.mem, r.len) BY <1>1, <1>4, <2>1, <2>3, <2>7 DEF IntoArray
  <2>9. GoodView(r, op.orig) BY <2>2 DEF GoodView
  <2> QED BY <1>1, <2>2, <2>3, <2>7, <2>8, <2>9 DEF b
<1>5. CASE op.ok /\ op.call \in {"read_fixed", "recv_from"}
  <2> DEFINE s == slice_set_init(b, v, op.n)
  <2>1. op.call \in Reads /\ op.call # "read_at" /\ op.call # "write_all" BY <1>5 DEF Reads
  <2>2. r = [s EXCEPT !.ty = IF IntoArray(op) /\ op.n > 0 THEN "wild" ELSE s.ty]
    BY <1>5, <2>1 DEF Returned, b, v
  <2>3. b.ty \in {"buffer", "vec"} /\ (op.call = "read_fixed" => b.ty = "buffer" /\ Len(b.cap) = 1)
    BY <1>1, <1>5 DEF GoodCall, GoodBuf
  <2>4. op.n <= view_total(b, v) BY <1>1, <2>1 DEF Room, b, v
  <2> HIDE DEF s
  <2>5. /\ GoodBuf(s, init) /\ GoodView(s, v) /\ s.mem = b.mem /\ s.cap = b.cap /\ s.ty = b.ty
        /\ (b.ty = "buffer" => s.len = Filled(b.cap, ViewBegin(v) + op.n))
        /\ Covers(init, b.mem, b.len) /\ Covers(init, b.mem, Filled(b.cap, ViewBegin(v) + op.n))
             => Covers(init, b.mem, s.len)
    BY <1>1, <1>2, <2>3, <2>4, SliceInit DEF s
  <2>6. CASE ~IntoArray(op)
    <3>1. r = s BY <2>2, <2>5, <2>6 DEF GoodBuf, BufSet
    <3>2. op.mem \notin tainted => Covers(init, r.mem, r.len)
      BY <1>1, <2>1, <2>5, <2>6, <3>1 DEF Shown
    <3> QED BY <1>1, <2>1, <2>3, <2>5, <3>1, <3>2 DEF b
  <2>7. CASE IntoArray(op)
    <3>1. op.call = "recv_from" /\ Len(b.cap) > 1 BY <2>7 DEF IntoArray, b
    <3>2. b.ty = "buffer" /\ b.mem # "reg" BY <1>1, <2>3, <3>1 DEF GoodBuf
    <3>3. ViewBegin(v) \in Nat BY <1>1, ViewSizes
    <3>4. CASE op.n > 0
      <4>1. r = [s EXCEPT !.ty = "wild"] BY <2>2, <2>7, <3>4
      <4>2. /\ GoodBuf(r, init) /\ GoodView(r, v) /\ r.mem = b.mem /\ r.cap = b.cap /\ r.ty = "wild"
        BY <2>5, <3>1, <3>2, <4>1, WildInit
      <4>3. ViewBegin(v) + op.n > 0 BY <1>2, <3>3, <3>4
      <4> QED BY <1>1, <1>5, <2>1, <2>7, <3>1, <4>2, <4>3 DEF b, v
    <3>5. CASE op.n = 0
      <4>1. r = s BY <1>2, <2>2, <2>5, <3>5 DEF GoodBuf, BufSet
      <4>2. CASE ViewBegin(v) > 0
        <5>1. ViewBegin(v) + op.n > 0 BY <3>3, <3>5, <4>2
        <5> QED BY <1>1, <1>5, <2>1, <2>3, <2>5, <2>7, <3>1, <4>1, <5>1 DEF b, v
      <4>3. CASE ViewBegin(v) = 0
        <5>1. s.len = Filled(b.cap, 0) BY <2>5, <3>2, <3>5, <4>3
        <5>2. \A i \in DOMAIN s.len : s.len[i] = 0
          <6>1. b.cap \in Seq(Nat) BY <1>2 DEF BufSet
          <6>2. Prefix(b.cap) \in [0..Len(b.cap) -> Nat] BY <6>1, PrefixDef
          <6>3. \A i \in 1..Len(b.cap) : 0 <= Prefix(b.cap)[i - 1] BY <6>1, <6>2
          <6> QED BY <5>1, <6>1, <6>3 DEF Filled
        <5>3. Covers(init, s.mem, s.len)
          <6>1. init[s.mem] \in Seq(Nat) /\ DOMAIN s.len = 1..Len(init[s.mem])
            BY <2>5 DEF GoodBuf, BufSet, IInv, RegInv
          <6>2. \A i \in DOMAIN s.len : init[s.mem][i] \in Nat BY <6>1
          <6> QED BY <5>2, <6>2 DEF Covers
        <5> QED BY <1>1, <2>1, <2>3, <2>5, <3>1, <4>1, <5>3 DEF b
      <4> QED BY <3>3, <4>2, <4>3
    <3> QED BY <1>2, <3>4, <3>5
  <2> QED BY <2>6, <2>7
<1>6. CASE op.ok /\ op.call = "recvmsg"
  <2>1. op.call \in Reads BY <1>6 DEF Reads
  <2>2. r = recvmsg_init(b, op.n) BY <1>6, <2>1 DEF Returned, b
  <2>3. b.ty = "vecs" /\ v = Nil /\ op.orig = Nil BY <1>1, <1>6 DEF GoodCall
  <2>4. ViewBegin(v) + op.n = op.n BY <1>2, <2>3 DEF ViewBegin
  <2>5. /\ GoodBuf(r, init) /\ r.mem = b.mem /\ r.cap = b.cap /\ r.ty = b.ty
        /\ op.n <= b.cap[1] /\ Covers(init, b.mem, b.len) /\ Covers(init, b.mem, Filled(b.cap, op.n))
             => Covers(init, b.mem, r.len)
    BY <1>1, <1>2, <2>2, <2>3, RecvmsgInit
  <2>6. op.n > b.cap[1] \/ op.mem \in tainted \/ Covers(init, r.mem, r.len)
    <3>1. b.cap[1] \in Nat BY <1>1 DEF GoodBuf, BufSet
    <3>2. op.n > b.cap[1] \/ op.n <= b.cap[1] BY <1>2, <3>1
    <3>3. op.mem \notin tainted => Covers(init, b.mem, b.len) BY <1>1, <1>6 DEF Shown
    <3>4. Covers(init, b.mem, Filled(b.cap, op.n)) BY <1>1, <1>6, <2>1, <2>4 DEF IntoArray
    <3> QED BY <2>5, <3>2, <3>3, <3>4
  <2>7. GoodView(r, op.orig) BY <2>3 DEF GoodView
  <2> QED BY <1>1, <1>6, <2>5, <2>6, <2>7 DEF b
<1> QED BY <1>3, <1>4, <1>5, <1>6 DEF Reads

\* The task has its buffer back.  What a write_all has written is left to show.
LEMMA ReturnsInv ==
  ASSUME BufAssumption, IInv, op # Nil, op.st = "answered", NEW ok, ok => op.ok, Returns(op, ok),
         WriteInv'
  PROVE  IInv'
<1> USE DEF Returns
<1>1. /\ GoodBuf(cur', init) /\ GoodView(cur', op.orig) /\ cur'.mem = op.mem
      /\ \/ op.call = "read_at" /\ ~op.ok
         \/ op.call = "recvmsg" /\ op.n > op.buf.cap[1]
         \/ IntoArray(op) /\ op.ok /\ ViewBegin(op.view) + op.n > 0
         \/ op.call # "read_at" /\ op.mem \in tainted
         \/ Covers(init, cur'.mem, cur'.len)
      /\ op.ok /\ op.call \in {"read_at", "read_fixed"} =>
           cur'.len = Filled(cur'.cap, ViewBegin(op.orig) + op.n)
  BY ReturnedGood
<1>2. cur' # Nil /\ op.mem \in Mems
  BY <1>1 DEF GoodBuf, BufSet, BufAssumption
<1>3. \A m : m # op.mem => (m \in tainted' <=> m \in tainted)
  OBVIOUS
<1>4. RegInv'
  <2>1. reg.free => op.mem # "reg" BY DEF IInv, HolderInv
  <2> QED BY <1>3, <2>1 DEF IInv, RegInv
<1>5. CurInv'
  <2>1. op.mem \notin tainted' => Covers(init, cur'.mem, cur'.len)
    BY <1>1
  <2> QED BY <1>1, <1>2, <2>1 DEF CurInv
<1>6. OpInv'
  BY DEF OpInv
<1>7. OrphanInv'
  <2> SUFFICES ASSUME orphan # Nil PROVE OrphanInv'
    BY DEF OrphanInv
  <2>1. orphan.mem # op.mem /\ orphan.mem = orphan.buf.mem BY DEF IInv, HolderInv, OrphanInv
  <2>2. Shown(orphan.call, orphan.buf, init, tainted')
    BY <1>3, <2>1 DEF IInv, OrphanInv, Shown
  <2> QED BY <2>2 DEF IInv, OrphanInv
<1>8. HolderInv'
  BY <1>1, <1>2 DEF IInv, HolderInv, OpInv
<1>9. ReadInv'
  BY <1>1 DEF ReadInv, CallResult
<1> QED BY <1>4, <1>5, <1>6, <1>7, <1>8, <1>9 DEF IInv

LEMMA CompleteInv == ASSUME BufAssumption, IInv, Complete PROVE IInv'
<1>1. WriteInv'
  BY DEF Complete, Returns, CallResult, WriteInv
<1> QED BY <1>1, ReturnsInv DEF Complete

\* The rest of a slice that has been written in part.
LEMMA RestSizes ==
  ASSUME BufAssumption, IInv, op # Nil, op.st = "answered", op.call = "write_all"
  PROVE  /\ RestOf(op) \in ViewSet /\ RestOf(op) # Nil /\ GoodView(op.buf, RestOf(op))
         /\ ViewBegin(RestOf(op)) = ViewBegin(op.view) + op.n
         /\ view_init(op.buf, RestOf(op)) = view_init(op.buf, op.view) - op.n
         /\ op.n \in Nat /\ op.n <= view_init(op.buf, op.view)
         /\ view_init(op.buf, op.view) \in Nat /\ ViewBegin(op.view) \in Nat
<1> DEFINE b == op.buf
           w == IF op.view = Nil THEN <<0, bytes_total(b)>> ELSE op.view
<1>1. /\ op \in OpSet /\ GoodBuf(b, init) /\ GoodView(b, op.view) /\ GoodCall(op.call, b, op.view)
      /\ op.n <= Room(op)
  BY DEF IInv, OpInv
<1>2. op.n \in Nat /\ b \in BufSet
  BY <1>1 DEF OpSet
<1>3. op.n <= view_init(b, op.view)
  BY <1>1 DEF Room, Reads
<1> HIDE DEF b
<1>4. b.mem = "reg" /\ b.ty = "buffer" /\ Len(b.cap) = 1 /\ Len(b.len) = 1
  BY <1>1 DEF GoodCall, GoodBuf
<1>5. /\ bytes_init(b) = b.len[1] /\ bytes_total(b) = b.cap[1] /\ b.len[1] \in Nat /\ b.cap[1] \in Nat
      /\ b.len[1] <= b.cap[1]
  <2>1. b.len[1] <= b.cap[1] BY <1>1, <1>4 DEF GoodBuf
  <2> QED BY <1>2, <1>4, <2>1, OneSegment
<1>6. /\ w[1] \in Nat /\ w[2] \in Nat /\ w[1] <= w[2] /\ w[2] <= b.cap[1] /\ w[1] <= b.len[1]
      /\ ViewBegin(op.view) = w[1]
      /\ view_init(b, op.view) = Least(w[2], b.len[1]) - w[1]
  <2>1. CASE op.view = Nil
    <3>1. w = <<0, b.cap[1]>> BY <1>5, <2>1
    <3>2. view_init(b, op.view) = b.len[1] /\ ViewBegin(op.view) = 0
      BY <1>5, <2>1 DEF view_init, ViewBegin
    <3> HIDE DEF w
    <3> QED BY <1>5, <3>1, <3>2 DEF Least
  <2>2. CASE op.view # Nil
    <3>1. w = op.view BY <2>2
    <3>2. ViewBegin(op.view) = op.view[1] BY <2>2 DEF ViewBegin
    <3> HIDE DEF w
    <3> QED BY <1>1, <1>5, <2>2, <3>1, <3>2, ViewSizes DEF GoodView, ViewSet
  <2> QED BY <2>1, <2>2
<1>7. RestOf(op) = slice_slice(b, w, op.n, w[2] - w[1])
  BY DEF RestOf, b
<1> HIDE DEF w
<1>8. w[1] + op.n <= w[2] /\ w[1] + op.n <= b.len[1] /\ w[1] + (w[2] - w[1]) = w[2]
  BY <1>2, <1>3, <1>5, <1>6 DEF Least
<1>9. RestOf(op) = <<w[1] + op.n, w[2]>>
  <2>1. w[1] + (w[2] - w[1]) <= w[2] BY <1>6, <1>8
  <2> QED BY <1>5, <1>7, <1>8, <2>1 DEF slice_slice
<1>10. RestOf(op) \in ViewSet
  BY <1>2, <1>6, <1>9 DEF ViewSet
<1>11. RestOf(op) # Nil
  BY <1>10 DEF BufAssumption
<1>12. GoodView(b, RestOf(op))
  BY <1>4, <1>5, <1>6, <1>8, <1>9, <1>10 DEF GoodView
<1>13. ViewBegin(RestOf(op)) = ViewBegin(op.view) + op.n
  BY <1>6, <1>9, <1>11 DEF ViewBegin
<1>14. view_init(b, RestOf(op)) = view_init(b, op.view) - op.n
  <2>1. view_init(b, RestOf(op)) = Least(w[2], b.len[1]) - (w[1] + op.n)
    BY <1>5, <1>9, <1>11 DEF view_init
  <2> QED BY <1>2, <1>5, <1>6, <2>1 DEF Least
<1>15. view_init(b, op.view) \in Nat /\ ViewBegin(op.view) \in Nat
  BY <1>1, ViewSizes
<1> QED BY <1>2, <1>3, <1>10, <1>11, <1>12, <1>13, <1>14, <1>15 DEF b

LEMMA WriteAllEndsInv == ASSUME BufAssumption, IInv, WriteAllEnds PROVE IInv'
<1>0. op # Nil /\ op.st = "answered" /\ op.call = "write_all" /\ Returns(op, op.ok /\ op.n > 0)
  BY DEF WriteAllEnds
<1>1. WriteInv'
  <2> SUFFICES ASSUME op.ok, op.n > 0 PROVE out' = Run(result'.all, result'.pos, result'.begin)
    <3>1. op' = Nil /\ result'.ok = (op.ok /\ op.n > 0) BY <1>0 DEF Returns, CallResult
    <3> QED BY <3>1 DEF WriteInv
  <2>1. PICK k \in Nat : out = Run(k, op.start, ViewBegin(op.orig)) /\ Progress(op, k)
    BY <1>0 DEF IInv, WriteInv
  <2>2. /\ view_init(op.buf, RestOf(op)) = view_init(op.buf, op.view) - op.n
        /\ op.n \in Nat /\ view_init(op.buf, op.view) \in Nat
    BY <1>0, RestSizes
  <2>3. view_init(op.buf, RestOf(op)) = 0
    BY <2>2 DEF WriteAllEnds
  <2>4. view_init(op.buf, op.view) + (k - op.n) = view_init(op.buf, op.orig)
    BY <1>0, <2>1 DEF Progress
  <2>5. view_init(op.buf, op.orig) = k
    BY <2>2, <2>3, <2>4
  <2>6. /\ result'.all = view_init(op.buf, op.orig) /\ result'.pos = op.start
        /\ result'.begin = ViewBegin(op.orig) /\ out' = out
    BY <1>0 DEF Returns, CallResult
  <2> QED BY <2>1, <2>5, <2>6
<1> QED BY <1>0, <1>1, ReturnsInv

LEMMA WriteAllGoesOnInv == ASSUME BufAssumption, IInv, WriteAllGoesOn PROVE IInv'
<1> USE DEF WriteAllGoesOn
<1> DEFINE rest == RestOf(op)
<1>1. /\ rest \in ViewSet /\ rest # Nil /\ GoodView(op.buf, rest)
      /\ ViewBegin(rest) = ViewBegin(op.view) + op.n
      /\ view_init(op.buf, rest) = view_init(op.buf, op.view) - op.n
      /\ op.n \in Nat /\ view_init(op.buf, op.view) \in Nat /\ ViewBegin(op.view) \in Nat
  BY RestSizes
<1>2. op \in OpSet /\ op' = [op EXCEPT !.pos = @ + op.n, !.view = rest, !.st = "inflight"]
  BY DEF IInv, OpInv
<1> HIDE DEF rest
<1>3. op' \in OpSet /\ op' # Nil
  <2>1. op.pos + op.n \in Nat BY <1>1, <1>2 DEF OpSet
  <2>2. op' = [op EXCEPT !.pos = op.pos + op.n, !.view = rest, !.st = "inflight"]
    BY <1>2 DEF OpSet
  <2> DEFINE p == op.pos + op.n
  <2>3. p \in Nat /\ op' = [op EXCEPT !.pos = p, !.view = rest, !.st = "inflight"] BY <2>1, <2>2
  <2> HIDE DEF p
  <2>4. op' \in OpSet BY <1>1, <1>2, <2>3 DEF OpSet
  <2> QED BY <2>4 DEF BufAssumption
<1>4. /\ op'.call = op.call /\ op'.mem = op.mem /\ op'.buf = op.buf /\ op'.view = rest
      /\ op'.orig = op.orig /\ op'.st = "inflight" /\ op'.pos = op.pos + op.n
      /\ op'.start = op.start
  BY <1>2 DEF OpSet
<1>5. RegInv' /\ CurInv' /\ OrphanInv' /\ ReadInv'
  BY DEF IInv, RegInv, CurInv, OrphanInv, ReadInv
<1>6. OpInv'
  <2>1. GoodCall(op.call, op.buf, rest) BY DEF GoodCall, IInv, OpInv
  <2> QED BY <1>1, <1>3, <1>4, <2>1 DEF IInv, OpInv
<1>7. HolderInv'
  BY <1>3, <1>4 DEF IInv, HolderInv
<1>8. WriteInv'
  <2>1. PICK k \in Nat : out = Run(k, op.start, ViewBegin(op.orig)) /\ Progress(op, k)
    BY DEF IInv, WriteInv
  <2>2. /\ k - op.n >= 0 /\ op.pos = op.start + (k - op.n)
        /\ ViewBegin(op.view) = ViewBegin(op.orig) + (k - op.n)
        /\ view_init(op.buf, op.view) + (k - op.n) = view_init(op.buf, op.orig)
        /\ op.start + view_init(op.buf, op.orig) <= PosMax
    BY <2>1 DEF Progress
  <2>3. ViewBegin(op.orig) \in Nat /\ op.start \in Nat
    <3>1. GoodBuf(op.buf, init) /\ GoodView(op.buf, op.orig) BY DEF IInv, OpInv
    <3> QED BY <1>2, <3>1, ViewSizes DEF OpSet
  <2>4. /\ op.pos + op.n = op.start + k /\ ViewBegin(rest) = ViewBegin(op.orig) + k
        /\ view_init(op.buf, rest) + k = view_init(op.buf, op.orig)
    BY <1>1, <2>2, <2>3
  <2>5. Progress(op', k)
    BY <1>4, <2>2, <2>4 DEF Progress
  <2>6. out' = Run(k, op'.start, ViewBegin(op'.orig)) BY <1>4, <2>1
  <2>7. result' = Nil BY DEF IInv, OpInv
  <2> QED BY <2>5, <2>6, <2>7 DEF WriteInv
<1> QED BY <1>5, <1>6, <1>7, <1>8 DEF IInv

LEMMA DropCallInv == ASSUME BufAssumption, IInv, DropCall PROVE IInv'
<1> USE DEF DropCall
<1>1. /\ op # Nil /\ op \in OpSet /\ op.mem = op.buf.mem /\ cur = Nil /\ view = Nil
      /\ GoodBuf(op.buf, init) /\ GoodView(op.buf, op.view)
      /\ GoodCall(op.call, op.buf, op.view) /\ Shown(op.call, op.buf, init, tainted)
  BY DEF IInv, OpInv, CurInv
<1>2. CurInv' /\ OpInv'
  BY <1>1 DEF CurInv, OpInv
<1>3. WriteInv' /\ ReadInv'
  BY Forgets
<1>4. CASE op.st = "inflight"
  <2>1. orphan' = [call |-> op.call, mem |-> op.mem, buf |-> op.buf, view |-> op.view]
        /\ orphan = Nil /\ reg' = reg /\ tainted' = tainted /\ init' = init
    BY <1>4
  <2>2. orphan' \in OrphanSet /\ orphan' # Nil
    <3>1. orphan' \in OrphanSet BY <1>1, <2>1 DEF OpSet, OrphanSet
    <3> QED BY <3>1 DEF BufAssumption
  <2>3. orphan'.call = op.call /\ orphan'.mem = op.mem /\ orphan'.buf = op.buf /\ orphan'.view = op.view
    BY <2>1
  <2>4. RegInv' BY <2>1 DEF IInv, RegInv
  <2>5. OrphanInv' BY <1>1, <2>1, <2>2, <2>3 DEF OrphanInv
  <2>6. HolderInv' BY <1>1, <2>1, <2>2, <2>3 DEF IInv, HolderInv
  <2> QED BY <1>2, <1>3, <2>4, <2>5, <2>6 DEF IInv
<1>5. CASE op.st # "inflight"
  <2>1. DroppedBuf(op.buf) /\ orphan' = orphan /\ init' = init BY <1>5
  <2>2. tainted \subseteq tainted' /\ (op.call = "read_at" => op.mem \in tainted')
        /\ \A m : m # op.mem => (m \in tainted' <=> m \in tainted)
    BY <1>5
  <2>3. op.buf.mem \notin tainted' => Covers(init', op.buf.mem, op.buf.len)
    BY <1>1, <2>1, <2>2 DEF Shown
  <2>4. RegInv' /\ (op.buf.mem # "reg" => reg' = reg) /\ (op.buf.mem = "reg" => reg'.free)
    <3>1. RegInv BY DEF IInv
    <3>2. /\ init' \in [Mems -> Seq(Nat)] /\ Len(init'["reg"]) = 1 /\ GoodBuf(op.buf, init')
          /\ reg.free /\ "reg" \notin tainted' => reg.len <= init'["reg"][1]
      BY <1>1, <2>1, <2>2, <3>1 DEF RegInv
    <3> QED BY <2>1, <2>3, <3>1, <3>2, DroppedReg
  <2>5. OrphanInv'
    <3> SUFFICES ASSUME orphan # Nil PROVE OrphanInv'
      BY <2>1 DEF OrphanInv
    <3>1. Shown(orphan.call, orphan.buf, init, tainted')
      BY <2>2 DEF IInv, OrphanInv, Shown
    <3> QED BY <2>1, <3>1 DEF IInv, OrphanInv
  <2>6. HolderInv'
    <3>1. CASE op.mem = "reg" BY <1>1, <2>1, <2>4, <3>1 DEF IInv, HolderInv
    <3>2. CASE op.mem # "reg" BY <1>1, <2>1, <2>4, <3>2 DEF IInv, HolderInv
    <3> QED BY <3>1, <3>2
  <2> QED BY <1>2, <1>3, <2>4, <2>5, <2>6 DEF IInv
<1> QED BY <1>4, <1>5
-----------------------------------------------------------------------------
(* The theorems.                                                           *)

LEMMA StepInv == ASSUME BufAssumption, IInv, [BufNext]_bufVars PROVE IInv'
<1>1. CASE CheckOut BY <1>1, CheckOutInv
<1>2. CASE DropBuf BY <1>2, DropBufInv
<1>3. CASE into_inner BY <1>3, IntoInnerInv
<1>4. CASE SubmitCall BY <1>4, SubmitInv
<1>5. CASE Complete BY <1>5, CompleteInv
<1>6. CASE WriteAllEnds BY <1>6, WriteAllEndsInv
<1>7. CASE WriteAllGoesOn BY <1>7, WriteAllGoesOnInv
<1>8. CASE DropCall BY <1>8, DropCallInv
<1>9. CASE \/ read_at \/ write_at \/ read_fixed_at \/ write_fixed_at \/ recv_from \/ recvmsg
           \/ \E pos \in Positions : WriteAll(pos)
  BY <1>9, CallsInv
<1>10. CASE \E s \in Shapes : MakeBuf(s)
  BY <1>10, MakeBufInv
<1>11. ASSUME cur # Nil, NEW lo \in 0..bytes_total(cur), NEW hi \in 0..bytes_total(cur),
              lo <= hi, Slice(lo, hi) \/ SliceAgain(lo, hi)
       PROVE  IInv'
  <2>1. lo \in Nat /\ hi \in Nat OBVIOUS
  <2> QED BY <1>11, <2>1, SliceInv
<1>12. CASE \E pos \in Positions : WriteAllAtOnce(pos)
  BY <1>12, WriteAllAtOnceInv
<1>13. CASE orphan # Nil /\ \E n \in 0..Room(orphan) : KDoneOrphan(n)
  BY <1>13, KDoneOrphanInv
<1>14. CASE op # Nil /\ \E n \in 0..Room(op), ok \in BOOLEAN : KDone(n, ok)
  BY <1>14, KDoneInv
<1>15. CASE UNCHANGED bufVars
  <2>1. RegInv' /\ CurInv' /\ OpInv' /\ OrphanInv' /\ HolderInv'
    BY <1>15 DEF bufVars, IInv, RegInv, CurInv, OpInv, OrphanInv, HolderInv
  <2>2. WriteInv' /\ ReadInv'
    BY <1>15 DEF bufVars, IInv, WriteInv, ReadInv
  <2> QED BY <2>1, <2>2 DEF IInv
<1> QED BY <1>1, <1>2, <1>3, <1>4, <1>5, <1>6, <1>7, <1>8, <1>9, <1>10, <1>11, <1>12, <1>13,
           <1>14, <1>15 DEF BufNext

LEMMA Reached == ASSUME BufAssumption PROVE BufSpec => []IInv
  BY InitInv, StepInv, PTL DEF BufSpec

\* The buffers: for every capacity, every shape of a buffer and every number of
\* segments, the lengths a safe reader sees cover only bytes that were written.
\* set_init, Slice::set_init and RecvMsg::complete are shown through their loops.
THEOREM InitsSound == ASSUME BufAssumption PROVE BufSpec => []InitSound
<1>1. IInv => InitSound
  <2> SUFFICES ASSUME IInv PROVE InitSound
    OBVIOUS
  <2>1. cur # Nil /\ cur.mem \notin tainted => Backed(cur.mem, cur.len)
    BY DEF IInv, CurInv, Covers, Backed
  <2>2. reg.free /\ "reg" \notin tainted => Backed("reg", <<reg.len>>)
    BY DEF IInv, RegInv, Backed
  <2> QED BY <2>1, <2>2 DEF InitSound
<1> QED BY <1>1, Reached, PTL

\* Slices and reads: after a successful read a Buffer shows every byte the kernel
\* wrote, however many segments it has, and a view never leaves its buffer and never
\* begins behind its initialised bytes.
THEOREM SlicesSound == ASSUME BufAssumption PROVE BufSpec => []SliceSound
<1>1. IInv => SliceSound
  <2> SUFFICES ASSUME IInv PROVE SliceSound
    OBVIOUS
  <2>1. ASSUME cur # Nil, view # Nil
        PROVE  view[1] <= view[2] /\ view[2] <= bytes_total(cur) /\ view[1] <= bytes_init(cur)
    BY <2>1 DEF IInv, CurInv, GoodView
  <2>2. ASSUME result # Nil, cur # Nil, result.ok, result.call \in {"read_at", "read_fixed"},
               NEW i \in DOMAIN cur.cap
        PROVE  Filled(cur.cap, result.begin + result.n)[i] <= cur.len[i]
    <3>1. cur.len = Filled(cur.cap, result.begin + result.n) BY <2>2 DEF IInv, ReadInv
    <3>2. cur.len[i] \in Nat BY <2>2 DEF IInv, CurInv, GoodBuf, BufSet
    <3> QED BY <3>1, <3>2
  <2> QED BY <2>1, <2>2 DEF SliceSound
<1> QED BY <1>1, Reached, PTL

\* Check-out and check-in: the registered buffer is free or has exactly one holder,
\* through calls, dropped futures and late completions.
THEOREM BuffersOneHolder == ASSUME BufAssumption PROVE BufSpec => []OneHolder
<1>1. IInv => OneHolder
  <2> SUFFICES ASSUME HolderInv, CurInv, OpInv, OrphanInv PROVE OneHolder
    BY DEF IInv
  <2> DEFINE t == <<cur, op, orphan>>
             H == {i \in 1..3 : t[i] # Nil /\ t[i].mem = "reg"}
  <2>1. \A i : i \in H <=> \/ i = 1 /\ cur # Nil /\ cur.mem = "reg"
                           \/ i = 2 /\ op # Nil /\ op.mem = "reg"
                           \/ i = 3 /\ orphan # Nil /\ orphan.mem = "reg"
    OBVIOUS
  <2> HIDE DEF H
  <2>2. reg.free => H = {}
    BY <2>1 DEF HolderInv
  <2>3. ~reg.free => 1 \in H \/ 2 \in H \/ 3 \in H
    BY <2>1 DEF HolderInv
  <2>4. ~(1 \in H /\ 2 \in H) /\ ~(1 \in H /\ 3 \in H) /\ ~(2 \in H /\ 3 \in H)
    BY <2>1 DEF HolderInv, OpInv
  <2>5. ~reg.free => \E i \in 1..3 : H = {i}
    <3>1. 1 \in H => H = {1} BY <2>1, <2>4
    <3>2. 2 \in H => H = {2} BY <2>1, <2>4
    <3>3. 3 \in H => H = {3} BY <2>1, <2>4
    <3> QED BY <2>3, <3>1, <3>2, <3>3
  <2> QED BY <2>2, <2>5 DEF OneHolder, H
<1> QED BY <1>1, Reached, PTL

\* write_fixed_all_at: however the kernel cuts its writes, the bytes of the slice
\* go out once, in order, to consecutive positions below PosMax, and success means
\* all of them.
THEOREM WritesAllExactly == ASSUME BufAssumption PROVE BufSpec => []WriteAllExact
<1>1. IInv => WriteAllExact
  <2> SUFFICES ASSUME IInv PROVE WriteAllExact
    OBVIOUS
  <2>1. ASSUME op # Nil, op.call = "write_all"
        PROVE  /\ out = Run(Len(out), op.start, ViewBegin(op.orig))
               /\ op.pos + view_init(op.buf, op.view) <= PosMax
    <3>1. PICK k \in Nat : out = Run(k, op.start, ViewBegin(op.orig)) /\ Progress(op, k)
      BY <2>1 DEF IInv, WriteInv
    <3>2. Len(out) = k
      BY <3>1 DEF Run
    <3>3. /\ op \in OpSet /\ GoodBuf(op.buf, init) /\ GoodView(op.buf, op.view)
          /\ GoodView(op.buf, op.orig)
      BY <2>1 DEF IInv, OpInv
    <3>4. op.start \in Nat /\ op.n \in Nat /\ view_init(op.buf, op.view) \in Nat /\ view_init(op.buf, op.orig) \in Nat
      BY <3>3, ViewSizes DEF OpSet
    <3>5. op.pos + view_init(op.buf, op.view) <= PosMax
      <4> DEFINE done == IF op.st = "answered" THEN k - op.n ELSE k
      <4>1. /\ op.pos = op.start + done /\ view_init(op.buf, op.view) + done = view_init(op.buf, op.orig)
            /\ op.start + view_init(op.buf, op.orig) <= PosMax /\ done \in Int
        BY <3>1, <3>4 DEF Progress
      <4> HIDE DEF done
      <4>2. op.pos + view_init(op.buf, op.view) = op.start + view_init(op.buf, op.orig)
        BY <3>4, <4>1
      <4> QED BY <4>1, <4>2
    <3> QED BY <3>1, <3>2, <3>5
  <2>2. result # Nil /\ result.call = "write_all" /\ result.ok =>
          out = Run(result.all, result.pos, result.begin)
    BY DEF IInv, WriteInv
  <2> QED BY <2>1, <2>2 DEF WriteAllExact, Run
<1> QED BY <1>1, Reached, PTL

-----------------------------------------------------------------------------
(* What goes wrong without exception comes from three causes only.         *)

\* A Buffer of one segment, or no Buffer.
OneBlock(b) == b.ty = "buffer" => Len(b.cap) = 1

\* Without read_at, recvmsg, and a recv_from into several segments, no length is ever
\* left wrong.
Untainted ==
  /\ tainted = {}
  /\ op # Nil => op.call \in Calls
  /\ orphan # Nil => orphan.call \in Calls
  /\ "recv_from" \in Calls => (cur # Nil => OneBlock(cur)) /\ (op # Nil => OneBlock(op.buf))

LEMMA UntaintedStep ==
  ASSUME BufAssumption, IInv, "read_at" \notin Calls, "recvmsg" \notin Calls,
         "recv_from" \in Calls => \A s \in Shapes : OneBlock(s),
         Untainted, [BufNext]_bufVars
  PROVE  Untainted'
<1> USE DEF Untainted
<1>1. op # Nil => op \in OpSet /\ op.call # "read_at" /\ op.call # "recvmsg"
  BY DEF IInv, OpInv
<1>2. ASSUME NEW call, NEW b, NEW st, NEW pos, Begins(call, b, st, pos), cur # Nil,
             b = cur \/ b = fill(cur)
      PROVE  Untainted'
  <2>1. b.ty = cur.ty /\ b.cap = cur.cap BY <1>2 DEF fill, IInv, CurInv, GoodBuf, BufSet
  <2>2. op'.buf = b /\ op'.call = call /\ call \in Calls /\ cur' = Nil
        /\ UNCHANGED <<orphan, tainted>>
    BY <1>2 DEF Begins, Operation
  <2> QED BY <1>2, <2>1, <2>2 DEF OneBlock
<1>3. CASE CheckOut \/ DropBuf \/ into_inner
  <2>1. cur' # Nil => cur' = cur \/ (cur'.cap = <<RegCap>>)
    BY <1>3 DEF CheckOut, check_out, DropBuf, into_inner
  <2>2. UNCHANGED <<op, orphan, tainted>> BY <1>3 DEF CheckOut, DropBuf, into_inner
  <2>3. cur' # Nil /\ cur' # cur => Len(cur'.cap) = 1 BY <2>1
  <2> QED BY <2>1, <2>2, <2>3 DEF OneBlock
<1>4. CASE SubmitCall \/ WriteAllGoesOn
  <2>1. op'.call = op.call /\ op'.buf = op.buf /\ op # Nil /\ UNCHANGED <<cur, orphan, tainted>>
    BY <1>1, <1>4 DEF SubmitCall, WriteAllGoesOn, OpSet
  <2> QED BY <2>1
<1>5. ASSUME NEW ok, op # Nil, op.st = "answered", Returns(op, ok) PROVE Untainted'
  <2>1. cur'.cap = op.buf.cap /\ cur'.ty \in {op.buf.ty, "wild"}
    BY <1>5, ReturnedGood DEF Returns
  <2>2. ~IntoArray(op)
    <3>1. GoodCall(op.call, op.buf, op.view) /\ GoodBuf(op.buf, init) BY <1>5 DEF IInv, OpInv
    <3> SUFFICES ASSUME op.call = "recv_from", Len(op.buf.cap) > 1 PROVE FALSE
      BY DEF IntoArray
    <3>2. op.buf.ty = "vec" => Len(op.buf.cap) = 1 BY <3>1 DEF GoodBuf
    <3>3. op.buf.ty = "buffer" => Len(op.buf.cap) = 1 BY <1>5 DEF OneBlock
    <3>4. op.buf.ty \in {"buffer", "vec"} BY <3>1 DEF GoodCall
    <3>5. Len(op.buf.cap) = 1 BY <3>2, <3>3, <3>4
    <3>6. op.buf.cap \in Seq(Nat) BY <3>1 DEF GoodBuf, BufSet
    <3> QED BY <3>5, <3>6
  <2>3. tainted' = {} BY <1>1, <1>5, <2>2 DEF Returns
  <2>4. op' = Nil /\ orphan' = orphan BY <1>5 DEF Returns
  <2> QED BY <1>5, <2>1, <2>3, <2>4 DEF OneBlock
<1>6. CASE Complete \/ WriteAllEnds
  BY <1>5, <1>6 DEF Complete, WriteAllEnds
<1>7. CASE DropCall
  <2>1. cur' = Nil BY <1>7 DEF DropCall, IInv, OpInv
  <2> QED BY <1>1, <1>7, <2>1 DEF DropCall
<1>8. CASE \/ read_at \/ write_at \/ read_fixed_at \/ write_fixed_at \/ recv_from \/ recvmsg
           \/ \E pos \in Positions : WriteAll(pos)
  BY <1>2, <1>8 DEF read_at, write_at, read_fixed_at, write_fixed_at, recv_from, recvmsg, WriteAll,
                    Fixed, IsBuffer
<1>9. ASSUME NEW lo, NEW hi, Slice(lo, hi) \/ SliceAgain(lo, hi) PROVE Untainted'
  BY <1>9 DEF Slice, SliceAgain
<1>10. CASE \E pos \in Positions : WriteAllAtOnce(pos)
  BY <1>10 DEF WriteAllAtOnce
<1>11. CASE orphan # Nil /\ \E n \in 0..Room(orphan) : KDoneOrphan(n)
  BY <1>11 DEF KDoneOrphan
<1>12. ASSUME NEW n, NEW ok, KDone(n, ok) PROVE Untainted'
  <2>1. op'.call = op.call /\ op'.buf = op.buf /\ op # Nil /\ UNCHANGED <<cur, orphan, tainted>>
    BY <1>1, <1>12 DEF KDone, OpSet
  <2> QED BY <2>1
<1>13. CASE UNCHANGED bufVars
  BY <1>13 DEF bufVars
<1>14. ASSUME NEW s \in Shapes, MakeBuf(s) PROVE Untainted'
  <2>1. cur'.ty = s.ty /\ cur'.cap = s.cap /\ tainted' = {} /\ UNCHANGED <<op, orphan>>
    BY <1>14 DEF MakeBuf
  <2> QED BY <2>1 DEF OneBlock
<1> QED BY <1>3, <1>4, <1>6, <1>7, <1>8, <1>9, <1>10, <1>11, <1>12, <1>13, <1>14 DEF BufNext

\* IoBuf::bytes_init, "Number of initialized bytes", is right without exception for
\* a program that stays away from three things: read_at, which fills the lengths before
\* it reads; recvmsg into several Vecs; and recv_from into a Buffer of several segments,
\* whose iovec array takes the datagram.
THEOREM InitsSoundAlways ==
  ASSUME BufAssumption, "read_at" \notin Calls, "recvmsg" \notin Calls,
         "recv_from" \in Calls => \A s \in Shapes : OneBlock(s)
  PROVE  BufSpec => []InitSoundAlways
<1>1. BufInit => Untainted
  BY DEF BufInit, Untainted
<1>2. IInv /\ Untainted /\ [BufNext]_bufVars => Untainted'
  BY UntaintedStep
<1>3. IInv /\ Untainted => InitSoundAlways
  <2> SUFFICES ASSUME IInv, Untainted PROVE InitSoundAlways
    OBVIOUS
  <2>1. tainted = {} BY DEF Untainted
  <2>2. cur # Nil => Backed(cur.mem, cur.len)
    BY <2>1 DEF IInv, CurInv, Covers, Backed
  <2>3. reg.free => Backed("reg", <<reg.len>>)
    BY <2>1 DEF IInv, RegInv, Backed
  <2> QED BY <2>2, <2>3 DEF InitSoundAlways
<1> QED BY <1>1, <1>2, <1>3, Reached, PTL DEF BufSpec

\* Several Vecs go into a recvmsg and into no other call.
VecsFit ==
  /\ cur # Nil /\ cur.ty = "vecs" => \A i \in 1..Len(cur.cap) : cur.len[i] <= cur.cap[i]
  /\ op # Nil => op.call \in Calls

LEMMA VecsFitStep ==
  ASSUME BufAssumption, IInv, "recvmsg" \notin Calls, VecsFit, [BufNext]_bufVars
  PROVE  VecsFit'
<1> USE DEF VecsFit
<1>1. op # Nil => op \in OpSet /\ op.call # "recvmsg"
  BY DEF IInv, OpInv
<1>2. op # Nil => op.buf.ty # "vecs"
  <2> SUFFICES ASSUME op # Nil PROVE op.buf.ty # "vecs"
    OBVIOUS
  <2>1. GoodCall(op.call, op.buf, op.view) /\ GoodBuf(op.buf, init) BY DEF IInv, OpInv
  <2>2. op.call \in {"read_at", "read_fixed", "recv_from", "write_at", "write_fixed", "write_all"}
    BY <1>1 DEF OpSet, Reads
  <2> QED BY <2>1, <2>2 DEF GoodCall, GoodBuf
<1>3. ASSUME NEW call, NEW b, NEW st, NEW pos, Begins(call, b, st, pos) PROVE VecsFit'
  BY <1>3 DEF Begins, Operation
<1>4. CASE CheckOut \/ DropBuf \/ into_inner
  BY <1>4 DEF CheckOut, check_out, DropBuf, into_inner
<1>5. ASSUME NEW s \in Shapes, MakeBuf(s) PROVE VecsFit'
  <2>1. \A i \in 1..Len(s.cap) : s.len[i] <= s.cap[i] BY DEF BufAssumption
  <2> QED BY <1>5, <2>1 DEF MakeBuf
<1>6. CASE SubmitCall \/ WriteAllGoesOn
  BY <1>1, <1>6 DEF SubmitCall, WriteAllGoesOn, OpSet
<1>7. CASE Complete \/ WriteAllEnds
  <2>1. op # Nil /\ op.st = "answered" /\ cur' = Returned(op) /\ op' = Nil
    BY <1>7 DEF Complete, WriteAllEnds, Returns
  <2>2. cur'.ty # "vecs" BY <1>2, <2>1, ReturnedGood
  <2> QED BY <1>2, <2>1, <2>2
<1>8. CASE DropCall
  BY <1>8 DEF DropCall
<1>9. CASE \/ read_at \/ write_at \/ read_fixed_at \/ write_fixed_at \/ recv_from \/ recvmsg
           \/ \E pos \in Positions : WriteAll(pos)
  BY <1>3, <1>9 DEF read_at, write_at, read_fixed_at, write_fixed_at, recv_from, recvmsg, WriteAll
<1>10. ASSUME NEW lo, NEW hi, Slice(lo, hi) \/ SliceAgain(lo, hi) PROVE VecsFit'
  BY <1>10 DEF Slice, SliceAgain
<1>11. CASE \E pos \in Positions : WriteAllAtOnce(pos)
  BY <1>11 DEF WriteAllAtOnce
<1>12. CASE orphan # Nil /\ \E n \in 0..Room(orphan) : KDoneOrphan(n)
  BY <1>12 DEF KDoneOrphan
<1>13. ASSUME NEW n, NEW ok, KDone(n, ok) PROVE VecsFit'
  BY <1>1, <1>13 DEF KDone, OpSet
<1>14. CASE UNCHANGED bufVars
  BY <1>14 DEF bufVars
<1> QED BY <1>4, <1>5, <1>6, <1>7, <1>8, <1>9, <1>10, <1>11, <1>12, <1>13, <1>14 DEF BufNext

\* IoBufMut::set_init is given positions inside the buffer by every call but
\* recvmsg: whatever is sliced, read and received, no length exceeds its capacity.
THEOREM LengthsWithinCapacity ==
  ASSUME BufAssumption, "recvmsg" \notin Calls
  PROVE  BufSpec => []WithinCapacity
<1>1. BufInit => VecsFit
  BY DEF BufInit, VecsFit
<1>2. IInv /\ VecsFit /\ [BufNext]_bufVars => VecsFit'
  BY VecsFitStep
<1>3. IInv /\ VecsFit => WithinCapacity
  <2> SUFFICES ASSUME IInv, VecsFit, cur # Nil, NEW i \in DOMAIN cur.len
               PROVE  cur.len[i] <= cur.cap[i]
    BY DEF WithinCapacity
  <2>1. GoodBuf(cur, init) BY DEF IInv, CurInv
  <2>2. i \in 1..Len(cur.cap) BY <2>1 DEF GoodBuf, BufSet
  <2> QED BY <2>1, <2>2 DEF VecsFit, GoodBuf
<1> QED BY <1>1, <1>2, <1>3, Reached, PTL DEF BufSpec
=============================================================================
