------------------------- MODULE FixedBufPoolProofs -------------------------
(***************************************************************************)
(* The pool of registered buffers for any number of buffers, capacities    *)
(* and tasks.  The free lists are intact because each of them is, at every *)
(* step, the links of some sequence of all free buffers of its capacity    *)
(* (ListInv); no wake-up is missed on one thread because a queue with a    *)
(* waiter never has fewer notified tasks than free buffers (CountInv).     *)
(***************************************************************************)
EXTENDS FixedBufPool, FiniteSetTheorems, TLAPS

-----------------------------------------------------------------------------
(* Induction over the natural numbers, for sets.                           *)

LEMMA NatSetInduction ==
  ASSUME NEW S, 0 \in S, \A n \in Nat : n \in S => n + 1 \in S
  PROVE  Nat \subseteq S
<1> DEFINE T == Nat \ S
<1> SUFFICES ASSUME T # {} PROVE FALSE
  OBVIOUS
<1>1. PICK x \in T : \A y \in T : ~(<<y, x>> \in OpToRel(<, Nat))
  BY NatLessThanWellFounded, WFMin, Zenon
<1>2. x \in Nat /\ x # 0
  OBVIOUS
<1>3. x - 1 \in Nat /\ x - 1 < x /\ (x - 1) + 1 = x
  BY <1>2
<1>4. x - 1 \notin T
  <2>1. <<x - 1, x>> \in OpToRel(<, Nat)
    BY <1>2, <1>3 DEF OpToRel
  <2> QED BY <2>1, <1>1
<1> QED BY <1>3, <1>4

-----------------------------------------------------------------------------
(* Lists through the states array.                                         *)

\* The head h and the links nx form the list l of the buffers in S.
IsList(l, h, S, nx) ==
  /\ \A j, k \in 1..Len(l) : l[j] = l[k] => j = k
  /\ \A k \in 1..Len(l) : l[k] \in S
  /\ \A i \in S : \E k \in 1..Len(l) : l[k] = i
  /\ h = IF Len(l) = 0 THEN Empty ELSE l[1]
  /\ \A k \in 1..Len(l) : nx[l[k]] = IF k < Len(l) THEN l[k + 1] ELSE Empty

\* Pool::try_next: the list without its head.
LEMMA PopList ==
  ASSUME NEW S \in SUBSET Buf, NEW l \in Seq(Buf), NEW h, NEW nx,
         IsList(l, h, S, nx), h # Empty
  PROVE  h \in S /\ Tail(l) \in Seq(Buf) /\ IsList(Tail(l), nx[h], S \ {h}, nx)
<1>1. Len(l) \in Nat \ {0} /\ h = l[1] /\ h \in S
  BY DEF IsList
<1> DEFINE t == Tail(l)
<1>2. t \in Seq(Buf) /\ Len(t) = Len(l) - 1 /\ \A k \in 1..Len(t) : t[k] = l[k + 1]
  BY <1>1
<1>3. \A k \in 1..Len(t) : k + 1 \in 1..Len(l)
  BY <1>1, <1>2
<1> HIDE DEF t
<1>4. \A j, k \in 1..Len(t) : t[j] = t[k] => j = k
  <2> SUFFICES ASSUME NEW j \in 1..Len(t), NEW k \in 1..Len(t), t[j] = t[k] PROVE j = k
    OBVIOUS
  <2>1. l[j + 1] = l[k + 1] BY <1>2
  <2>2. j + 1 = k + 1 BY <2>1, <1>3 DEF IsList
  <2> QED BY <1>1, <1>2, <2>2
<1>5. \A k \in 1..Len(t) : t[k] \in S \ {h}
  BY <1>1, <1>2, <1>3 DEF IsList
<1>6. \A i \in S \ {h} : \E k \in 1..Len(t) : t[k] = i
  <2> SUFFICES ASSUME NEW i \in S \ {h} PROVE \E k \in 1..Len(t) : t[k] = i
    OBVIOUS
  <2>1. PICK k \in 1..Len(l) : l[k] = i
    BY DEF IsList
  <2>2. k # 1 /\ k - 1 \in 1..Len(t) /\ (k - 1) + 1 = k
    BY <1>1, <1>2, <2>1
  <2> QED BY <2>1, <2>2, <1>2
<1>7. nx[h] = IF Len(t) = 0 THEN Empty ELSE t[1]
  BY <1>1, <1>2 DEF IsList
<1>8. \A k \in 1..Len(t) : nx[t[k]] = IF k < Len(t) THEN t[k + 1] ELSE Empty
  <2> SUFFICES ASSUME NEW k \in 1..Len(t)
               PROVE  nx[t[k]] = IF k < Len(t) THEN t[k + 1] ELSE Empty
    OBVIOUS
  <2>1. nx[t[k]] = IF k + 1 < Len(l) THEN l[(k + 1) + 1] ELSE Empty
    BY <1>2, <1>3 DEF IsList
  <2>2. CASE k < Len(t)
    <3>1. k + 1 \in 1..Len(t) /\ k + 1 < Len(l) BY <1>1, <1>2, <2>2
    <3> QED BY <2>1, <2>2, <3>1, <1>2
  <2>3. CASE ~(k < Len(t))
    BY <1>1, <1>2, <2>1, <2>3
  <2> QED BY <2>2, <2>3
<1>9. IsList(t, nx[h], S \ {h}, nx)
  BY <1>4, <1>5, <1>6, <1>7, <1>8 DEF IsList
<1> QED BY <1>1, <1>2, <1>9 DEF t

\* Pool::check_in and Pool::new: a buffer in front of the list.
LEMMA PushList ==
  ASSUME NEW S \in SUBSET Buf, NEW l \in Seq(Buf), NEW h, NEW nx, NEW i \in Buf \ S,
         NEW ny, IsList(l, h, S, nx), ny[i] = h, \A j \in S : ny[j] = nx[j]
  PROVE  <<i>> \o l \in Seq(Buf) /\ IsList(<<i>> \o l, i, S \cup {i}, ny)
<1> DEFINE m == <<i>> \o l
<1>1. m \in Seq(Buf) /\ Len(m) = Len(l) + 1 /\ m[1] = i /\ \A k \in 1..Len(l) : m[k + 1] = l[k]
  OBVIOUS
<1> HIDE DEF m
<1>2. \A k \in 1..Len(m) : k = 1 \/ (k - 1 \in 1..Len(l) /\ m[k] = l[k - 1])
  <2> SUFFICES ASSUME NEW k \in 1..Len(m), k # 1 PROVE k - 1 \in 1..Len(l) /\ m[k] = l[k - 1]
    OBVIOUS
  <2>1. k - 1 \in 1..Len(l) /\ (k - 1) + 1 = k
    BY <1>1
  <2> QED BY <2>1, <1>1
<1>3. \A k \in 1..Len(m) : m[k] \in S \cup {i}
  BY <1>1, <1>2 DEF IsList
<1>4. \A j, k \in 1..Len(m) : m[j] = m[k] => j = k
  <2> SUFFICES ASSUME NEW j \in 1..Len(m), NEW k \in 1..Len(m), m[j] = m[k] PROVE j = k
    OBVIOUS
  <2>0. \A q \in 1..Len(m) : q # 1 => m[q] # i
    BY <1>2 DEF IsList
  <2>1. CASE j = 1 \/ k = 1
    BY <2>0, <2>1, <1>1
  <2>2. CASE j # 1 /\ k # 1
    <3>1. l[j - 1] = l[k - 1] /\ j - 1 \in 1..Len(l) /\ k - 1 \in 1..Len(l)
      BY <2>2, <1>2
    <3>2. j - 1 = k - 1 BY <3>1 DEF IsList
    <3> QED BY <1>1, <3>2
  <2> QED BY <2>1, <2>2
<1>5. \A j \in S \cup {i} : \E k \in 1..Len(m) : m[k] = j
  <2> SUFFICES ASSUME NEW j \in S PROVE \E k \in 1..Len(m) : m[k] = j
    BY <1>1
  <2>1. PICK k \in 1..Len(l) : l[k] = j
    BY DEF IsList
  <2>2. k + 1 \in 1..Len(m)
    BY <1>1
  <2> QED BY <2>1, <2>2, <1>1
<1>6. \A k \in 1..Len(m) : ny[m[k]] = IF k < Len(m) THEN m[k + 1] ELSE Empty
  <2> SUFFICES ASSUME NEW k \in 1..Len(m)
               PROVE  ny[m[k]] = IF k < Len(m) THEN m[k + 1] ELSE Empty
    OBVIOUS
  <2>1. CASE k = 1
    BY <2>1, <1>1 DEF IsList
  <2>2. CASE k # 1
    BY <2>2, <1>1, <1>2 DEF IsList
  <2> QED BY <2>1, <2>2
<1>7. IsList(m, i, S \cup {i}, ny)
  BY <1>1, <1>3, <1>4, <1>5, <1>6 DEF IsList
<1> QED BY <1>1, <1>7 DEF m

\* A list does not depend on the links of other buffers.
LEMMA FrameList ==
  ASSUME NEW S, NEW l, NEW h, NEW nx, NEW ny, IsList(l, h, S, nx), \A j \in S : ny[j] = nx[j]
  PROVE  IsList(l, h, S, ny)
  BY DEF IsList

-----------------------------------------------------------------------------
(* The inductive invariant.                                                *)

FreeOf(c) == {i \in OfCap(c) : bufState[i] = "Free"}

PoolType ==
  /\ bufState \in [Buf -> {"Free", "CheckedOut"}]
  /\ nextFree \in [Buf -> Buf \cup {Empty}]
  /\ head \in [Caps -> Buf \cup {Empty}]
  /\ held \in [Tasks -> SUBSET Buf]

\* The free buffers of each capacity, and no others, are on its list.
ListInv == \A c \in Caps : \E l \in Seq(Buf) : IsList(l, head[c], FreeOf(c), nextFree)

\* A buffer is held by somebody iff it is checked out, and by one task only.
OwnInv ==
  /\ \A i \in Buf : bufState[i] = "CheckedOut" <=> \E t \in Tasks : i \in held[t]
  /\ \A t, u \in Tasks : t # u => held[t] \cap held[u] = {}

PoolInv == PoolType /\ ListInv /\ OwnInv

\* Pool::new builds the lists buffer by buffer: the list of the buffers of
\* capacity c below n.
LEMMA NewLists ==
  ASSUME NEW c \in Caps, NEW n \in Nat
  PROVE  LET S == {i \in Buf : i < n /\ Cap[i] = c} IN
         \E l \in Seq(Buf) : IsList(l, Highest(S), S, [i \in Buf |-> Highest(Below(i))])
<1> DEFINE Low(m) == {i \in Buf : i < m /\ Cap[i] = c}
           nx == [i \in Buf |-> Highest(Below(i))]
           Good == {m \in Nat : \E l \in Seq(Buf) : IsList(l, Highest(Low(m)), Low(m), nx)}
<1>0. Buf \subseteq Nat
  BY PoolAssumption, FS_CardinalityType
<1>1. 0 \in Good
  <2>1. Low(0) = {}
    <3>1. \A i \in Buf : ~(i < 0) BY <1>0
    <3> QED BY <3>1
  <2>2. Highest({}) = Empty BY DEF Highest
  <2>3. <<>> \in Seq(Buf) /\ IsList(<<>>, Empty, {}, nx) BY DEF IsList
  <2> QED BY <2>1, <2>2, <2>3
<1>2. ASSUME NEW m \in Nat, m \in Good PROVE m + 1 \in Good
  <2>1. PICK l \in Seq(Buf) : IsList(l, Highest(Low(m)), Low(m), nx)
    BY <1>2
  <2>4. m + 1 \in Nat /\ ~(m < m) /\ \A i \in Buf : i < m + 1 <=> (i < m \/ i = m)
    BY <1>0
  <2>2. CASE m \in Buf /\ Cap[m] = c
    <3>1. Low(m + 1) = Low(m) \cup {m} /\ m \notin Low(m)
      BY <2>2, <2>4
    <3>2. Highest(Low(m + 1)) = m
      <4> DEFINE T == Low(m + 1)
      <4>1. m \in T /\ \A j \in T : j <= m /\ j \in Nat
        BY <1>0, <2>2
      <4> HIDE DEF T
      <4>2. \A i \in T : (\A j \in T : j <= i) => i = m
        BY <4>1
      <4>3. (CHOOSE i \in T : \A j \in T : j <= i) = m
        BY <4>1, <4>2
      <4>4. Highest(T) = m
        BY <4>1, <4>3 DEF Highest
      <4> QED BY <4>4 DEF T
    <3>3. nx[m] = Highest(Low(m))
      <4>1. Below(m) = Low(m)
        BY <2>2 DEF Below
      <4> QED BY <2>2, <4>1
    <3> HIDE DEF nx
    <3>4. /\ <<m>> \o l \in Seq(Buf)
          /\ IsList(<<m>> \o l, m, Low(m) \cup {m}, nx)
      <4>1. Low(m) \in SUBSET Buf /\ m \in Buf \ Low(m)
        BY <2>2, <3>1
      <4> QED BY <2>1, <3>3, <4>1, PushList
    <3> QED BY <2>4, <3>1, <3>2, <3>4
  <2>3. CASE ~(m \in Buf /\ Cap[m] = c)
    <3>1. Low(m + 1) = Low(m)
      BY <2>3, <2>4
    <3> QED BY <2>1, <2>4, <3>1
  <2> QED BY <2>2, <2>3
<1>3. n \in Good
  <2> HIDE DEF Good
  <2> QED BY <1>1, <1>2, NatSetInduction
<1> QED BY <1>3

LEMMA InitPool == PoolInit => PoolInv
<1> SUFFICES ASSUME PoolInit PROVE PoolInv
  OBVIOUS
<1>0. Buf \subseteq Nat /\ Cardinality(Buf) \in Nat /\ \A i \in Buf : i < Cardinality(Buf)
  BY PoolAssumption, FS_CardinalityType
<1> DEFINE nx == [i \in Buf |-> Highest(Below(i))]
<1>1. ASSUME NEW c \in Caps PROVE \E l \in Seq(Buf) : IsList(l, head[c], FreeOf(c), nextFree)
  <2> DEFINE S == {i \in Buf : i < Cardinality(Buf) /\ Cap[i] = c}
  <2>1. PICK l \in Seq(Buf) : IsList(l, Highest(S), S, nx)
    BY <1>0, NewLists
  <2>2. S = OfCap(c) /\ FreeOf(c) = S
    BY <1>0 DEF PoolInit, OfCap, FreeOf
  <2>3. head[c] = Highest(S) /\ nextFree = nx
    BY <2>2 DEF PoolInit
  <2> QED BY <2>1, <2>2, <2>3
<1>2. ASSUME NEW c \in Caps PROVE head[c] \in Buf \cup {Empty}
  <2>1. PICK l \in Seq(Buf) : IsList(l, head[c], FreeOf(c), nextFree)
    BY <1>1
  <2> QED BY <2>1 DEF IsList
<1>3. ASSUME NEW i \in Buf PROVE Highest(Below(i)) \in Buf \cup {Empty}
  <2>1. i \in Nat /\ Cap[i] \in Caps
    BY <1>0, PoolAssumption
  <2>2. Below(i) = {j \in Buf : j < i /\ Cap[j] = Cap[i]}
    BY DEF Below
  <2>3. PICK l \in Seq(Buf) : IsList(l, Highest(Below(i)), Below(i), nx)
    BY <2>1, <2>2, NewLists
  <2> QED BY <2>3 DEF IsList
<1>4. PoolType
  BY <1>2, <1>3 DEF PoolInit, PoolType
<1>5. OwnInv
  BY DEF PoolInit, OwnInv
<1> QED BY <1>1, <1>4, <1>5 DEF PoolInv, ListInv

\* Pool::try_next takes the head of its list, and touches no other.
LEMMA CheckOutPool ==
  ASSUME PoolInv, NEW t \in Tasks, NEW c \in Caps, PoolCheckOut(t, c)
  PROVE  /\ PoolInv'
         /\ head[c] \in FreeOf(c) /\ FreeOf(c)' = FreeOf(c) \ {head[c]}
         /\ \A d \in Caps \ {c} : FreeOf(d)' = FreeOf(d) /\ head'[d] = head[d]
<1> DEFINE h == head[c]
<1>1. PICK l \in Seq(Buf) : IsList(l, h, FreeOf(c), nextFree)
  BY DEF PoolInv, ListInv
<1>2. FreeOf(c) \in SUBSET Buf /\ h # Empty
  BY DEF FreeOf, OfCap, PoolCheckOut
<1>3. h \in FreeOf(c) /\ Tail(l) \in Seq(Buf) /\ IsList(Tail(l), nextFree[h], FreeOf(c) \ {h}, nextFree)
  BY <1>1, <1>2, PopList
<1>4. h \in Buf /\ Cap[h] = c /\ bufState[h] = "Free"
  BY <1>3 DEF FreeOf, OfCap
<1>5. \A d \in Caps : FreeOf(d)' = FreeOf(d) \ {h}
  BY <1>4 DEF PoolCheckOut, FreeOf, OfCap, PoolInv, PoolType
<1>6. \A d \in Caps \ {c} : h \notin FreeOf(d) /\ head'[d] = head[d]
  BY <1>4 DEF PoolCheckOut, FreeOf, OfCap, PoolInv, PoolType
<1>7. head'[c] = nextFree[h] /\ nextFree' = nextFree
  BY DEF PoolCheckOut, PoolInv, PoolType
<1>8. PoolType'
  BY <1>4 DEF PoolCheckOut, PoolInv, PoolType
<1>9. ListInv'
  <2> SUFFICES ASSUME NEW d \in Caps
               PROVE  \E m \in Seq(Buf) : IsList(m, head'[d], FreeOf(d)', nextFree')
    BY DEF ListInv, IsList
  <2>1. CASE d = c
    BY <2>1, <1>3, <1>5, <1>7
  <2>2. CASE d # c
    <3>1. PICK m \in Seq(Buf) : IsList(m, head[d], FreeOf(d), nextFree)
      BY DEF PoolInv, ListInv
    <3>2. FreeOf(d)' = FreeOf(d) /\ head'[d] = head[d]
      BY <2>2, <1>5, <1>6
    <3> QED BY <3>1, <3>2, <1>7
  <2> QED BY <2>1, <2>2
<1>10. OwnInv'
  <2>1. \A u \in Tasks : h \notin held[u]
    BY <1>4 DEF PoolInv, OwnInv
  <2>2. bufState' = [bufState EXCEPT ![h] = "CheckedOut"] /\ held' = [held EXCEPT ![t] = @ \cup {h}]
    BY DEF PoolCheckOut
  <2> QED BY <2>1, <2>2, <1>4 DEF PoolInv, PoolType, OwnInv
<1> QED BY <1>3, <1>5, <1>6, <1>8, <1>9, <1>10 DEF PoolInv

\* Pool::check_in puts the buffer in front of the list of its capacity.
LEMMA CheckInPool ==
  ASSUME PoolInv, NEW t \in Tasks, NEW i \in Buf, CheckIn(t, i)
  PROVE  /\ PoolInv' /\ Cap[i] \in Caps
         /\ i \notin FreeOf(Cap[i]) /\ FreeOf(Cap[i])' = FreeOf(Cap[i]) \cup {i}
         /\ \A d \in Caps \ {Cap[i]} : FreeOf(d)' = FreeOf(d) /\ head'[d] = head[d]
<1> DEFINE c == Cap[i]
<1>1. c \in Caps /\ i \in held[t] /\ bufState[i] = "CheckedOut"
  BY PoolAssumption DEF CheckIn, PoolInv, OwnInv
<1>2. /\ bufState' = [bufState EXCEPT ![i] = "Free"]
      /\ nextFree' = [nextFree EXCEPT ![i] = head[c]]
      /\ head' = [head EXCEPT ![c] = i]
      /\ held' = [held EXCEPT ![t] = @ \ {i}]
  BY DEF CheckIn
<1>3. \A d \in Caps : i \notin FreeOf(d)
  BY <1>1 DEF FreeOf
<1>4. FreeOf(c)' = FreeOf(c) \cup {i} /\ \A d \in Caps \ {c} : FreeOf(d)' = FreeOf(d)
  BY <1>1, <1>2 DEF FreeOf, OfCap, PoolInv, PoolType
<1>5. PoolType'
  BY <1>1, <1>2 DEF PoolInv, PoolType
<1>6. ListInv'
  <2> SUFFICES ASSUME NEW d \in Caps
               PROVE  \E m \in Seq(Buf) : IsList(m, head'[d], FreeOf(d)', nextFree')
    BY DEF ListInv, IsList
  <2>1. PICK m \in Seq(Buf) : IsList(m, head[d], FreeOf(d), nextFree)
    BY DEF PoolInv, ListInv
  <2>2. FreeOf(d) \in SUBSET Buf /\ i \in Buf \ FreeOf(d)
    BY <1>3 DEF FreeOf, OfCap
  <2>3. nextFree'[i] = head[c] /\ \A j \in FreeOf(d) : nextFree'[j] = nextFree[j]
    BY <1>2, <2>2 DEF PoolInv, PoolType
  <2>4. CASE d = c
    <3>1. <<i>> \o m \in Seq(Buf) /\ IsList(<<i>> \o m, i, FreeOf(d) \cup {i}, nextFree')
      BY <2>1, <2>2, <2>3, <2>4, PushList
    <3>2. head'[d] = i
      BY <1>2, <2>4 DEF PoolInv, PoolType
    <3> QED BY <2>4, <3>1, <3>2, <1>4
  <2>5. CASE d # c
    <3>1. IsList(m, head[d], FreeOf(d), nextFree')
      BY <2>1, <2>3, FrameList
    <3>2. head'[d] = head[d]
      BY <1>2, <2>5 DEF PoolInv, PoolType
    <3> QED BY <2>5, <3>1, <3>2, <1>4
  <2> QED BY <2>4, <2>5
<1>7. OwnInv'
  BY <1>1, <1>2 DEF PoolInv, PoolType, OwnInv
<1>8. \A d \in Caps \ {c} : head'[d] = head[d]
  BY <1>2 DEF PoolInv, PoolType
<1> QED BY <1>1, <1>3, <1>4, <1>5, <1>6, <1>7, <1>8 DEF PoolInv

\* OneOwner counts owners; at most one is at most one.
LEMMA OwnersCounted == PoolInv => OneOwner
<1> SUFFICES ASSUME PoolInv, NEW i \in Buf
             PROVE  Cardinality({t \in Tasks : i \in held[t]}) =
                      (IF bufState[i] = "CheckedOut" THEN 1 ELSE 0)
  BY DEF OneOwner
<1> DEFINE H == {t \in Tasks : i \in held[t]}
<1>1. CASE bufState[i] = "CheckedOut"
  <2>1. PICK t \in Tasks : i \in held[t]
    BY <1>1 DEF PoolInv, OwnInv
  <2>2. H = {t}
    BY <2>1 DEF PoolInv, OwnInv
  <2>3. Cardinality({t}) = 1
    BY FS_Singleton
  <2> QED BY <1>1, <2>2, <2>3
<1>2. CASE bufState[i] # "CheckedOut"
  <2>1. H = {}
    BY <1>2 DEF PoolInv, OwnInv
  <2> QED BY <1>2, <2>1, FS_EmptySet
<1> QED BY <1>1, <1>2

\* Following the links from the head meets exactly the buffers of the list.
LEMMA ReachedFree == ASSUME PoolInv, NEW c \in Caps PROVE Reached(c) = FreeOf(c)
<1> DEFINE N == Cardinality(Buf)
           Step(f, n) == IF n = 0 THEN {head[c]} \ {Empty}
                         ELSE f[n - 1] \cup ({nextFree[i] : i \in f[n - 1]} \ {Empty})
           upTo == CHOOSE f : f = [n \in 0..N |-> Step(f, n)]
<1>0. N \in Nat /\ IsFiniteSet(Buf) /\ Empty \notin Buf
  BY PoolAssumption, FS_CardinalityType
<1>1. PICK l \in Seq(Buf) : IsList(l, head[c], FreeOf(c), nextFree)
  BY DEF PoolInv, ListInv
<1>2. Len(l) <= N
  <2>1. l \in Injection(1..Len(l), Buf)
    BY <1>1 DEF IsList, Injection, IsInjective
  <2>2. Cardinality(1..Len(l)) <= Cardinality(Buf)
    BY <1>0, <2>1, FS_Injection
  <2> QED BY <1>0, <2>2, FS_Interval
<1> DEFINE First(n) == {l[k] : k \in {j \in 1..Len(l) : j <= n + 1}}
           g == [n \in 0..N |-> First(n)]
<1>3. First(0) = {head[c]} \ {Empty}
  BY <1>0, <1>1 DEF IsList
<1>4. ASSUME NEW n \in 0..N, n # 0
      PROVE  First(n) = First(n - 1) \cup ({nextFree[i] : i \in First(n - 1)} \ {Empty})
  <2>0. n \in Nat /\ n - 1 \in Nat /\ (n - 1) + 1 = n
    BY <1>0, <1>4
  <2>1. ASSUME NEW i \in First(n), i \notin First(n - 1)
        PROVE  i # Empty /\ \E j \in First(n - 1) : i = nextFree[j]
    <3>1. PICK k \in 1..Len(l) : k <= n + 1 /\ l[k] = i
      BY <2>1
    <3>2. k = n + 1
      BY <2>0, <2>1, <3>1
    <3>3. n \in 1..Len(l) /\ n < Len(l) /\ l[n] \in First(n - 1)
      BY <2>0, <1>4, <3>1, <3>2
    <3>4. nextFree[l[n]] = l[n + 1]
      BY <1>1, <3>3 DEF IsList
    <3> QED BY <1>0, <3>1, <3>2, <3>3, <3>4
  <2>2. First(n - 1) \subseteq First(n)
    BY <2>0
  <2>3. ASSUME NEW j \in First(n - 1), nextFree[j] # Empty PROVE nextFree[j] \in First(n)
    <3>1. PICK k \in 1..Len(l) : k <= n /\ l[k] = j
      BY <2>0
    <3>2. nextFree[l[k]] = IF k < Len(l) THEN l[k + 1] ELSE Empty
      BY <1>1 DEF IsList
    <3>3. k + 1 \in 1..Len(l) /\ k + 1 <= n + 1 /\ nextFree[j] = l[k + 1]
      BY <2>0, <2>3, <3>1, <3>2
    <3> QED BY <3>3
  <2> HIDE DEF First
  <2> QED BY <2>1, <2>2, <2>3
<1>5. g = [n \in 0..N |-> Step(g, n)]
  <2> SUFFICES ASSUME NEW n \in 0..N PROVE First(n) = Step(g, n)
    OBVIOUS
  <2>1. CASE n = 0 BY <2>1, <1>3
  <2>2. CASE n # 0
    <3>1. n - 1 \in 0..N BY <1>0, <2>2
    <3>2. g[n - 1] = First(n - 1) BY <3>1
    <3> HIDE DEF g, First
    <3> QED BY <2>2, <3>2, <1>4
  <2> QED BY <2>1, <2>2
<1>6. upTo = [n \in 0..N |-> Step(upTo, n)]
  <2> HIDE DEF g, Step, N
  <2> QED BY <1>5
<1> HIDE DEF upTo
<1>7. upTo[N] = First(N)
  <2> DEFINE Same == {n \in Nat : n \in 0..N => upTo[n] = First(n)}
  <2>1. 0 \in Same
    BY <1>0, <1>3, <1>6
  <2>2. ASSUME NEW n \in Nat, n \in Same PROVE n + 1 \in Same
    <3> SUFFICES ASSUME n + 1 \in 0..N PROVE upTo[n + 1] = First(n + 1)
      BY <2>2
    <3>1. n \in 0..N /\ n + 1 # 0 /\ (n + 1) - 1 = n
      BY <1>0
    <3>2. upTo[n] = First(n)
      BY <2>2, <3>1
    <3> HIDE DEF First
    <3>3. upTo[n + 1] = First(n) \cup ({nextFree[i] : i \in First(n)} \ {Empty})
      BY <1>6, <3>1, <3>2
    <3> QED BY <1>4, <3>1, <3>3
  <2>3. N \in Same
    <3> HIDE DEF Same
    <3> QED BY <1>0, <2>1, <2>2, NatSetInduction
  <2> QED BY <1>0, <2>3
<1>8. First(N) = FreeOf(c)
  <2>1. \A k \in 1..Len(l) : k <= N + 1
    BY <1>0, <1>2
  <2> QED BY <1>1, <2>1 DEF IsList
<1>9. Reached(c) = upTo[N]
  BY DEF Reached, upTo
<1> QED BY <1>7, <1>8, <1>9

-----------------------------------------------------------------------------
(* Waiting for a buffer.                                                   *)

QueueType ==
  /\ notify \in [Caps -> BOOLEAN]
  /\ permit \in [Caps -> BOOLEAN]
  /\ waiters \in [Caps -> Seq(Tasks)]
  /\ pc \in [Tasks -> PC]
  /\ want \in [Tasks -> Caps \cup {Empty}]

\* The tasks in a queue wait for its capacity, each once.
Queued ==
  \A c \in Caps : \A j \in 1..Len(waiters[c]) :
    /\ pc[waiters[c][j]] = "waiting" /\ want[waiters[c][j]] = c
    /\ \A k \in 1..Len(waiters[c]) : waiters[c][j] = waiters[c][k] => j = k

\* Who waits is in the queue of the capacity it asked for.
Waits ==
  \A t \in Tasks :
    /\ pc[t] # "idle" => want[t] \in Caps
    /\ pc[t] \notin {"idle", "missed"} => notify[want[t]]
    /\ pc[t] = "waiting" => \E j \in 1..Len(waiters[want[t]]) : waiters[want[t]][j] = t

QueueInv == QueueType /\ Queued /\ Waits

\* On one thread a poll of next() is alone, and no buffer comes free during it.
PollInv ==
  SingleThread => \A t \in Tasks : pc[t] \in MidPoll =>
    /\ head[want[t]] = Empty
    /\ \A u \in Tasks : pc[u] \in MidPoll => u = t

\* The tasks on their way to a buffer of capacity c.
Woken(c) == {t \in Tasks : pc[t] \in {"notified", "passed"} /\ want[t] = c}

\* On one thread, a queue with waiters has a notified task for every free buffer.
CountInv ==
  SingleThread => \A c \in Caps :
    waiters[c] # <<>> => Cardinality(FreeOf(c)) <= Cardinality(Woken(c))

IInv == PoolInv /\ QueueInv /\ PollInv /\ CountInv

LEMMA InitInv == PoolInit => IInv
<1> SUFFICES ASSUME PoolInit PROVE IInv
  OBVIOUS
<1>1. QueueInv
  BY DEF PoolInit, QueueInv, QueueType, Queued, Waits, PC
<1>2. PollInv /\ CountInv
  BY DEF PoolInit, PollInv, MidPoll, CountInv
<1> QED BY InitPool, <1>1, <1>2 DEF IInv

\* Notify::notify_one takes the first task from the queue, if there is one.  `at`
\* may differ from pc at tasks that leave next().
LEMMA NotifyOneQueue ==
  ASSUME QueueInv, NEW c \in Caps, NEW at \in [Tasks -> PC], NotifyOne(c, at),
         want' \in [Tasks -> Caps \cup {Empty}], notify' = notify, notify[c],
         \A u \in Tasks : \/ at[u] = pc[u] /\ want'[u] = want[u]
                          \/ pc[u] # "waiting" /\ at[u] = "idle"
  PROVE  /\ QueueInv'
         /\ \A d \in Caps : waiters[d] = <<>> => waiters'[d] = <<>>
         /\ \/ waiters'[c] = <<>> /\ pc' = at
            \/ \E w \in Tasks : /\ pc[w] = "waiting" /\ want[w] = c /\ want'[w] = c
                                /\ pc' = [at EXCEPT ![w] = "notified"]
<1> USE DEF QueueInv, QueueType
<1>1. CASE waiters[c] = <<>>
  <2>1. /\ permit' = [permit EXCEPT ![c] = TRUE] /\ pc' = at /\ waiters' = waiters
    BY <1>1 DEF NotifyOne
  <2>2. QueueType' BY <2>1
  <2>3. Queued' BY <2>1 DEF Queued
  <2>4. Waits' BY <2>1 DEF Waits
  <2> QED BY <1>1, <2>1, <2>2, <2>3, <2>4
<1>2. CASE waiters[c] # <<>>
  <2> DEFINE s == waiters[c]
             w == Head(s)
  <2>1. s \in Seq(Tasks) /\ Len(s) \in Nat \ {0} /\ w = s[1] /\ w \in Tasks /\ 1 \in 1..Len(s)
    BY <1>2
  <2>2. /\ waiters' = [waiters EXCEPT ![c] = Tail(s)]
        /\ pc' = [at EXCEPT ![w] = "notified"] /\ permit' = permit
    BY <1>2 DEF NotifyOne
  <2>3. /\ Tail(s) \in Seq(Tasks) /\ Len(Tail(s)) = Len(s) - 1
        /\ \A k \in 1..Len(Tail(s)) : Tail(s)[k] = s[k + 1] /\ k + 1 \in 1..Len(s)
    BY <2>1
  <2>4. pc[w] = "waiting" /\ want[w] = c /\ at[w] = pc[w] /\ want'[w] = c
    BY <2>1 DEF Queued
  <2> HIDE DEF w
  <2>5. QueueType'
    BY <2>1, <2>2, <2>3 DEF PC
  <2>6. Queued'
    <3> SUFFICES ASSUME NEW d \in Caps, NEW j \in 1..Len(waiters'[d])
                 PROVE  /\ pc'[waiters'[d][j]] = "waiting" /\ want'[waiters'[d][j]] = d
                        /\ \A k \in 1..Len(waiters'[d]) : waiters'[d][j] = waiters'[d][k] => j = k
      BY DEF Queued
    <3>1. CASE d = c
      <4>1. waiters'[d] = Tail(s) BY <2>2, <3>1
      <4> DEFINE u == s[j + 1]
      <4>2. j + 1 \in 1..Len(s) /\ waiters'[d][j] = u /\ u \in Tasks
        BY <2>1, <2>3, <4>1
      <4>3. u # w
        <5>1. j + 1 # 1 BY <2>1, <2>3, <4>1
        <5> QED BY <2>1, <4>2, <5>1 DEF Queued
      <4>4. pc[u] = "waiting" /\ want[u] = c
        BY <4>2 DEF Queued
      <4>5. pc'[u] = "waiting" /\ want'[u] = c
        BY <2>2, <4>2, <4>3, <4>4
      <4>6. ASSUME NEW k \in 1..Len(waiters'[d]), waiters'[d][j] = waiters'[d][k] PROVE j = k
        <5>1. s[j + 1] = s[k + 1] /\ k + 1 \in 1..Len(s)
          BY <2>3, <4>1, <4>6
        <5>2. j + 1 = k + 1 BY <4>2, <5>1 DEF Queued
        <5> QED BY <2>1, <2>3, <4>1, <5>2
      <4> QED BY <3>1, <4>2, <4>5, <4>6
    <3>2. CASE d # c
      <4>1. waiters'[d] = waiters[d] BY <2>2, <3>2
      <4> DEFINE u == waiters[d][j]
      <4>2. u \in Tasks /\ pc[u] = "waiting" /\ want[u] = d
        BY <4>1 DEF Queued
      <4>3. u # w BY <2>4, <3>2, <4>2
      <4>4. pc'[u] = "waiting" /\ want'[u] = d
        BY <2>2, <4>2, <4>3
      <4> QED BY <4>1, <4>4 DEF Queued
    <3> QED BY <3>1, <3>2
  <2>7. Waits'
    <3> SUFFICES ASSUME NEW u \in Tasks
                 PROVE  /\ pc'[u] # "idle" => want'[u] \in Caps
                        /\ pc'[u] \notin {"idle", "missed"} => notify[want'[u]]
                        /\ pc'[u] = "waiting" =>
                             \E j \in 1..Len(waiters'[want'[u]]) : waiters'[want'[u]][j] = u
      BY DEF Waits
    <3>1. CASE u = w
      BY <2>1, <2>2, <2>4, <3>1
    <3>2. CASE u # w
      <4>1. pc'[u] = at[u] BY <2>2, <3>2
      <4>2. at[u] = "idle" \/ (at[u] = pc[u] /\ want'[u] = want[u])
        OBVIOUS
      <4>3. ASSUME pc[u] = "waiting", want'[u] = want[u]
            PROVE  \E j \in 1..Len(waiters'[want'[u]]) : waiters'[want'[u]][j] = u
        <5>1. want[u] \in Caps BY <4>3 DEF Waits
        <5>2. PICK j \in 1..Len(waiters[want[u]]) : waiters[want[u]][j] = u
          BY <4>3 DEF Waits
        <5>3. CASE want[u] = c
          <6>1. j # 1 /\ j - 1 \in 1..Len(Tail(s)) /\ (j - 1) + 1 = j
            BY <2>1, <2>3, <3>2, <5>2, <5>3
          <6>2. Tail(s)[j - 1] = u
            BY <2>3, <5>2, <5>3, <6>1
          <6> QED BY <2>2, <4>3, <5>3, <6>1, <6>2
        <5>4. CASE want[u] # c
          BY <2>2, <4>3, <5>1, <5>2, <5>4
        <5> QED BY <5>3, <5>4
      <4> QED BY <4>1, <4>2, <4>3 DEF Waits
    <3> QED BY <3>1, <3>2
  <2>8. \A d \in Caps : waiters[d] = <<>> => waiters'[d] = <<>>
    BY <1>2, <2>2
  <2> QED BY <2>1, <2>2, <2>4, <2>5, <2>6, <2>7, <2>8
<1> QED BY <1>1, <1>2

\* Drop for a Notified that waits: it leaves its place in the queue.
LEMMA LeaveQueue ==
  ASSUME QueueInv, NEW t \in Tasks, pc[t] = "waiting",
         NEW i \in DOMAIN waiters[want[t]], waiters[want[t]][i] = t,
         waiters' = [waiters EXCEPT ![want[t]] = RemoveAt(@, i)],
         pc' = [pc EXCEPT ![t] = "idle"], want' = [want EXCEPT ![t] = Empty],
         UNCHANGED <<notify, permit>>
  PROVE  QueueInv' /\ \A d \in Caps : waiters[d] = <<>> => waiters'[d] = <<>>
<1> USE DEF QueueInv, QueueType
<1> DEFINE c == want[t]
           s == waiters[c]
           r == RemoveAt(s, i)
<1>1. c \in Caps /\ s \in Seq(Tasks) /\ i \in 1..Len(s)
  BY DEF Waits
<1>2. /\ r \in Seq(Tasks) /\ Len(r) = Len(s) - 1
      /\ \A k \in 1..Len(r) : r[k] = IF k < i THEN s[k] ELSE s[k + 1]
  <2> DEFINE a == SubSeq(s, 1, i - 1)
             b == SubSeq(s, i + 1, Len(s))
  <2>1. a \in Seq(Tasks) /\ Len(a) = i - 1 /\ \A k \in 1..Len(a) : a[k] = s[k]
    BY <1>1
  <2>2. b \in Seq(Tasks) /\ Len(b) = Len(s) - i /\ \A k \in 1..Len(b) : b[k] = s[i + k]
    BY <1>1
  <2>3. r = a \o b
    BY DEF RemoveAt
  <2> HIDE DEF a, b, r
  <2>4. r \in Seq(Tasks) /\ Len(r) = Len(s) - 1
    BY <1>1, <2>1, <2>2, <2>3
  <2>5. ASSUME NEW k \in 1..Len(r) PROVE r[k] = IF k < i THEN s[k] ELSE s[k + 1]
    <3>1. CASE k < i
      BY <1>1, <2>1, <2>2, <2>3, <3>1
    <3>2. CASE k >= i
      <4>1. r[k] = b[k - Len(a)] /\ k - Len(a) \in 1..Len(b) /\ i + (k - Len(a)) = k + 1
        BY <1>1, <2>1, <2>2, <2>3, <2>4, <3>2
      <4>2. r[k] = s[i + (k - Len(a))]
        BY <2>2, <4>1
      <4> QED BY <1>1, <3>2, <4>1, <4>2
    <3> QED BY <1>1, <2>4, <3>1, <3>2
  <2> QED BY <2>4, <2>5
<1>3. waiters' = [waiters EXCEPT ![c] = r]
  OBVIOUS
<1> HIDE DEF r
<1>4. \A k \in 1..Len(r) : \E m \in 1..Len(s) : r[k] = s[m] /\ m # i /\ m = (IF k < i THEN k ELSE k + 1)
  BY <1>1, <1>2
<1>5. QueueType'
  BY <1>1, <1>2, <1>3 DEF PC
<1>6. Queued'
  <2> SUFFICES ASSUME NEW d \in Caps, NEW j \in 1..Len(waiters'[d])
               PROVE  /\ pc'[waiters'[d][j]] = "waiting" /\ want'[waiters'[d][j]] = d
                      /\ \A k \in 1..Len(waiters'[d]) : waiters'[d][j] = waiters'[d][k] => j = k
    BY DEF Queued
  <2>1. CASE d = c
    <3>1. waiters'[d] = r BY <1>1, <1>3, <2>1
    <3>2. PICK m \in 1..Len(s) : r[j] = s[m] /\ m # i /\ m = (IF j < i THEN j ELSE j + 1)
      BY <1>4, <3>1
    <3>3. s[m] \in Tasks /\ pc[s[m]] = "waiting" /\ want[s[m]] = c /\ s[m] # t
      BY <1>1, <3>2 DEF Queued
    <3>4. pc'[s[m]] = "waiting" /\ want'[s[m]] = d
      BY <2>1, <3>3
    <3>5. ASSUME NEW k \in 1..Len(waiters'[d]), waiters'[d][j] = waiters'[d][k] PROVE j = k
      <4>1. PICK n \in 1..Len(s) : r[k] = s[n] /\ n # i /\ n = (IF k < i THEN k ELSE k + 1)
        BY <1>4, <3>1
      <4>2. m = n BY <1>1, <3>1, <3>2, <3>5, <4>1 DEF Queued
      <4> QED BY <1>1, <1>2, <3>1, <3>2, <4>1, <4>2
    <3> QED BY <3>1, <3>2, <3>4, <3>5
  <2>2. CASE d # c
    <3>1. waiters'[d] = waiters[d] BY <1>3, <2>2
    <3> DEFINE u == waiters[d][j]
    <3>2. u \in Tasks /\ pc[u] = "waiting" /\ want[u] = d /\ u # t
      BY <2>2, <3>1 DEF Queued
    <3> QED BY <3>1, <3>2 DEF Queued
  <2> QED BY <2>1, <2>2
<1>7. Waits'
  <2> SUFFICES ASSUME NEW u \in Tasks
               PROVE  /\ pc'[u] # "idle" => want'[u] \in Caps
                      /\ pc'[u] \notin {"idle", "missed"} => notify[want'[u]]
                      /\ pc'[u] = "waiting" =>
                           \E j \in 1..Len(waiters'[want'[u]]) : waiters'[want'[u]][j] = u
    BY DEF Waits
  <2>1. CASE u = t BY <2>1
  <2>2. CASE u # t
    <3>1. pc'[u] = pc[u] /\ want'[u] = want[u] BY <2>2
    <3>2. ASSUME pc[u] = "waiting"
          PROVE  \E j \in 1..Len(waiters'[want[u]]) : waiters'[want[u]][j] = u
      <4>1. PICK j \in 1..Len(waiters[want[u]]) : waiters[want[u]][j] = u
        BY <3>2 DEF Waits
      <4>2. CASE want[u] = c
        <5>1. waiters'[want[u]] = r BY <1>1, <1>3, <4>2
        <5>2. j # i BY <2>2, <4>1, <4>2
        <5>3. CASE j < i
          <6>1. j \in 1..Len(r) /\ r[j] = s[j] BY <1>1, <1>2, <4>1, <4>2, <5>3
          <6> QED BY <4>1, <4>2, <5>1, <6>1
        <5>4. CASE j > i
          <6>1. j - 1 \in 1..Len(r) /\ r[j - 1] = s[j] BY <1>1, <1>2, <4>1, <4>2, <5>4
          <6> QED BY <4>1, <4>2, <5>1, <6>1
        <5> QED BY <1>1, <4>2, <5>2, <5>3, <5>4
      <4>3. CASE want[u] # c
        <5>1. waiters'[want[u]] = waiters[want[u]]
          BY <1>3, <3>2, <4>3 DEF Waits
        <5> QED BY <4>1, <5>1
      <4> QED BY <4>2, <4>3
    <3> QED BY <3>1, <3>2 DEF Waits
  <2> QED BY <2>1, <2>2
<1>8. \A d \in Caps : waiters[d] = <<>> => waiters'[d] = <<>>
  BY <1>1, <1>3
<1> QED BY <1>5, <1>6, <1>7, <1>8

\* A Notified polled for the first time joins the queue.
LEMMA JoinQueue ==
  ASSUME QueueInv, NEW t \in Tasks, pc[t] = "armed",
         waiters' = [waiters EXCEPT ![want[t]] = Append(@, t)],
         pc' = [pc EXCEPT ![t] = "waiting"], UNCHANGED <<notify, permit, want>>
  PROVE  QueueInv'
<1> USE DEF QueueInv, QueueType
<1> DEFINE c == want[t]
           s == waiters[c]
           r == Append(s, t)
<1>1. c \in Caps /\ s \in Seq(Tasks) /\ notify[c]
  BY DEF Waits
<1>2. /\ r \in Seq(Tasks) /\ Len(r) = Len(s) + 1 /\ r[Len(r)] = t
      /\ \A k \in 1..Len(s) : r[k] = s[k]
  BY <1>1
<1>3. waiters' = [waiters EXCEPT ![c] = r]
  OBVIOUS
<1> HIDE DEF r
<1>4. \A k \in 1..Len(s) : s[k] # t
  BY <1>1 DEF Queued
<1>5. QueueType'
  BY <1>1, <1>2, <1>3 DEF PC
<1>6. Queued'
  <2> SUFFICES ASSUME NEW d \in Caps, NEW j \in 1..Len(waiters'[d])
               PROVE  /\ pc'[waiters'[d][j]] = "waiting" /\ want'[waiters'[d][j]] = d
                      /\ \A k \in 1..Len(waiters'[d]) : waiters'[d][j] = waiters'[d][k] => j = k
    BY DEF Queued
  <2>1. CASE d = c
    <3>1. waiters'[d] = r BY <1>1, <1>3, <2>1
    <3>2. \A k \in 1..Len(r) : k \in 1..Len(s) \/ k = Len(r)
      BY <1>1, <1>2
    <3>3. pc'[r[j]] = "waiting" /\ want'[r[j]] = d
      BY <1>1, <1>2, <1>4, <2>1, <3>1, <3>2 DEF Queued
    <3>4. ASSUME NEW k \in 1..Len(r), r[j] = r[k] PROVE j = k
      <4>0. \A q \in 1..Len(s) : r[q] # t
        BY <1>2, <1>4
      <4>1. CASE j = Len(r) \/ k = Len(r)
        <5>1. j \in 1..Len(r) /\ k \in 1..Len(r) /\ r[j] = t /\ r[k] = t
          BY <1>2, <3>1, <3>4, <4>1
        <5>2. j \notin 1..Len(s) /\ k \notin 1..Len(s)
          BY <4>0, <5>1
        <5> QED BY <3>2, <5>1, <5>2
      <4>2. CASE j \in 1..Len(s) /\ k \in 1..Len(s)
        <5>1. s[j] = s[k] BY <1>2, <3>4, <4>2
        <5> QED BY <1>1, <4>2, <5>1 DEF Queued
      <4> QED BY <3>1, <3>2, <4>1, <4>2
    <3> QED BY <3>1, <3>3, <3>4
  <2>2. CASE d # c
    <3>1. waiters'[d] = waiters[d] BY <1>3, <2>2
    <3> DEFINE u == waiters[d][j]
    <3>2. u \in Tasks /\ pc[u] = "waiting" /\ want[u] = d /\ u # t
      BY <2>2, <3>1 DEF Queued
    <3> QED BY <3>1, <3>2 DEF Queued
  <2> QED BY <2>1, <2>2
<1>7. Waits'
  <2> SUFFICES ASSUME NEW u \in Tasks
               PROVE  /\ pc'[u] # "idle" => want[u] \in Caps
                      /\ pc'[u] \notin {"idle", "missed"} => notify[want[u]]
                      /\ pc'[u] = "waiting" =>
                           \E j \in 1..Len(waiters'[want[u]]) : waiters'[want[u]][j] = u
    BY DEF Waits
  <2>1. CASE u = t
    <3>1. waiters'[want[u]] = r /\ Len(r) \in 1..Len(r) BY <1>1, <1>2, <1>3, <2>1
    <3> QED BY <1>1, <1>2, <2>1, <3>1
  <2>2. CASE u # t
    <3>1. pc'[u] = pc[u] BY <2>2
    <3>2. ASSUME pc[u] = "waiting"
          PROVE  \E j \in 1..Len(waiters'[want[u]]) : waiters'[want[u]][j] = u
      <4>1. PICK j \in 1..Len(waiters[want[u]]) : waiters[want[u]][j] = u
        BY <3>2 DEF Waits
      <4>2. CASE want[u] = c
        <5>1. waiters'[want[u]] = r /\ j \in 1..Len(r) /\ r[j] = u
          BY <1>1, <1>2, <1>3, <4>1, <4>2
        <5> QED BY <5>1
      <4>3. CASE want[u] # c
        <5>1. waiters'[want[u]] = waiters[want[u]]
          BY <1>3, <3>2, <4>3 DEF Waits
        <5> QED BY <4>1, <5>1
      <4> QED BY <4>2, <4>3
    <3> QED BY <3>1, <3>2 DEF Waits
  <2> QED BY <2>1, <2>2
<1> QED BY <1>5, <1>6, <1>7

-----------------------------------------------------------------------------
(* Counting free buffers and notified tasks.                               *)

\* The four ways the two numbers move.
LEMMA CountSame ==
  ASSUME NEW F, NEW W, NEW F1 \in SUBSET F, NEW W1, W \subseteq W1,
         IsFiniteSet(F), IsFiniteSet(W1), Cardinality(F) <= Cardinality(W)
  PROVE  Cardinality(F1) <= Cardinality(W1)
<1>1. Cardinality(F1) <= Cardinality(F) /\ IsFiniteSet(F1) /\ Cardinality(F) \in Nat
  BY FS_Subset, FS_CardinalityType
<1>2. Cardinality(W) <= Cardinality(W1) /\ IsFiniteSet(W) /\ Cardinality(W1) \in Nat
  BY FS_Subset, FS_CardinalityType
<1>3. Cardinality(F1) \in Nat /\ Cardinality(W) \in Nat
  BY <1>1, <1>2, FS_CardinalityType
<1> QED BY <1>1, <1>2, <1>3

LEMMA CountTaken ==
  ASSUME NEW F, NEW W, NEW x \in F, NEW y,
         IsFiniteSet(F), IsFiniteSet(W), Cardinality(F) <= Cardinality(W)
  PROVE  Cardinality(F \ {x}) <= Cardinality(W \ {y})
<1>0. Cardinality(F) \in Nat /\ Cardinality(W) \in Nat
  BY FS_CardinalityType
<1>1. Cardinality(F \ {x}) = Cardinality(F) - 1
  BY FS_RemoveElement
<1>2. Cardinality(W \ {y}) = IF y \in W THEN Cardinality(W) - 1 ELSE Cardinality(W)
  BY FS_RemoveElement
<1> QED BY <1>0, <1>1, <1>2

LEMMA CountGiven ==
  ASSUME NEW F, NEW W, NEW x, NEW y, y \notin W,
         IsFiniteSet(F), IsFiniteSet(W), Cardinality(F) <= Cardinality(W)
  PROVE  Cardinality(F \cup {x}) <= Cardinality(W \cup {y})
<1>0. Cardinality(F) \in Nat /\ Cardinality(W) \in Nat
  BY FS_CardinalityType
<1>1. Cardinality(F \cup {x}) = IF x \in F THEN Cardinality(F) ELSE Cardinality(F) + 1
  BY FS_AddElement
<1>2. Cardinality(W \cup {y}) = Cardinality(W) + 1
  BY FS_AddElement
<1> QED BY <1>0, <1>1, <1>2

LEMMA CountPassed ==
  ASSUME NEW F, NEW W, NEW x, NEW y, y \notin W,
         IsFiniteSet(F), IsFiniteSet(W), Cardinality(F) <= Cardinality(W)
  PROVE  Cardinality(F) <= Cardinality((W \ {x}) \cup {y})
<1>0. Cardinality(F) \in Nat /\ Cardinality(W) \in Nat
  BY FS_CardinalityType
<1>1. /\ IsFiniteSet(W \ {x})
      /\ Cardinality(W \ {x}) = IF x \in W THEN Cardinality(W) - 1 ELSE Cardinality(W)
  BY FS_RemoveElement
<1>2. Cardinality((W \ {x}) \cup {y}) = Cardinality(W \ {x}) + 1
  BY <1>1, FS_AddElement
<1> QED BY <1>0, <1>1, <1>2

\* The sets are finite, and the head tells whether a buffer is free.
LEMMA FreeFinite ==
  ASSUME PoolInv, NEW c \in Caps
  PROVE  /\ IsFiniteSet(FreeOf(c)) /\ IsFiniteSet(Woken(c)) /\ IsFiniteSet(Woken(c)')
         /\ head[c] = Empty <=> FreeOf(c) = {}
<1>1. IsFiniteSet(FreeOf(c))
  <2>1. FreeOf(c) \in SUBSET Buf BY DEF FreeOf, OfCap
  <2> QED BY <2>1, PoolAssumption, FS_Subset
<1>2. IsFiniteSet(Woken(c)) /\ IsFiniteSet(Woken(c)')
  <2>1. Woken(c) \in SUBSET Tasks /\ Woken(c)' \in SUBSET Tasks BY DEF Woken
  <2> QED BY <2>1, PoolAssumption, FS_Subset
<1>3. PICK l \in Seq(Buf) : IsList(l, head[c], FreeOf(c), nextFree)
  BY DEF PoolInv, ListInv
<1>4. head[c] = Empty <=> FreeOf(c) = {}
  BY <1>3, PoolAssumption DEF IsList
<1> QED BY <1>1, <1>2, <1>4

-----------------------------------------------------------------------------
(* Every step keeps the invariant.                                         *)

\* Nobody is in a poll, and nobody enters one.
LEMMA NoPoll ==
  ASSUME MayRun, \A u \in Tasks : pc'[u] \in MidPoll => pc[u] \in MidPoll
  PROVE  PollInv'
  BY DEF MayRun, PollInv

LEMMA StepTryNext == ASSUME IInv, NEW t \in Tasks, TryNext(t) PROVE IInv'
<1> USE DEF IInv
<1>1. PICK c \in Caps : PoolCheckOut(t, c)
  BY DEF TryNext
<1>2. UNCHANGED <<notify, permit, waiters, pc, want>> /\ MayRun
  BY DEF TryNext
<1>3. QueueInv'
  BY <1>2 DEF QueueInv, QueueType, Queued, Waits
<1>4. PollInv'
  BY <1>2, NoPoll
<1>5. CountInv'
  <2> SUFFICES ASSUME SingleThread, NEW d \in Caps, waiters'[d] # <<>>
               PROVE  Cardinality(FreeOf(d)') <= Cardinality(Woken(d)')
    BY DEF CountInv
  <2>1. Woken(d)' = Woken(d) BY <1>2 DEF Woken
  <2>2. FreeOf(d)' \subseteq FreeOf(d) BY <1>1, CheckOutPool
  <2>3. Cardinality(FreeOf(d)) <= Cardinality(Woken(d)) BY <1>2 DEF CountInv
  <2>4. IsFiniteSet(FreeOf(d)) /\ IsFiniteSet(Woken(d)) BY FreeFinite
  <2> QED BY <2>1, <2>2, <2>3, <2>4, CountSame
<1> QED BY <1>1, <1>3, <1>4, <1>5, CheckOutPool

\* The steps of next() that only move the task, and leave nobody more or less on
\* its way to a buffer that is free.
LEMMA StepMoves ==
  ASSUME IInv, NEW t \in Tasks, UNCHANGED pool, UNCHANGED held, waiters' = waiters, QueueInv',
         \A u \in Tasks \ {t} : pc'[u] = pc[u] /\ want'[u] = want[u],
         pc'[t] \in MidPoll /\ head[want'[t]] = Empty /\ want'[t] \in Caps,
         SingleThread => \A u \in Tasks \ {t} : pc[u] \notin MidPoll,
         t \in Woken(want'[t]) \/ \A c \in Caps : t \notin Woken(c)
  PROVE  IInv'
<1> USE DEF IInv
<1>1. PoolInv'
  BY DEF PoolInv, PoolType, ListInv, OwnInv, FreeOf, pool
<1>2. PollInv'
  BY DEF PollInv, pool
<1>3. CountInv'
  <2> SUFFICES ASSUME SingleThread, NEW d \in Caps, waiters'[d] # <<>>
               PROVE  Cardinality(FreeOf(d)') <= Cardinality(Woken(d)')
    BY DEF CountInv
  <2>1. FreeOf(d)' = FreeOf(d) BY DEF FreeOf, pool
  <2>2. IsFiniteSet(FreeOf(d)) /\ IsFiniteSet(Woken(d)) /\ IsFiniteSet(Woken(d)') BY FreeFinite
  <2>3. CASE d = want'[t]
    <3>1. FreeOf(d)' = {} BY <2>1, <2>3, FreeFinite
    <3>2. Cardinality(Woken(d)') \in Nat BY <2>2, FS_CardinalityType
    <3> QED BY <3>1, <3>2, FS_EmptySet
  <2>4. CASE d # want'[t]
    <3>1. Woken(d) \subseteq Woken(d)' BY <2>4 DEF Woken
    <3>2. Cardinality(FreeOf(d)) <= Cardinality(Woken(d)) BY DEF CountInv
    <3> QED BY <2>1, <2>2, <3>1, <3>2, CountSame
  <2> QED BY <2>3, <2>4
<1> QED BY <1>1, <1>2, <1>3

LEMMA StepNextMisses == ASSUME IInv, NEW t \in Tasks, NEW c \in Caps, NextMisses(t, c) PROVE IInv'
<1>1. /\ MayRun /\ pc[t] = "idle" /\ head[c] = Empty
      /\ pc' = [pc EXCEPT ![t] = "missed"] /\ want' = [want EXCEPT ![t] = c]
      /\ UNCHANGED <<pool, notify, permit, waiters, held>>
  BY DEF NextMisses, tokio
<1>2. QueueInv'
  <2>1. QueueType' BY <1>1 DEF IInv, QueueInv, QueueType, PC, MidPoll
  <2>2. Queued' BY <1>1 DEF IInv, QueueInv, QueueType, Queued
  <2>3. Waits' BY <1>1 DEF IInv, QueueInv, QueueType, Waits
  <2> QED BY <2>1, <2>2, <2>3 DEF QueueInv
<1>3. /\ \A u \in Tasks \ {t} : pc'[u] = pc[u] /\ want'[u] = want[u]
      /\ pc'[t] \in MidPoll /\ head[want'[t]] = Empty /\ want'[t] \in Caps
      /\ SingleThread => \A u \in Tasks \ {t} : pc[u] \notin MidPoll
      /\ \A d \in Caps : t \notin Woken(d)
  BY <1>1 DEF IInv, QueueInv, QueueType, MidPoll, MayRun, Woken
<1> QED BY <1>1, <1>2, <1>3, StepMoves

LEMMA StepNotifyOnNext == ASSUME IInv, NEW t \in Tasks, NotifyOnNext(t) PROVE IInv'
<1>1. /\ pc[t] = "missed" /\ pc' = [pc EXCEPT ![t] = "armed"]
      /\ notify' = [notify EXCEPT ![want[t]] = TRUE]
      /\ UNCHANGED <<pool, permit, waiters, want, held>>
  BY DEF NotifyOnNext, tokio
<1>2. want[t] \in Caps
  BY <1>1 DEF IInv, QueueInv, Waits
<1>3. QueueInv'
  <2>1. QueueType' BY <1>1, <1>2 DEF IInv, QueueInv, QueueType, PC, MidPoll
  <2>2. Queued' BY <1>1 DEF IInv, QueueInv, QueueType, Queued
  <2>3. Waits' BY <1>1, <1>2 DEF IInv, QueueInv, QueueType, Waits
  <2> QED BY <2>1, <2>2, <2>3 DEF QueueInv
<1>4. PoolInv'
  BY <1>1 DEF IInv, PoolInv, PoolType, ListInv, OwnInv, FreeOf, pool
<1>5. PollInv'
  BY <1>1 DEF IInv, PollInv, pool, QueueInv, QueueType, MidPoll
<1>6. CountInv'
  <2> SUFFICES ASSUME SingleThread, NEW d \in Caps, waiters'[d] # <<>>
               PROVE  Cardinality(FreeOf(d)') <= Cardinality(Woken(d)')
    BY DEF CountInv
  <2>1. FreeOf(d)' = FreeOf(d) BY <1>1 DEF FreeOf, pool
  <2>2. Woken(d)' = Woken(d) BY <1>1 DEF Woken, IInv, QueueInv, QueueType
  <2> QED BY <1>1, <2>1, <2>2 DEF IInv, CountInv
<1> QED BY <1>3, <1>4, <1>5, <1>6 DEF IInv

LEMMA StepPollNotified == ASSUME IInv, NEW t \in Tasks, PollNotified(t) PROVE IInv'
<1>1. pc[t] = "armed" /\ UNCHANGED <<pool, notify, want, held>>
  BY DEF PollNotified
<1>2. want[t] \in Caps
  BY <1>1 DEF IInv, QueueInv, Waits
<1>3. PoolInv' /\ \A d \in Caps : FreeOf(d)' = FreeOf(d)
  BY <1>1 DEF IInv, PoolInv, PoolType, ListInv, OwnInv, FreeOf, pool
<1>4. CASE permit[want[t]]
  <2>1. /\ permit' = [permit EXCEPT ![want[t]] = FALSE]
        /\ pc' = [pc EXCEPT ![t] = "passed"] /\ waiters' = waiters
    BY <1>4 DEF PollNotified
  <2>2. QueueInv'
    <3>1. QueueType' BY <1>1, <1>2, <2>1 DEF IInv, QueueInv, QueueType, PC, MidPoll
    <3>2. Queued' BY <1>1, <2>1 DEF IInv, QueueInv, QueueType, Queued
    <3>3. Waits' BY <1>1, <2>1 DEF IInv, QueueInv, QueueType, Waits
    <3> QED BY <3>1, <3>2, <3>3 DEF QueueInv
  <2>3. PollInv'
    BY <1>1, <2>1 DEF IInv, PollInv, pool, QueueInv, QueueType, MidPoll
  <2>4. CountInv'
    <3> SUFFICES ASSUME SingleThread, NEW d \in Caps, waiters'[d] # <<>>
                 PROVE  Cardinality(FreeOf(d)') <= Cardinality(Woken(d)')
      BY DEF CountInv
    <3>1. Woken(d) \subseteq Woken(d)' BY <1>1, <2>1 DEF Woken, IInv, QueueInv, QueueType
    <3>2. Cardinality(FreeOf(d)) <= Cardinality(Woken(d)) BY <2>1 DEF IInv, CountInv
    <3>3. IsFiniteSet(FreeOf(d)) /\ IsFiniteSet(Woken(d)') BY FreeFinite DEF IInv
    <3> QED BY <1>3, <3>1, <3>2, <3>3, CountSame
  <2> QED BY <1>3, <2>2, <2>3, <2>4 DEF IInv
<1>5. CASE ~permit[want[t]]
  <2>1. /\ waiters' = [waiters EXCEPT ![want[t]] = Append(@, t)]
        /\ pc' = [pc EXCEPT ![t] = "waiting"] /\ permit' = permit
    BY <1>5 DEF PollNotified
  <2>2. QueueInv'
    BY <1>1, <2>1, JoinQueue DEF IInv
  <2>3. PollInv'
    BY <1>1, <2>1 DEF IInv, PollInv, pool, QueueInv, QueueType, MidPoll
  <2>4. CountInv'
    <3> SUFFICES ASSUME SingleThread, NEW d \in Caps, waiters'[d] # <<>>
                 PROVE  Cardinality(FreeOf(d)') <= Cardinality(Woken(d)')
      BY DEF CountInv
    <3>1. Woken(d)' = Woken(d) BY <1>1, <2>1 DEF Woken, IInv, QueueInv, QueueType
    <3>2. CASE d = want[t]
      <4>1. FreeOf(d) = {} BY <1>1, <3>2, FreeFinite DEF IInv, PollInv, MidPoll
      <4>2. Cardinality(Woken(d)) \in Nat BY FreeFinite, FS_CardinalityType DEF IInv
      <4>3. Cardinality(FreeOf(d)) = 0 BY <4>1, FS_EmptySet
      <4>4. FreeOf(d)' = FreeOf(d) BY <1>3
      <4>5. Cardinality(FreeOf(d)) <= Cardinality(Woken(d)) BY <4>2, <4>3
      <4> QED BY <3>1, <4>4, <4>5
    <3>3. CASE d # want[t]
      BY <1>3, <2>1, <3>1, <3>3 DEF IInv, CountInv, QueueInv, QueueType
    <3> QED BY <3>2, <3>3
  <2> QED BY <1>3, <2>2, <2>3, <2>4 DEF IInv
<1> QED BY <1>4, <1>5

\* Another task may have taken the buffer, but not on one thread during the poll.
LEMMA StepNotifiedTakes == ASSUME IInv, NEW t \in Tasks, NotifiedTakes(t) PROVE IInv'
<1>1. /\ Resumed(t) /\ PoolCheckOut(t, want[t]) /\ pc' = [pc EXCEPT ![t] = "idle"]
      /\ want' = [want EXCEPT ![t] = Empty] /\ UNCHANGED <<notify, permit, waiters>>
  BY DEF NotifiedTakes, tokio
<1>2. pc[t] \in {"passed", "notified"} /\ want[t] \in Caps /\ head[want[t]] # Empty
  BY <1>1 DEF Resumed, PoolCheckOut, IInv, QueueInv, Waits
<1>3. SingleThread => \A u \in Tasks : pc[u] \notin MidPoll
  BY <1>1, <1>2 DEF Resumed, MayRun, IInv, PollInv, MidPoll
<1>4. QueueInv'
  <2>1. QueueType' BY <1>1 DEF IInv, QueueInv, QueueType, PC
  <2>2. Queued' BY <1>1, <1>2 DEF IInv, QueueInv, QueueType, Queued
  <2>3. Waits' BY <1>1, <1>2 DEF IInv, QueueInv, QueueType, Waits
  <2> QED BY <2>1, <2>2, <2>3 DEF QueueInv
<1>5. PollInv'
  BY <1>1, <1>3 DEF IInv, QueueInv, QueueType, PollInv, MidPoll
<1>6. CountInv'
  <2> SUFFICES ASSUME SingleThread, NEW d \in Caps, waiters'[d] # <<>>
               PROVE  Cardinality(FreeOf(d)') <= Cardinality(Woken(d)')
    BY DEF CountInv
  <2>1. Cardinality(FreeOf(d)) <= Cardinality(Woken(d)) BY <1>1 DEF IInv, CountInv
  <2>2. IsFiniteSet(FreeOf(d)) /\ IsFiniteSet(Woken(d)) BY FreeFinite DEF IInv
  <2>3. CASE d = want[t]
    <3>1. head[d] \in FreeOf(d) /\ FreeOf(d)' = FreeOf(d) \ {head[d]}
      BY <1>1, <1>2, <2>3, CheckOutPool DEF IInv
    <3>2. Woken(d)' = Woken(d) \ {t}
      BY <1>1, <2>3 DEF Woken, IInv, QueueInv, QueueType
    <3> QED BY <2>1, <2>2, <3>1, <3>2, CountTaken
  <2>4. CASE d # want[t]
    <3>1. FreeOf(d)' = FreeOf(d)
      BY <1>1, <1>2, <2>4, CheckOutPool DEF IInv
    <3>2. Woken(d)' = Woken(d)
      BY <1>1, <2>4 DEF Woken, IInv, QueueInv, QueueType
    <3> QED BY <2>1, <3>1, <3>2
  <2> QED BY <2>3, <2>4
<1> QED BY <1>1, <1>2, <1>4, <1>5, <1>6, CheckOutPool DEF IInv

LEMMA StepNotifiedMisses == ASSUME IInv, NEW t \in Tasks, NotifiedMisses(t) PROVE IInv'
<1>1. /\ Resumed(t) /\ head[want[t]] = Empty /\ pc' = [pc EXCEPT ![t] = "armed"]
      /\ UNCHANGED <<pool, notify, permit, waiters, want, held>>
  BY DEF NotifiedMisses, tokio
<1>2. pc[t] \in {"passed", "notified"} /\ want[t] \in Caps
  BY <1>1 DEF Resumed, IInv, QueueInv, Waits
<1>3. QueueInv'
  <2>1. QueueType' BY <1>1 DEF IInv, QueueInv, QueueType, PC, MidPoll
  <2>2. Queued' BY <1>1, <1>2 DEF IInv, QueueInv, QueueType, Queued
  <2>3. Waits' BY <1>1, <1>2 DEF IInv, QueueInv, QueueType, Waits
  <2> QED BY <2>1, <2>2, <2>3 DEF QueueInv
<1>4. /\ \A u \in Tasks \ {t} : pc'[u] = pc[u] /\ want'[u] = want[u]
      /\ pc'[t] \in MidPoll /\ head[want'[t]] = Empty /\ want'[t] \in Caps
      /\ t \in Woken(want'[t])
  BY <1>1, <1>2 DEF IInv, QueueInv, QueueType, MidPoll, Woken
<1>5. SingleThread => \A u \in Tasks \ {t} : pc[u] \notin MidPoll
  BY <1>1 DEF Resumed, MayRun, IInv, PollInv, MidPoll
<1> QED BY <1>1, <1>3, <1>4, <1>5, StepMoves

\* Drop for FixedBuf: one more free buffer and, if anybody waits, one more
\* notified task.
LEMMA StepDropBuf == ASSUME IInv, NEW t \in Tasks, NEW i \in Buf, DropFixedBuf(t, i) PROVE IInv'
<1> DEFINE c == Cap[i]
<1>1. MayRun /\ CheckIn(t, i) /\ UNCHANGED <<notify, want>>
  BY DEF DropFixedBuf
<1>2. /\ PoolInv' /\ c \in Caps /\ FreeOf(c)' = FreeOf(c) \cup {i}
      /\ \A d \in Caps \ {c} : FreeOf(d)' = FreeOf(d)
  BY <1>1, CheckInPool DEF IInv
<1>3. CASE notify[c]
  <2>1. NotifyOne(c, pc)
    BY <1>3 DEF DropFixedBuf
  <2>2. pc \in [Tasks -> PC] /\ want' \in [Tasks -> Caps \cup {Empty}] /\ notify' = notify
    BY <1>1 DEF IInv, QueueInv, QueueType
  <2>3. /\ QueueInv'
        /\ \A d \in Caps : waiters[d] = <<>> => waiters'[d] = <<>>
        /\ \/ waiters'[c] = <<>> /\ pc' = pc
           \/ \E w \in Tasks : /\ pc[w] = "waiting" /\ want[w] = c /\ want'[w] = c
                               /\ pc' = [pc EXCEPT ![w] = "notified"]
    BY <1>1, <1>2, <1>3, <2>1, <2>2, NotifyOneQueue DEF IInv
  <2>4. PollInv'
    <3>1. \A u \in Tasks : pc'[u] \in MidPoll => pc[u] \in MidPoll
      BY <2>2, <2>3 DEF MidPoll
    <3> QED BY <1>1, <3>1, NoPoll
  <2>5. CountInv'
    <3> SUFFICES ASSUME SingleThread, NEW d \in Caps, waiters'[d] # <<>>
                 PROVE  Cardinality(FreeOf(d)') <= Cardinality(Woken(d)')
      BY DEF CountInv
    <3>1. Cardinality(FreeOf(d)) <= Cardinality(Woken(d)) BY <2>3 DEF IInv, CountInv
    <3>2. IsFiniteSet(FreeOf(d)) /\ IsFiniteSet(Woken(d)) BY FreeFinite DEF IInv
    <3>3. CASE d = c
      <4>1. PICK w \in Tasks : pc[w] = "waiting" /\ want[w] = c /\ pc' = [pc EXCEPT ![w] = "notified"]
        BY <2>3, <3>3
      <4>2. w \notin Woken(d) /\ Woken(d)' = Woken(d) \cup {w}
        BY <1>1, <2>2, <3>3, <4>1 DEF Woken
      <4> QED BY <1>2, <3>1, <3>2, <3>3, <4>2, CountGiven
    <3>4. CASE d # c
      <4>1. Woken(d)' = Woken(d)
        BY <1>1, <2>2, <2>3, <3>4 DEF Woken
      <4> QED BY <1>2, <3>1, <3>4, <4>1
    <3> QED BY <3>3, <3>4
  <2> QED BY <1>2, <2>3, <2>4, <2>5 DEF IInv
<1>4. CASE ~notify[c]
  <2>1. UNCHANGED <<permit, waiters, pc>>
    BY <1>4 DEF DropFixedBuf
  <2>2. QueueInv'
    BY <1>1, <2>1 DEF IInv, QueueInv, QueueType, Queued, Waits
  <2>3. PollInv'
    BY <1>1, <2>1, NoPoll
  <2>4. waiters[c] = <<>>
    <3> SUFFICES ASSUME waiters[c] # <<>> PROVE FALSE
      OBVIOUS
    <3> DEFINE w == waiters[c][1]
    <3>1. waiters[c] \in Seq(Tasks) /\ 1 \in 1..Len(waiters[c]) /\ w \in Tasks
      BY <1>2 DEF IInv, QueueInv, QueueType
    <3>2. pc[w] = "waiting" /\ want[w] = c
      BY <1>2, <3>1 DEF IInv, QueueInv, Queued
    <3> QED BY <1>4, <3>1, <3>2 DEF IInv, QueueInv, Waits
  <2>5. CountInv'
    <3> SUFFICES ASSUME SingleThread, NEW d \in Caps, waiters'[d] # <<>>
                 PROVE  Cardinality(FreeOf(d)') <= Cardinality(Woken(d)')
      BY DEF CountInv
    <3>1. d # c /\ FreeOf(d)' = FreeOf(d) BY <1>2, <2>1, <2>4
    <3>2. Woken(d)' = Woken(d) BY <1>1, <2>1 DEF Woken
    <3> QED BY <2>1, <3>1, <3>2 DEF IInv, CountInv
  <2> QED BY <1>2, <2>2, <2>3, <2>5 DEF IInv
<1> QED BY <1>3, <1>4

\* A dropped next() leaves the queue, or passes its notification on.
LEMMA StepDropNext == ASSUME IInv, NEW t \in Tasks, DropNext(t) PROVE IInv'
<1> DEFINE c == want[t]
           at == [pc EXCEPT ![t] = "idle"]
<1>1. MayRun /\ DropNotified(t) /\ want' = [want EXCEPT ![t] = Empty] /\ UNCHANGED <<pool, notify, held>>
  BY DEF DropNext
<1>2. PoolInv' /\ \A d \in Caps : FreeOf(d)' = FreeOf(d)
  BY <1>1 DEF IInv, PoolInv, PoolType, ListInv, OwnInv, FreeOf, pool
<1>3. pc \in [Tasks -> PC] /\ want \in [Tasks -> Caps \cup {Empty}] /\ want' \in [Tasks -> Caps \cup {Empty}]
  BY <1>1 DEF IInv, QueueInv, QueueType
<1>4. CASE pc[t] = "waiting"
  <2>1. /\ \E i \in DOMAIN waiters[c] :
             waiters[c][i] = t /\ waiters' = [waiters EXCEPT ![c] = RemoveAt(@, i)]
        /\ pc' = at /\ permit' = permit
    BY <1>1, <1>4 DEF DropNotified
  <2>2. QueueInv' /\ \A d \in Caps : waiters[d] = <<>> => waiters'[d] = <<>>
    BY <1>1, <1>4, <2>1, LeaveQueue DEF IInv
  <2>3. PollInv'
    <3>1. \A u \in Tasks : pc'[u] \in MidPoll => pc[u] \in MidPoll
      BY <1>3, <2>1 DEF MidPoll
    <3> QED BY <1>1, <3>1, NoPoll
  <2>4. CountInv'
    <3> SUFFICES ASSUME SingleThread, NEW d \in Caps, waiters'[d] # <<>>
                 PROVE  Cardinality(FreeOf(d)') <= Cardinality(Woken(d)')
      BY DEF CountInv
    <3>1. Woken(d)' = Woken(d) BY <1>1, <1>3, <1>4, <2>1 DEF Woken
    <3> QED BY <1>2, <2>2, <3>1 DEF IInv, CountInv
  <2> QED BY <1>2, <2>2, <2>3, <2>4 DEF IInv
<1>5. CASE pc[t] = "notified"
  <2>1. NotifyOne(c, at) /\ c \in Caps /\ notify[c]
    BY <1>1, <1>5 DEF DropNotified, IInv, QueueInv, Waits
  <2>2. /\ at \in [Tasks -> PC] /\ notify' = notify
        /\ \A u \in Tasks : \/ at[u] = pc[u] /\ want'[u] = want[u]
                            \/ pc[u] # "waiting" /\ at[u] = "idle"
    BY <1>1, <1>3, <1>5 DEF PC
  <2> HIDE DEF at
  <2>3. /\ QueueInv'
        /\ \A d \in Caps : waiters[d] = <<>> => waiters'[d] = <<>>
        /\ \/ waiters'[c] = <<>> /\ pc' = at
           \/ \E w \in Tasks : /\ pc[w] = "waiting" /\ want[w] = c /\ want'[w] = c
                               /\ pc' = [at EXCEPT ![w] = "notified"]
    BY <1>3, <2>1, <2>2, NotifyOneQueue DEF IInv
  <2> USE DEF at
  <2>4. PollInv'
    <3>1. \A u \in Tasks : pc'[u] \in MidPoll => pc[u] \in MidPoll
      BY <1>3, <2>3 DEF MidPoll
    <3> QED BY <1>1, <3>1, NoPoll
  <2>5. CountInv'
    <3> SUFFICES ASSUME SingleThread, NEW d \in Caps, waiters'[d] # <<>>
                 PROVE  Cardinality(FreeOf(d)') <= Cardinality(Woken(d)')
      BY DEF CountInv
    <3>1. Cardinality(FreeOf(d)) <= Cardinality(Woken(d)) BY <2>3 DEF IInv, CountInv
    <3>2. IsFiniteSet(FreeOf(d)) /\ IsFiniteSet(Woken(d)) BY FreeFinite DEF IInv
    <3>3. CASE d = c
      <4>1. PICK w \in Tasks : pc[w] = "waiting" /\ want[w] = c /\ pc' = [at EXCEPT ![w] = "notified"]
        BY <2>3, <3>3
      <4>2. w \notin Woken(d) /\ Woken(d)' = (Woken(d) \ {t}) \cup {w}
        BY <1>1, <1>3, <1>5, <2>1, <3>3, <4>1, PoolAssumption DEF Woken
      <4> QED BY <1>2, <3>1, <3>2, <4>2, CountPassed
    <3>4. CASE d # c
      <4>1. Woken(d)' = Woken(d)
        BY <1>1, <1>3, <1>5, <2>3, <3>4, PoolAssumption DEF Woken
      <4> QED BY <1>2, <3>1, <4>1
    <3> QED BY <3>3, <3>4
  <2> QED BY <1>2, <2>3, <2>4, <2>5 DEF IInv
<1> QED BY <1>1, <1>4, <1>5 DEF DropNotified

LEMMA StepInv == IInv /\ [PoolNext]_poolVars => IInv'
<1> SUFFICES ASSUME IInv, [PoolNext]_poolVars PROVE IInv'
  OBVIOUS
<1>1. ASSUME NEW t \in Tasks,
             \/ TryNext(t) \/ (\E c \in Caps : NextMisses(t, c)) \/ NotifyOnNext(t)
             \/ PollNotified(t) \/ NotifiedTakes(t) \/ NotifiedMisses(t)
             \/ (\E i \in Buf : DropFixedBuf(t, i)) \/ DropNext(t)
      PROVE  IInv'
  BY <1>1, StepTryNext, StepNextMisses, StepNotifyOnNext, StepPollNotified, StepNotifiedTakes,
     StepNotifiedMisses, StepDropBuf, StepDropNext
<1>2. CASE UNCHANGED poolVars
  <2>1. PoolInv' BY <1>2 DEF poolVars, IInv, PoolInv, PoolType, ListInv, OwnInv, FreeOf
  <2>2. QueueInv' BY <1>2 DEF poolVars, IInv, QueueInv, QueueType, Queued, Waits
  <2>3. PollInv' BY <1>2 DEF poolVars, IInv, PollInv
  <2>4. CountInv' BY <1>2 DEF poolVars, IInv, CountInv, FreeOf, Woken
  <2> QED BY <2>1, <2>2, <2>3, <2>4 DEF IInv
<1> QED BY <1>1, <1>2 DEF PoolNext

-----------------------------------------------------------------------------
(* For any number of buffers, capacities and tasks, on any threads:        *)

\* The invariant holds throughout.
LEMMA PoolInvariant == PoolSpec => []IInv
<1>1. PoolInit => IInv BY InitInv
<1>2. IInv /\ [PoolNext]_poolVars => IInv' BY StepInv
<1> QED BY <1>1, <1>2, PTL DEF PoolSpec

\* A buffer that is checked out has exactly one owner, a free one none
\* (Pool::try_next, Pool::check_in).
THEOREM BuffersHaveOneOwner == PoolSpec => []OneOwner
<1>1. IInv => OneOwner BY OwnersCounted DEF IInv
<1> QED BY <1>1, PoolInvariant, PTL

\* No sequence of check-outs and check-ins loses a buffer or moves it to the
\* list of another capacity (free_buf_head_by_cap and the next fields).
THEOREM FreeListsStayComplete == PoolSpec => []FreeListsComplete
<1>1. IInv => FreeListsComplete
  BY ReachedFree DEF IInv, FreeListsComplete, FreeOf
<1> QED BY <1>1, PoolInvariant, PTL

\* With all tasks on one thread, no task sleeps beside a free buffer it asked for
\* (FixedBufPool::next, next_when_notified; the run of FixedBufPoolThreads shows
\* that the assumption is needed).
THEOREM NoWakeupIsMissed == ASSUME SingleThread PROVE PoolSpec => []NoMissedWakeup
<1>1. IInv => NoMissedWakeup
  <2> SUFFICES ASSUME IInv, NEW t \in Tasks, pc[t] = "waiting", head[want[t]] # Empty
               PROVE  \E u \in Tasks : pc[u] \in {"notified", "passed"} /\ want[u] = want[t]
    BY DEF NoMissedWakeup
  <2> DEFINE c == want[t]
  <2>1. c \in Caps /\ waiters[c] # <<>>
    BY DEF IInv, QueueInv, Waits
  <2>2. IsFiniteSet(FreeOf(c)) /\ IsFiniteSet(Woken(c)) /\ FreeOf(c) # {}
    BY <2>1, FreeFinite DEF IInv
  <2>3. Cardinality(FreeOf(c)) \in Nat \ {0} /\ Cardinality(Woken(c)) \in Nat
    BY <2>2, FS_CardinalityType, FS_EmptySet
  <2>4. Cardinality(Woken(c)) # 0
    BY <2>1, <2>3 DEF IInv, CountInv
  <2>5. Woken(c) # {}
    BY <2>4, FS_EmptySet
  <2> QED BY <2>5 DEF Woken
<1> QED BY <1>1, PoolInvariant, PTL
=============================================================================
