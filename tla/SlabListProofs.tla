--------------------------- MODULE SlabListProofs ---------------------------
(***************************************************************************)
(* The lists of SlabList are never broken, whatever the number of lists,   *)
(* values and slab keys, and they implement the queues of Fifo.            *)
(***************************************************************************)
EXTENDS SlabList, SequenceTheorems, TLAPS

USE SlabListAssumption

\* The inductive invariant holds initially: all lists are empty, so is the slab.
LEMMA InitInv == Init => IInv
  BY DEF Init, IInv, TypeOK, Linked, Disjoint, NoLeak, Occupied, Entry

\* push keeps every list linked: the new key is vacant, hence in no chain.
LEMMA PushInv ==
  ASSUME IInv, NEW l \in Lists, NEW v \in Values, NEW i \in Slots, Push(l, v, i)
  PROVE  IInv'
<1> USE DEF Occupied
<1> DEFINE c == chain[l]
<1>c. c \in Seq(Slots) /\ Len(c) \in Nat /\ i \notin DOMAIN slab
  BY DEF Push, IInv, TypeOK
<1>d. \A m \in Lists : chain'[m] = IF m = l THEN Append(c, i) ELSE chain[m]
  BY DEF Push, IInv, TypeOK
<1>a. /\ Append(c, i) # <<>> /\ Len(Append(c, i)) = Len(c) + 1
      /\ Append(c, i)[Len(c) + 1] = i
      /\ \A k \in 1..Len(c) : Append(c, i)[k] = c[k]
  BY <1>c, AppendProperties
<1>e. \A k \in 1..Len(c) : c[k] \in DOMAIN slab
  BY DEF IInv, Linked
<1>p. /\ c = <<>> => end[l] = MAX
      /\ c # <<>> => end[l] = c[Len(c)] /\ end[l] # MAX /\ end[l] \in DOMAIN slab /\ Len(c) \in 1..Len(c)
  <2>1. CASE c = <<>>
    BY <2>1 DEF Push, IInv, Linked
  <2>2. CASE c # <<>>
    <3>1. Len(c) \in 1..Len(c)
      BY <2>2, <1>c
    <3> QED BY <3>1, <2>2, <1>e DEF Push, IInv, Linked, TypeOK
  <2> QED BY <2>1, <2>2
<1>s. /\ DOMAIN slab' = DOMAIN slab \cup {i}
      /\ slab'[i] = [entry |-> v, next |-> MAX]
      /\ \A j \in DOMAIN slab :
           slab'[j] = IF j = end[l] THEN [entry |-> slab[j].entry, next |-> i] ELSE slab[j]
  BY <1>c DEF Push
<1>f. /\ end' = [end EXCEPT ![l] = i]
      /\ start' = IF c = <<>> THEN [start EXCEPT ![l] = i] ELSE start
      /\ dropping' = NoList /\ dropping = NoList /\ ret' = NoValue
  BY <1>p DEF Push
<1>1. TypeOK'
  <2>1. slab' \in [DOMAIN slab' -> Entry]
    <3>0. DOMAIN slab' = DOMAIN slab \cup {i}
      BY <1>s
    <3>1. \A j \in DOMAIN slab' : slab'[j] \in Entry
      <4> TAKE j \in DOMAIN slab'
      <4>1. CASE j = i
        BY <4>1, <1>s DEF Entry
      <4>2. CASE j # i
        <5>1. j \in DOMAIN slab /\ slab[j] \in Entry
          BY <4>2, <3>0 DEF IInv, TypeOK
        <5>2. slab'[j] = slab[j] \/ slab'[j] = [entry |-> slab[j].entry, next |-> i]
          BY <5>1, <1>s
        <5>3. slab[j].entry \in Values
          BY <5>1 DEF Entry
        <5> QED BY <5>1, <5>2, <5>3 DEF Entry
      <4> QED BY <4>1, <4>2
    <3>2. slab' = [j \in DOMAIN slab' |-> slab'[j]]
      BY DEF Push
    <3> QED BY <3>1, <3>2
  <2>2. chain' \in [Lists -> Seq(Slots)]
    BY <1>c DEF Push, IInv, TypeOK
  <2> QED BY <2>1, <2>2, <1>f, <1>s DEF IInv, TypeOK
<1>2. Linked'
  <2> SUFFICES ASSUME NEW m \in Lists
               PROVE /\ start'[m] = IF chain'[m] = <<>> THEN MAX ELSE chain'[m][1]
                     /\ end'[m] = IF chain'[m] = <<>> THEN MAX ELSE chain'[m][Len(chain'[m])]
                     /\ \A k \in 1..Len(chain'[m]) :
                          /\ chain'[m][k] \in DOMAIN slab'
                          /\ slab'[chain'[m][k]].next
                               = IF k = Len(chain'[m]) THEN MAX ELSE chain'[m][k + 1]
    BY DEF Linked
  <2>1. CASE m = l
    <3>1. chain'[m] = Append(c, i) /\ Len(chain'[m]) = Len(c) + 1 /\ chain'[m] # <<>>
      BY <2>1, <1>d, <1>a
    <3>2. chain'[m][Len(c) + 1] = i /\ \A k \in 1..Len(c) : chain'[m][k] = c[k]
      BY <3>1, <1>a
    <3>3. start'[m] = chain'[m][1]
      <4>1. CASE c = <<>>
        BY <4>1, <3>2, <1>f, <2>1 DEF IInv, TypeOK
      <4>2. CASE c # <<>>
        <5>1. 1 \in 1..Len(c)
          BY <4>2, <1>c
        <5> QED BY <5>1, <4>2, <3>2, <1>f, <2>1 DEF IInv, Linked
      <4> QED BY <4>1, <4>2
    <3>4. end'[m] = i
      BY <1>f, <2>1 DEF IInv, TypeOK
    <3>5. ASSUME NEW k \in 1..Len(chain'[m])
          PROVE  /\ chain'[m][k] \in DOMAIN slab'
                 /\ slab'[chain'[m][k]].next
                      = IF k = Len(chain'[m]) THEN MAX ELSE chain'[m][k + 1]
      <4>1. CASE k = Len(c) + 1
        BY <4>1, <3>1, <3>2, <1>s
      <4>2. CASE k \in 1..(Len(c) - 1)
        <5>1. k \in 1..Len(c) /\ k + 1 \in 1..Len(c) /\ Len(c) \in 1..Len(c) /\ k # Len(c) /\ k # Len(c) + 1
          BY <4>2, <1>c
        <5>2. c[k] # c[Len(c)] /\ c # <<>>
          BY <5>1 DEF IInv, Disjoint
        <5>3. c[k] \in DOMAIN slab /\ slab[c[k]].next = c[k + 1]
          BY <5>1 DEF IInv, Linked
        <5>4. slab'[c[k]] = slab[c[k]]
          BY <5>2, <5>3, <1>p, <1>s
        <5> QED BY <5>1, <5>3, <5>4, <3>1, <3>2, <1>s
      <4>3. CASE k = Len(c) /\ Len(c) # 0
        <5>1. Len(c) \in 1..Len(c) /\ c # <<>>
          BY <4>3, <1>c
        <5>2. end[l] = c[k] /\ c[k] \in DOMAIN slab
          BY <5>1, <4>3, <1>p
        <5>3. slab'[c[k]].next = i
          BY <5>2, <1>s
        <5> QED BY <5>1, <5>2, <5>3, <4>3, <3>1, <3>2, <1>s, <1>c
      <4> QED BY <4>1, <4>2, <4>3, <3>1, <1>c
    <3> QED BY <3>1, <3>2, <3>3, <3>4, <3>5
  <2>2. CASE m # l
    <3>1. chain'[m] = chain[m] /\ start'[m] = start[m] /\ end'[m] = end[m]
      BY <2>2, <1>d, <1>f DEF IInv, TypeOK
    <3>2. ASSUME NEW k \in 1..Len(chain[m])
          PROVE  chain[m][k] \in DOMAIN slab /\ slab'[chain[m][k]] = slab[chain[m][k]]
      <4>1. chain[m][k] \in DOMAIN slab
        BY DEF IInv, Linked
      <4>2. chain[m][k] # end[l]
        <5>1. CASE c = <<>>
          BY <5>1, <1>p, <4>1 DEF IInv, TypeOK
        <5>2. CASE c # <<>>
          BY <5>2, <1>p, <2>2 DEF IInv, Disjoint
        <5> QED BY <5>1, <5>2
      <4> QED BY <4>1, <4>2, <1>s
    <3> QED BY <3>1, <3>2, <1>s, <1>f DEF IInv, Linked
  <2> QED BY <2>1, <2>2
<1>3. Disjoint'
  <2> SUFFICES ASSUME NEW m \in Lists, NEW n \in Lists,
                      NEW j \in 1..Len(chain'[m]), NEW k \in 1..Len(chain'[n]),
                      chain'[m][j] = chain'[n][k]
               PROVE  m = n /\ j = k
    BY DEF Disjoint
  <2>1. ASSUME NEW a \in Lists, NEW b \in 1..Len(chain'[a])
        PROVE  \/ a = l /\ b = Len(c) + 1 /\ chain'[a][b] = i
               \/ b \in 1..Len(chain[a]) /\ chain'[a][b] = chain[a][b] /\ chain[a][b] # i
    <3>1. CASE a = l
      <4>1. chain'[a] = Append(c, i) /\ Len(chain'[a]) = Len(c) + 1
        BY <3>1, <1>d, <1>a
      <4> QED BY <4>1, <3>1, <1>c, <1>e
    <3>2. CASE a # l
      <4>1. chain'[a] = chain[a]
        BY <3>2, <1>d
      <4> QED BY <4>1, <1>c DEF IInv, Linked
    <3> QED BY <3>1, <3>2
  <2>2. /\ \/ m = l /\ j = Len(c) + 1 /\ chain'[m][j] = i
           \/ j \in 1..Len(chain[m]) /\ chain'[m][j] = chain[m][j] /\ chain[m][j] # i
        /\ \/ n = l /\ k = Len(c) + 1 /\ chain'[n][k] = i
           \/ k \in 1..Len(chain[n]) /\ chain'[n][k] = chain[n][k] /\ chain[n][k] # i
    BY <2>1
  <2> QED BY <2>2 DEF IInv, Disjoint
<1>4. NoLeak'
  <2> SUFFICES ASSUME NEW j \in DOMAIN slab'
               PROVE  \E m \in Lists : \E k \in 1..Len(chain'[m]) : chain'[m][k] = j
    BY DEF NoLeak
  <2>1. CASE j = i
    <3>1. chain'[l] = Append(c, i) /\ Len(chain'[l]) = Len(c) + 1
      BY <1>d, <1>a
    <3>2. Len(c) + 1 \in 1..Len(chain'[l]) /\ chain'[l][Len(c) + 1] = i
      BY <3>1, <1>c
    <3> QED BY <3>2, <2>1
  <2>2. CASE j # i
    <3>0. PICK m \in Lists : \E k \in 1..Len(chain[m]) : chain[m][k] = j
      BY <2>2, <1>s DEF IInv, NoLeak
    <3>1. PICK k \in 1..Len(chain[m]) : chain[m][k] = j
      BY <3>0
    <3>2. k \in 1..Len(chain'[m]) /\ chain'[m][k] = j
      <4>1. CASE m = l
        <5>1. k \in 1..Len(c) /\ k \in 1..(Len(c) + 1) /\ c[k] = j
          BY <4>1, <3>1, <1>c
        <5>2. chain'[m] = Append(c, i)
          BY <4>1, <1>d
        <5> QED BY <5>1, <5>2, <1>a
      <4>2. CASE m # l
        BY <4>2, <3>1, <1>d
      <4> QED BY <4>1, <4>2
    <3> QED BY <3>2
  <2> QED BY <2>1, <2>2
<1> QED BY <1>1, <1>2, <1>3, <1>4 DEF IInv

-----------------------------------------------------------------------------
\* Only a sequence of one element has an empty tail.
LEMMA TailEmpty ==
  ASSUME NEW S, NEW s \in Seq(S), s # <<>>
  PROVE  Tail(s) = <<>> <=> Len(s) = 1
<1>1. Tail(s) \in Seq(S) /\ Len(Tail(s)) = Len(s) - 1 /\ Len(s) \in Nat
  BY HeadTailProperties
<1>2. Tail(s) = <<>> => Len(Tail(s)) = 0
  BY EmptySeq
<1>3. Tail(s) # <<>> => Len(Tail(s)) # 0
  BY <1>1, EmptySeq
<1> QED BY <1>1, <1>2, <1>3

\* What pop and the drop loop share: the first entry of a list leaves the slab
\* and the list starts at its successor.
Unlink(l) ==
  /\ start[l] \in Occupied
  /\ slab' = Freed(start[l])
  /\ start' = [start EXCEPT ![l] = slab[start[l]].next]
  /\ chain' = [chain EXCEPT ![l] = Tail(@)]

\* The list that is unlinked is not empty, and its chain loses its first index.
LEMMA UnlinkFacts ==
  ASSUME IInv, NEW l \in Lists, Unlink(l)
  PROVE  /\ chain[l] \in Seq(Slots) /\ chain[l] # <<>> /\ Len(chain[l]) \in Nat \ {0}
         /\ start[l] = chain[l][1]
         /\ chain' \in [Lists -> Seq(Slots)]
         /\ chain'[l] = Tail(chain[l])
         /\ Len(chain'[l]) = Len(chain[l]) - 1
         /\ \A k \in 1..Len(chain'[l]) : chain'[l][k] = chain[l][k + 1]
         /\ \A m \in Lists : m # l => chain'[m] = chain[m]
         /\ DOMAIN slab' = DOMAIN slab \ {chain[l][1]}
         /\ \A j \in DOMAIN slab' : slab'[j] = slab[j]
         /\ \A m \in Lists : Len(chain[m]) \in Nat
<1> DEFINE c == chain[l]
<1>1. c \in Seq(Slots) /\ \A m \in Lists : chain[m] \in Seq(Slots) /\ Len(chain[m]) \in Nat
  BY DEF IInv, TypeOK
<1>2. c # <<>>
  BY DEF IInv, TypeOK, Linked, Unlink, Occupied
<1>3. Len(c) \in Nat \ {0}
  BY <1>1, <1>2, EmptySeq
<1>4. start[l] = c[1]
  BY <1>2 DEF IInv, Linked
<1>5. /\ Tail(c) \in Seq(Slots) /\ Len(Tail(c)) = Len(c) - 1
      /\ \A k \in 1..Len(Tail(c)) : Tail(c)[k] = c[k + 1]
  BY <1>1, <1>2, HeadTailProperties
<1>6. chain' = [chain EXCEPT ![l] = Tail(c)] /\ chain \in [Lists -> Seq(Slots)]
  BY DEF Unlink, IInv, TypeOK
<1>7. chain' \in [Lists -> Seq(Slots)] /\ chain'[l] = Tail(c)
      /\ \A m \in Lists : m # l => chain'[m] = chain[m]
  BY <1>5, <1>6
<1>8. DOMAIN slab' = DOMAIN slab \ {c[1]} /\ \A j \in DOMAIN slab' : slab'[j] = slab[j]
  BY <1>4 DEF Unlink, Freed, Occupied
<1> QED BY <1>1, <1>2, <1>3, <1>4, <1>5, <1>7, <1>8

\* Unlinking the first entry preserves everything but the end index.
LEMMA UnlinkInv ==
  ASSUME IInv, NEW l \in Lists, Unlink(l)
  PROVE  /\ start' \in [Lists -> Slots \cup {MAX}]
         /\ DOMAIN slab' \subseteq Slots
         /\ slab' \in [DOMAIN slab' -> Entry]
         /\ chain' \in [Lists -> Seq(Slots)]
         /\ \A m \in Lists :
              /\ start'[m] = IF chain'[m] = <<>> THEN MAX ELSE chain'[m][1]
              /\ \A k \in 1..Len(chain'[m]) :
                   /\ chain'[m][k] \in DOMAIN slab'
                   /\ slab'[chain'[m][k]].next
                        = IF k = Len(chain'[m]) THEN MAX ELSE chain'[m][k + 1]
         /\ Disjoint'
         /\ NoLeak'
<1> DEFINE c == chain[l]
<1>u. /\ c \in Seq(Slots) /\ c # <<>> /\ Len(c) \in Nat \ {0}
      /\ start[l] = c[1]
      /\ chain' \in [Lists -> Seq(Slots)]
      /\ chain'[l] = Tail(c)
      /\ Len(chain'[l]) = Len(c) - 1
      /\ \A k \in 1..Len(chain'[l]) : chain'[l][k] = c[k + 1]
      /\ \A m \in Lists : m # l => chain'[m] = chain[m]
      /\ DOMAIN slab' = DOMAIN slab \ {c[1]}
      /\ \A j \in DOMAIN slab' : slab'[j] = slab[j]
      /\ \A m \in Lists : Len(chain[m]) \in Nat
  BY UnlinkFacts
<1> USE <1>u DEF Occupied
<1>n. slab[c[1]].next = (IF Len(c) = 1 THEN MAX ELSE c[2]) /\ c[1] \in DOMAIN slab
  <2>1. 1 \in 1..Len(c)
    OBVIOUS
  <2>2. /\ c[1] \in DOMAIN slab
        /\ slab[c[1]].next = IF 1 = Len(c) THEN MAX ELSE c[1 + 1]
    BY <2>1 DEF IInv, Linked
  <2> QED BY <2>2
<1>e. Tail(c) = <<>> <=> Len(c) = 1
  BY TailEmpty
<1>1. slab[c[1]].next \in Slots \cup {MAX}
  BY <1>n DEF IInv, TypeOK, Entry
<1>2. start' \in [Lists -> Slots \cup {MAX}]
  BY <1>1 DEF Unlink, IInv, TypeOK
<1>3. DOMAIN slab' \subseteq Slots /\ slab' \in [DOMAIN slab' -> Entry]
  <2>1. slab' = [j \in DOMAIN slab' |-> slab'[j]]
    BY DEF Unlink, Freed
  <2> QED BY <2>1 DEF IInv, TypeOK
<1>old. ASSUME NEW m \in Lists, NEW k \in 1..Len(chain'[m])
        PROVE  \/ m = l /\ k + 1 \in 1..Len(c) /\ chain'[m][k] = c[k + 1]
               \/ m # l /\ k \in 1..Len(chain[m]) /\ chain'[m][k] = chain[m][k]
  <2>1. CASE m = l
    <3>1. k \in 1..Len(chain'[l]) /\ k \in Nat /\ k + 1 \in 1..Len(c)
      BY <2>1
    <3>2. chain'[l][k] = c[k + 1]
      BY <3>1
    <3> QED BY <2>1, <3>1, <3>2
  <2>2. CASE m # l
    BY <2>2
  <2> QED BY <2>1, <2>2
<1>d. \A a, b \in Lists : \A j \in 1..Len(chain[a]), k \in 1..Len(chain[b]) :
        chain[a][j] = chain[b][k] => a = b /\ j = k
  BY DEF IInv, Disjoint
<1>in. \A m \in Lists : \A k \in 1..Len(chain[m]) :
         /\ chain[m][k] \in DOMAIN slab
         /\ slab[chain[m][k]].next = IF k = Len(chain[m]) THEN MAX ELSE chain[m][k + 1]
  BY DEF IInv, Linked
<1>o. 1 \in 1..Len(c)
  OBVIOUS
<1>4. ASSUME NEW m \in Lists
      PROVE  /\ start'[m] = IF chain'[m] = <<>> THEN MAX ELSE chain'[m][1]
             /\ \A k \in 1..Len(chain'[m]) :
                  /\ chain'[m][k] \in DOMAIN slab'
                  /\ slab'[chain'[m][k]].next
                       = IF k = Len(chain'[m]) THEN MAX ELSE chain'[m][k + 1]
  <2>1. CASE m = l
    <3>1. start'[l] = slab[c[1]].next
      BY DEF Unlink, IInv, TypeOK
    <3>2. chain'[l] # <<>> => chain'[l][1] = c[2]
      <4> SUFFICES ASSUME chain'[l] # <<>> PROVE chain'[l][1] = c[2]
        OBVIOUS
      <4>1. Len(c) # 1
        BY <1>e
      <4>2. 1 \in 1..Len(chain'[l])
        BY <4>1
      <4>3. chain'[l][1] = c[1 + 1]
        BY <4>2
      <4> QED BY <4>3
    <3>3. start'[l] = IF chain'[l] = <<>> THEN MAX ELSE chain'[l][1]
      BY <3>1, <3>2, <1>n, <1>e
    <3>4. ASSUME NEW k \in 1..Len(chain'[l])
          PROVE  /\ chain'[l][k] \in DOMAIN slab'
                 /\ slab'[chain'[l][k]].next
                      = IF k = Len(chain'[l]) THEN MAX ELSE chain'[l][k + 1]
      <4>1. k + 1 \in 1..Len(c) /\ k + 1 # 1 /\ chain'[l][k] = c[k + 1]
        OBVIOUS
      <4>2. c[k + 1] # c[1]
        BY <4>1, <1>d, <1>o
      <4>3. c[k + 1] \in DOMAIN slab'
        BY <4>1, <4>2, <1>in
      <4>4. slab'[c[k + 1]].next = IF k + 1 = Len(c) THEN MAX ELSE c[k + 1 + 1]
        BY <4>1, <4>3, <1>in
      <4>5. CASE k = Len(chain'[l])
        BY <4>5, <4>1, <4>3, <4>4
      <4>6. CASE k # Len(chain'[l])
        <5>1. k + 1 \in 1..Len(chain'[l]) /\ k + 1 # Len(c)
          BY <4>6
        <5>2. chain'[l][k + 1] = c[k + 1 + 1]
          BY <5>1
        <5> QED BY <5>1, <5>2, <4>6, <4>1, <4>3, <4>4
      <4> QED BY <4>5, <4>6
    <3> QED BY <2>1, <3>3, <3>4
  <2>2. CASE m # l
    <3>1. chain'[m] = chain[m] /\ start'[m] = start[m]
      BY <2>2 DEF Unlink, IInv, TypeOK
    <3>2. \A k \in 1..Len(chain[m]) : chain[m][k] \in DOMAIN slab'
      BY <2>2, <1>d, <1>o, <1>in
    <3> QED BY <3>1, <3>2, <1>in DEF IInv, Linked
  <2> QED BY <2>1, <2>2
<1>5. Disjoint'
  <2> SUFFICES ASSUME NEW m \in Lists, NEW n \in Lists,
                      NEW j \in 1..Len(chain'[m]), NEW k \in 1..Len(chain'[n]),
                      chain'[m][j] = chain'[n][k]
               PROVE  m = n /\ j = k
    BY DEF Disjoint
  <2>1. /\ \/ m = l /\ j + 1 \in 1..Len(c) /\ chain'[m][j] = c[j + 1]
           \/ m # l /\ j \in 1..Len(chain[m]) /\ chain'[m][j] = chain[m][j]
        /\ \/ n = l /\ k + 1 \in 1..Len(c) /\ chain'[n][k] = c[k + 1]
           \/ n # l /\ k \in 1..Len(chain[n]) /\ chain'[n][k] = chain[n][k]
    BY <1>old
  <2>2. j \in Nat /\ k \in Nat
    OBVIOUS
  <2> QED BY <2>1, <2>2, <1>d
<1>6. NoLeak'
  <2> SUFFICES ASSUME NEW j \in DOMAIN slab'
               PROVE  \E m \in Lists : \E k \in 1..Len(chain'[m]) : chain'[m][k] = j
    BY DEF NoLeak
  <2>1. PICK m \in Lists : \E k \in 1..Len(chain[m]) : chain[m][k] = j
    BY DEF IInv, NoLeak
  <2>2. PICK k \in 1..Len(chain[m]) : chain[m][k] = j
    BY <2>1
  <2>3. CASE m = l
    <3>1. k # 1
      BY <2>2, <2>3
    <3>2. k - 1 \in 1..Len(chain'[l]) /\ (k - 1) + 1 = k
      BY <3>1, <2>3
    <3>3. chain'[l][k - 1] = c[(k - 1) + 1]
      BY <3>2
    <3>4. chain'[l][k - 1] = j
      BY <3>2, <3>3, <2>2, <2>3
    <3> QED BY <3>2, <3>4
  <2>4. CASE m # l
    BY <2>2, <2>4
  <2> QED BY <2>3, <2>4
<1> QED BY <1>2, <1>3, <1>4, <1>5, <1>6

\* pop preserves the invariant: end is reset when the last entry goes.
LEMMA PopSomeInv ==
  ASSUME IInv, NEW l \in Lists, PopSome(l)
  PROVE  IInv'
<1>u. Unlink(l)
  BY DEF PopSome, Unlink
<1> DEFINE c == chain[l]
<1>c. c # <<>> /\ Len(c) \in Nat \ {0} /\ start[l] = c[1] /\ Len(chain'[l]) = Len(c) - 1
      /\ (chain'[l] = <<>> <=> Len(c) = 1)
      /\ (Len(c) # 1 => chain'[l][Len(c) - 1] = c[Len(c)])
  <2>1. chain'[l] = Tail(c) /\ Tail(c) \in Seq(Slots) /\ Len(Tail(c)) = Len(c) - 1
        /\ c # <<>> /\ Len(c) \in Nat \ {0} /\ start[l] = c[1]
    BY <1>u, UnlinkFacts, HeadTailProperties
  <2>2. Tail(c) = <<>> <=> Len(c) = 1
    <3>1. c \in Seq(Slots)
      BY DEF IInv, TypeOK
    <3> QED BY <3>1, <2>1, TailEmpty
  <2>3. ASSUME Len(c) # 1 PROVE chain'[l][Len(c) - 1] = c[Len(c)]
    <3>0. Len(chain'[l]) = Len(c) - 1 /\ Len(c) \in Nat \ {0}
      BY <2>1
    <3>1. Len(c) - 1 \in 1..Len(chain'[l]) /\ (Len(c) - 1) + 1 = Len(c)
      <4> DEFINE n == Len(c)
      <4>1. n \in Nat \ {0} /\ n # 1
        BY <3>0, <2>3
      <4>2. n - 1 \in 1..(n - 1) /\ (n - 1) + 1 = n
        <5> HIDE DEF n
        <5> QED BY <4>1
      <4> QED BY <3>0, <4>2
    <3>2. chain'[l][Len(c) - 1] = c[(Len(c) - 1) + 1]
      BY <3>1, <1>u, UnlinkFacts
    <3> QED BY <3>1, <3>2
  <2> QED BY <2>1, <2>2, <2>3
<1>e. /\ c[1] \in Occupied
      /\ slab[c[1]].next = (IF Len(c) = 1 THEN MAX ELSE c[2])
      /\ slab[c[1]] \in Entry
      /\ Len(c) # 1 => c[2] # MAX
  <2>1. 1 \in 1..Len(c)
    BY <1>c
  <2>2. c[1] \in Occupied /\ slab[c[1]].next = IF 1 = Len(c) THEN MAX ELSE c[1 + 1]
    BY <2>1 DEF IInv, Linked
  <2>3. ASSUME Len(c) # 1 PROVE c[2] # MAX
    <3>1. 2 \in 1..Len(c)
      BY <1>c, <2>3
    <3> QED BY <3>1 DEF IInv, Linked, TypeOK
  <2> QED BY <2>2, <2>3 DEF IInv, TypeOK
<1>f. /\ end' = IF Len(c) = 1 THEN [end EXCEPT ![l] = MAX] ELSE end
      /\ ret' \in Values /\ dropping = NoList /\ dropping' = NoList
  BY <1>c, <1>e DEF PopSome, Entry
<1>1. TypeOK'
  BY <1>u, <1>f, UnlinkInv DEF TypeOK, IInv, Occupied
<1>2. Linked'
  <2>1. ASSUME NEW m \in Lists
        PROVE end'[m] = IF chain'[m] = <<>> THEN MAX ELSE chain'[m][Len(chain'[m])]
    <3>1. CASE m = l
      <4>1. end[l] = c[Len(c)]
        BY <1>c, <1>f DEF IInv, Linked
      <4> QED BY <4>1, <3>1, <1>c, <1>f DEF IInv, TypeOK
    <3>2. CASE m # l
      <4>1. chain'[m] = chain[m] /\ end'[m] = end[m]
        <5>1. chain'[m] = chain[m]
          BY <3>2, <1>u, UnlinkFacts
        <5> QED BY <5>1, <3>2, <1>f DEF IInv, TypeOK
      <4> QED BY <4>1, <1>f DEF IInv, Linked
    <3> QED BY <3>1, <3>2
  <2> QED BY <2>1, <1>u, UnlinkInv DEF Linked, Occupied
<1> QED BY <1>1, <1>2, <1>u, UnlinkInv DEF IInv

\* A turn of the drop loop preserves the invariant.
LEMMA DropTurnInv ==
  ASSUME IInv, NEW l \in Lists, DropTurn(l)
  PROVE  IInv'
<1>u. Unlink(l)
  <2>1. chain[l] # <<>> /\ chain[l] \in Seq(Slots)
    BY DEF DropTurn, IInv, Linked, TypeOK
  <2>2. 1 \in 1..Len(chain[l]) /\ start[l] = chain[l][1]
    BY <2>1, EmptySeq DEF IInv, Linked
  <2>3. start[l] \in Occupied
    BY <2>2 DEF IInv, Linked
  <2> QED BY <2>3 DEF DropTurn, Unlink
<1>1. TypeOK'
  BY <1>u, UnlinkInv DEF TypeOK, IInv, Occupied, DropTurn
<1>2. Linked'
  <2>1. ASSUME NEW m \in Lists, dropping' # m
        PROVE end'[m] = IF chain'[m] = <<>> THEN MAX ELSE chain'[m][Len(chain'[m])]
    <3>1. m # l /\ dropping # m /\ end' = end
      BY <2>1 DEF DropTurn
    <3>2. chain'[m] = chain[m]
      BY <3>1, <1>u, UnlinkFacts
    <3> QED BY <3>1, <3>2 DEF IInv, Linked
  <2> QED BY <2>1, <1>u, UnlinkInv DEF Linked, Occupied
<1> QED BY <1>1, <1>2, <1>u, UnlinkInv DEF IInv

\* Every step of the specification preserves the inductive invariant.
LEMMA NextInv == IInv /\ [Next]_vars => IInv'
<1> SUFFICES ASSUME IInv, [Next]_vars PROVE IInv'
  OBVIOUS
<1>1. ASSUME NEW l \in Lists, NEW v \in Values, NEW i \in Slots, Push(l, v, i) PROVE IInv'
  BY <1>1, PushInv
<1>2. ASSUME NEW l \in Lists, PopSome(l) PROVE IInv'
  BY <1>2, PopSomeInv
<1>3. ASSUME NEW l \in Lists, PopNone(l) PROVE IInv'
  <2>1. TypeOK' /\ Disjoint' /\ NoLeak'
    BY <1>3 DEF PopNone, IInv, TypeOK, Disjoint, NoLeak, Occupied
  <2>2. Linked'
    BY <1>3 DEF PopNone, IInv, Linked, Occupied
  <2> QED BY <2>1, <2>2 DEF IInv
<1>4. ASSUME NEW l \in Lists, PeekEnd(l) PROVE IInv'
  <2>1. ret' \in Values \cup {NoValue}
    <3>1. CASE end[l] = MAX
      BY <3>1, <1>4 DEF PeekEnd
    <3>2. CASE end[l] # MAX
      <4>1. chain[l] \in Seq(Slots) /\ chain[l] # <<>> /\ end[l] = chain[l][Len(chain[l])]
        BY <1>4, <3>2 DEF PeekEnd, IInv, Linked, TypeOK
      <4>2. Len(chain[l]) \in 1..Len(chain[l])
        BY <4>1, EmptySeq
      <4>3. end[l] \in Occupied
        BY <4>1, <4>2 DEF IInv, Linked
      <4>4. slab[end[l]] \in Entry
        BY <4>3 DEF IInv, TypeOK
      <4> QED BY <4>4, <3>2, <1>4 DEF PeekEnd, Entry
    <3> QED BY <3>1, <3>2
  <2> QED BY <2>1, <1>4 DEF PeekEnd, IInv, TypeOK, Linked, Disjoint, NoLeak, Occupied
<1>5. ASSUME NEW l \in Lists, DropBegin(l) PROVE IInv'
  <2>1. TypeOK' /\ Disjoint' /\ NoLeak'
    BY <1>5 DEF DropBegin, IInv, TypeOK, Disjoint, NoLeak, Occupied
  <2>2. Linked'
    BY <1>5 DEF DropBegin, IInv, Linked, Occupied
  <2> QED BY <2>1, <2>2 DEF IInv
<1>6. ASSUME NEW l \in Lists, DropTurn(l) PROVE IInv'
  BY <1>6, DropTurnInv
<1>7. ASSUME NEW l \in Lists, DropEnd(l) PROVE IInv'
  <2>0. TypeOK'
    BY <1>7 DEF DropEnd, IInv, TypeOK, Occupied
  <2>1. Disjoint' /\ NoLeak'
    BY <1>7 DEF DropEnd, IInv, Disjoint, NoLeak, Occupied
  <2>2. chain[l] = <<>>
    <3> SUFFICES ASSUME chain[l] # <<>> PROVE FALSE
      OBVIOUS
    <3>1. 1 \in 1..Len(chain[l])
      BY EmptySeq DEF IInv, TypeOK
    <3>2. start[l] = chain[l][1] /\ chain[l][1] \in Occupied
      BY <3>1 DEF IInv, Linked
    <3> QED BY <3>2, <1>7 DEF DropEnd, IInv, TypeOK
  <2>3. Linked'
    <3>1. ASSUME NEW m \in Lists
          PROVE  end'[m] = IF chain'[m] = <<>> THEN MAX ELSE chain'[m][Len(chain'[m])]
      BY <1>7, <2>2 DEF DropEnd, IInv, Linked, TypeOK
    <3> QED BY <3>1, <1>7 DEF DropEnd, IInv, Linked, Occupied
  <2> QED BY <2>0, <2>1, <2>3 DEF IInv
<1>8. CASE UNCHANGED vars
  BY <1>8 DEF vars, IInv, TypeOK, Linked, Disjoint, NoLeak, Occupied
<1> QED BY <1>1, <1>2, <1>3, <1>4, <1>5, <1>6, <1>7, <1>8 DEF Next

\* The lists stay linked, disjoint and without leaked entries in every
\* execution of push, pop, peek_end and drop on any number of lists that share
\* one slab.
THEOREM ListsIntact == Spec => [](TypeOK /\ Linked /\ Disjoint /\ NoLeak)
<1>1. IInv => TypeOK /\ Linked /\ Disjoint /\ NoLeak
  BY DEF IInv
<1> QED BY InitInv, NextInv, <1>1, PTL DEF Spec

-----------------------------------------------------------------------------
\* The entries a list holds, oldest first, also while it is being dropped.
Entries(l) == [k \in 1..Len(chain[l]) |-> slab[chain[l][k]].entry]

EntriesOK ==
  \A l \in Lists :
    /\ Entries(l) \in Seq(Values)
    /\ Len(Entries(l)) = Len(chain[l])
    /\ Len(chain[l]) \in Nat
    /\ \A k \in 1..Len(chain[l]) :
         /\ Entries(l)[k] = slab[chain[l][k]].entry
         /\ chain[l][k] \in Occupied
    /\ Entries(l) = <<>> <=> chain[l] = <<>>

\* The entries of a list are a sequence of values as long as its chain.
LEMMA EntriesSeq == IInv => EntriesOK
<1> SUFFICES ASSUME IInv, NEW l \in Lists
             PROVE  /\ Entries(l) \in Seq(Values)
                    /\ Len(Entries(l)) = Len(chain[l])
                    /\ Len(chain[l]) \in Nat
                    /\ \A k \in 1..Len(chain[l]) :
                         /\ Entries(l)[k] = slab[chain[l][k]].entry
                         /\ chain[l][k] \in Occupied
                    /\ Entries(l) = <<>> <=> chain[l] = <<>>
  BY DEF EntriesOK
<1>1. chain[l] \in Seq(Slots) /\ Len(chain[l]) \in Nat
  BY DEF IInv, TypeOK
<1>2. \A k \in 1..Len(chain[l]) : chain[l][k] \in Occupied
  BY DEF IInv, Linked
<1>3. \A k \in 1..Len(chain[l]) : slab[chain[l][k]].entry \in Values
  BY <1>2 DEF IInv, TypeOK, Entry
<1>4. Entries(l) \in Seq(Values) /\ Len(Entries(l)) = Len(chain[l])
  BY <1>1, <1>3 DEF Entries
<1>5. Entries(l) = <<>> <=> chain[l] = <<>>
  <2>1. (Entries(l) = <<>>) <=> (Len(Entries(l)) = 0)
    BY <1>4, EmptySeq
  <2>2. (chain[l] = <<>>) <=> (Len(chain[l]) = 0)
    BY <1>1, EmptySeq
  <2> QED BY <2>1, <2>2, <1>4
<1> QED BY <1>1, <1>2, <1>4, <1>5 DEF Entries

\* push appends to one queue and leaves the others alone.
LEMMA PushEntries ==
  ASSUME IInv, IInv', NEW l \in Lists, NEW v \in Values, NEW i \in Slots, Push(l, v, i)
  PROVE  \A m \in Lists : Entries(m)' = IF m = l THEN Append(Entries(l), v) ELSE Entries(m)
<1> TAKE m \in Lists
<1>s. \A j \in Occupied : j \in Occupied' /\ slab'[j].entry = slab[j].entry
  BY DEF Push, Occupied
<1>n. i \notin Occupied /\ slab'[i].entry = v
  BY DEF Push, Occupied
<1>e. \A k \in 1..Len(chain[m]) : chain[m][k] \in Occupied
  BY DEF IInv, Linked
<1>1. CASE m = l
  <2> DEFINE e == Entries(l)
             f == Entries(l)'
  <2>1. chain[l] \in Seq(Slots) /\ chain'[l] = Append(chain[l], i)
    BY DEF Push, IInv, TypeOK
  <2>2. /\ Len(chain'[l]) = Len(chain[l]) + 1
        /\ chain'[l][Len(chain[l]) + 1] = i
        /\ \A k \in 1..Len(chain[l]) : chain'[l][k] = chain[l][k]
    BY <2>1, AppendProperties
  <2>3. /\ f \in Seq(Values) /\ Len(f) = Len(chain'[l])
        /\ \A k \in 1..Len(chain'[l]) : f[k] = slab'[chain'[l][k]].entry
    <3>1. EntriesOK'
      BY EntriesSeq, PTL
    <3> QED BY <3>1 DEF EntriesOK
  <2>4. /\ e \in Seq(Values) /\ Len(e) = Len(chain[l]) /\ Len(chain[l]) \in Nat
        /\ \A k \in 1..Len(chain[l]) : e[k] = slab[chain[l][k]].entry
    BY EntriesSeq DEF EntriesOK
  <2>5. /\ Append(e, v) \in Seq(Values) /\ Len(Append(e, v)) = Len(e) + 1
        /\ \A k \in 1..Len(e) : Append(e, v)[k] = e[k]
        /\ Append(e, v)[Len(e) + 1] = v
    <3> HIDE DEF e
    <3> QED BY <2>4, AppendProperties
  <2>6. ASSUME NEW k \in 1..Len(f) PROVE f[k] = Append(e, v)[k]
    <3> HIDE DEF e, f
    <3>0. Len(f) = Len(e) + 1 /\ Len(e) = Len(chain[l])
      BY <2>2, <2>3, <2>4
    <3>1. CASE k = Len(e) + 1
      <4>1. k \in 1..Len(chain'[l]) /\ chain'[l][k] = i
        BY <3>0, <3>1, <2>2, <2>4
      <4>2. f[k] = slab'[i].entry
        BY <4>1, <2>3
      <4> QED BY <4>2, <3>1, <2>5, <1>n
    <3>2. CASE k # Len(e) + 1
      <4>1. k \in 1..Len(e) /\ k \in 1..Len(chain[l]) /\ k \in 1..Len(chain'[l])
        BY <3>0, <3>2, <2>2, <2>4
      <4>2. f[k] = slab'[chain[l][k]].entry /\ chain[l][k] \in Occupied
        BY <4>1, <2>2, <2>3, <1>e, <1>1
      <4>3. f[k] = e[k]
        BY <4>1, <4>2, <1>s, <2>4
      <4> QED BY <4>1, <4>3, <2>5
    <3> QED BY <3>1, <3>2
  <2>7. f = Append(e, v)
    <3> HIDE DEF e, f
    <3>1. Len(f) = Len(Append(e, v))
      BY <2>2, <2>3, <2>4, <2>5
    <3> QED BY <2>3, <2>5, <2>6, <3>1, SeqEqual
  <2> QED BY <2>7, <1>1
<1>2. CASE m # l
  <2>1. chain'[m] = chain[m]
    BY <1>2 DEF Push, IInv, TypeOK
  <2> QED BY <2>1, <1>2, <1>e, <1>s DEF Entries
<1> QED BY <1>1, <1>2

\* pop and the drop loop take the oldest entry off one queue.
LEMMA UnlinkEntries ==
  ASSUME IInv, IInv', NEW l \in Lists, Unlink(l)
  PROVE  /\ Entries(l) # <<>>
         /\ Head(Entries(l)) = slab[start[l]].entry
         /\ \A m \in Lists : Entries(m)' = IF m = l THEN Tail(Entries(l)) ELSE Entries(m)
<1> DEFINE e == Entries(l)
           f == Entries(l)'
<1>u. /\ chain[l] \in Seq(Slots) /\ chain[l] # <<>> /\ Len(chain[l]) \in Nat \ {0}
      /\ start[l] = chain[l][1]
      /\ Len(chain'[l]) = Len(chain[l]) - 1
      /\ \A k \in 1..Len(chain'[l]) : chain'[l][k] = chain[l][k + 1]
      /\ \A m \in Lists : m # l => chain'[m] = chain[m]
      /\ \A j \in Occupied' : slab'[j] = slab[j]
  BY UnlinkFacts DEF Occupied
<1>1. EntriesOK /\ EntriesOK'
  BY EntriesSeq, PTL
<1>2. /\ e \in Seq(Values) /\ Len(e) = Len(chain[l]) /\ e # <<>>
      /\ \A k \in 1..Len(chain[l]) : e[k] = slab[chain[l][k]].entry
  BY <1>1, <1>u DEF EntriesOK
<1>3. /\ f \in Seq(Values) /\ Len(f) = Len(chain'[l])
      /\ \A k \in 1..Len(chain'[l]) : f[k] = slab'[chain'[l][k]].entry /\ chain'[l][k] \in Occupied'
  BY <1>1 DEF EntriesOK
<1>4. /\ Tail(e) \in Seq(Values) /\ Len(Tail(e)) = Len(e) - 1
      /\ \A k \in 1..Len(Tail(e)) : Tail(e)[k] = e[k + 1]
  <2> HIDE DEF e
  <2> QED BY <1>2, HeadTailProperties
<1>5. Head(e) = slab[start[l]].entry
  <2>1. 1 \in 1..Len(chain[l])
    BY <1>u
  <2>2. e[1] = slab[chain[l][1]].entry
    BY <2>1, <1>2
  <2>3. Head(e) = e[1]
    <3> HIDE DEF e
    <3> QED BY <1>2
  <2> QED BY <2>2, <2>3, <1>u
<1>6. f = Tail(e)
  <2> HIDE DEF e, f
  <2>1. Len(f) = Len(Tail(e)) /\ Len(f) = Len(chain[l]) - 1
    BY <1>2, <1>3, <1>4, <1>u
  <2>2. ASSUME NEW k \in 1..Len(f) PROVE f[k] = Tail(e)[k]
    <3>1. k \in 1..Len(chain'[l]) /\ k \in 1..Len(Tail(e)) /\ k + 1 \in 1..Len(chain[l])
      BY <2>1, <1>3, <1>u
    <3>2. f[k] = slab'[chain[l][k + 1]].entry /\ chain[l][k + 1] \in Occupied'
      BY <3>1, <1>3, <1>u
    <3>3. f[k] = slab[chain[l][k + 1]].entry
      BY <3>2, <1>u
    <3>4. e[k + 1] = slab[chain[l][k + 1]].entry
      BY <3>1, <1>2
    <3> QED BY <3>1, <3>3, <3>4, <1>4
  <2> QED BY <1>3, <1>4, <2>1, <2>2, SeqEqual
<1>7. ASSUME NEW m \in Lists, m # l PROVE Entries(m)' = Entries(m)
  <2>1. chain'[m] = chain[m]
    BY <1>7, <1>u
  <2>2. \A k \in 1..Len(chain'[m]) : chain'[m][k] \in Occupied'
    BY <1>1 DEF EntriesOK
  <2> QED BY <2>1, <2>2, <1>u DEF Entries
<1> QED BY <1>2, <1>5, <1>6, <1>7

-----------------------------------------------------------------------------
\* The refinement mapping: a list that is being dropped is empty to its users.
qbar == [l \in Lists |-> Contents(l)]

\* Every step of the lists is a step of the queues or leaves them unchanged.
LEMMA StepSimulation == IInv /\ IInv' /\ [Next]_vars => [F!Next]_(F!vars)
<1> SUFFICES ASSUME IInv, IInv', [Next]_vars PROVE [F!Next]_(F!vars)
  OBVIOUS
<1>c. \A m \in Lists : Contents(m) = IF dropping = m THEN <<>> ELSE Entries(m)
  BY DEF Contents, Entries
<1>d. \A m \in Lists : Contents(m)' = IF dropping' = m THEN <<>> ELSE Entries(m)'
  BY DEF Contents, Entries
<1>e. EntriesOK
  BY EntriesSeq
<1>1. ASSUME NEW l \in Lists, NEW v \in Values, NEW i \in Slots, Push(l, v, i)
      PROVE  F!Push(l, v)
  <2>1. dropping = NoList /\ dropping' = NoList /\ ret' = NoValue
    BY <1>1 DEF Push
  <2>2. \A m \in Lists : Entries(m)' = IF m = l THEN Append(Entries(l), v) ELSE Entries(m)
    BY <1>1, PushEntries
  <2>3. qbar' = [qbar EXCEPT ![l] = Append(@, v)]
    BY <2>1, <2>2, <1>c, <1>d DEF qbar
  <2> QED BY <2>1, <2>3 DEF F!Push, qbar
<1>2. ASSUME NEW l \in Lists, PopSome(l) PROVE F!Pop(l)
  <2>1. Unlink(l) /\ dropping = NoList /\ dropping' = NoList /\ ret' = slab[start[l]].entry
    BY <1>2 DEF PopSome, Unlink
  <2>2. /\ Entries(l) # <<>> /\ Head(Entries(l)) = slab[start[l]].entry
        /\ \A m \in Lists : Entries(m)' = IF m = l THEN Tail(Entries(l)) ELSE Entries(m)
    BY <2>1, UnlinkEntries
  <2>3. qbar' = [qbar EXCEPT ![l] = Tail(@)] /\ qbar[l] = Entries(l)
    BY <2>1, <2>2, <1>c, <1>d DEF qbar
  <2> QED BY <2>1, <2>2, <2>3 DEF F!Pop, qbar
<1>3. ASSUME NEW l \in Lists, PopNone(l) PROVE F!Pop(l)
  <2>1. chain[l] = <<>>
    <3> SUFFICES ASSUME chain[l] # <<>> PROVE FALSE
      OBVIOUS
    <3>1. 1 \in 1..Len(chain[l])
      BY EmptySeq DEF IInv, TypeOK
    <3>2. start[l] = chain[l][1] /\ chain[l][1] \in Occupied
      BY <3>1 DEF IInv, Linked
    <3> QED BY <3>2, <1>3 DEF PopNone
  <2>2. Entries(l) = <<>>
    BY <2>1, <1>e DEF EntriesOK
  <2>3. qbar[l] = <<>> /\ qbar' = qbar
    BY <2>2, <1>c, <1>3 DEF qbar, PopNone, Contents
  <2> QED BY <2>3, <1>3 DEF F!Pop, qbar, PopNone
<1>4. ASSUME NEW l \in Lists, PeekEnd(l) PROVE F!PeekEnd(l)
  <2>1. qbar' = qbar /\ qbar[l] = Entries(l)
    BY <1>c, <1>4 DEF qbar, PeekEnd, Contents
  <2>2. CASE chain[l] = <<>>
    <3>1. Entries(l) = <<>> /\ end[l] = MAX
      BY <2>2, <1>e, <1>4 DEF EntriesOK, IInv, Linked, PeekEnd
    <3> QED BY <3>1, <2>1, <1>4 DEF F!PeekEnd, PeekEnd, qbar
  <2>3. CASE chain[l] # <<>>
    <3>1. Len(chain[l]) \in 1..Len(chain[l])
      BY <2>3, EmptySeq DEF IInv, TypeOK
    <3>2. end[l] = chain[l][Len(chain[l])] /\ end[l] \in Occupied
      BY <2>3, <3>1, <1>4 DEF IInv, Linked, PeekEnd
    <3>3. end[l] # MAX
      BY <3>2 DEF IInv, TypeOK
    <3>4. Entries(l)[Len(Entries(l))] = slab[end[l]].entry /\ Entries(l) # <<>>
      BY <2>3, <3>1, <3>2, <1>e DEF EntriesOK
    <3> QED BY <3>3, <3>4, <2>1, <1>4 DEF F!PeekEnd, PeekEnd, qbar
  <2> QED BY <2>2, <2>3
<1>5. ASSUME NEW l \in Lists, DropBegin(l) PROVE F!Clear(l)
  <2>1. \A m \in Lists : Entries(m)' = Entries(m)
    BY <1>5 DEF DropBegin, Entries
  <2>2. qbar' = [qbar EXCEPT ![l] = <<>>]
    BY <2>1, <1>5, <1>c, <1>d DEF DropBegin, qbar
  <2> QED BY <2>2, <1>5 DEF F!Clear, DropBegin, qbar
<1>6. ASSUME NEW l \in Lists, DropTurn(l) PROVE UNCHANGED F!vars
  <2>1. chain[l] # <<>> /\ chain[l] \in Seq(Slots)
    BY <1>6 DEF DropTurn, IInv, Linked, TypeOK
  <2>2. 1 \in 1..Len(chain[l]) /\ start[l] = chain[l][1]
    BY <2>1, EmptySeq DEF IInv, Linked
  <2>3. Unlink(l)
    BY <2>2, <1>6 DEF IInv, Linked, Unlink, DropTurn
  <2>4. \A m \in Lists : m # l => Entries(m)' = Entries(m)
    BY <2>3, UnlinkEntries
  <2>5. qbar' = qbar
    BY <2>4, <1>6, <1>c, <1>d DEF DropTurn, qbar
  <2> QED BY <2>5, <1>6 DEF F!vars, DropTurn, qbar
<1>7. ASSUME NEW l \in Lists, DropEnd(l) PROVE UNCHANGED F!vars
  <2>1. chain[l] = <<>>
    <3> SUFFICES ASSUME chain[l] # <<>> PROVE FALSE
      OBVIOUS
    <3>1. 1 \in 1..Len(chain[l])
      BY EmptySeq DEF IInv, TypeOK
    <3>2. start[l] = chain[l][1] /\ chain[l][1] \in Occupied
      BY <3>1 DEF IInv, Linked
    <3> QED BY <3>2, <1>7 DEF DropEnd, IInv, TypeOK
  <2>2. \A m \in Lists : Entries(m)' = Entries(m)
    BY <1>7 DEF DropEnd, Entries
  <2>3. Entries(l) = <<>>
    BY <2>1, <1>e DEF EntriesOK
  <2>4. qbar' = qbar
    BY <2>2, <2>3, <1>7, <1>c, <1>d DEF DropEnd, qbar
  <2> QED BY <2>4, <1>7 DEF F!vars, DropEnd, qbar
<1>8. CASE UNCHANGED vars
  BY <1>8 DEF vars, F!vars, Contents
<1> QED BY <1>1, <1>2, <1>3, <1>4, <1>5, <1>6, <1>7, <1>8 DEF Next, F!Next

\* The linked lists in the shared slab implement independent FIFO queues:
\* every value pushed on a list is popped from that list, once and in order,
\* whatever happens to the other lists.
THEOREM SlabListImplementsFifo == Spec => ImplementsFifo
<1>1. Init => F!Init
  BY EntriesSeq, InitInv DEF Init, F!Init, Contents
<1>2. IInv /\ IInv' /\ [Next]_vars => [F!Next]_(F!vars)
  BY StepSimulation
<1> QED BY <1>1, <1>2, InitInv, NextInv, PTL DEF Spec, ImplementsFifo, F!Spec
=============================================================================
