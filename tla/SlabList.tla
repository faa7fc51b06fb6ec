------------------------------ MODULE SlabList ------------------------------
(***************************************************************************)
(* src/runtime/driver/op/slab_list.rs: several singly linked lists whose   *)
(* entries live in ONE slab (the `completions` slab of the driver).  A     *)
(* list is nothing but a pair of slab indices (SlabListIndices), so a list *)
(* is intact only as long as no operation on another list frees, reuses or *)
(* relinks one of its entries.                                             *)
(*                                                                         *)
(* `chain` is a history variable: the slab indices of each list, oldest    *)
(* first.  No guard and no update of another variable reads it.            *)
(***************************************************************************)
EXTENDS Naturals, Sequences

CONSTANTS Lists,     \* list identities
          Values,    \* entries
          Slots,     \* keys of the slab; bounds the number of live entries
          MAX,       \* usize::MAX, the null index
          NoValue,   \* Option::None as the result of a call
          NoList     \* no list is being dropped

ASSUME SlabListAssumption ==
  /\ MAX \notin Slots
  /\ NoValue \notin Values
  /\ NoList \notin Lists

VARIABLES start,     \* SlabListIndices.start of each list
          end,       \* SlabListIndices.end of each list
          slab,      \* the occupied keys and their SlabListEntry
          dropping,  \* the list whose Drop loop is running
          ret,       \* the result of the last call
          chain      \* history: the indices of each list in order

vars == <<start, end, slab, dropping, ret, chain>>

Entry == [entry : Values, next : Slots \cup {MAX}]

Occupied == DOMAIN slab

\* Slab::remove: the key becomes vacant.
Freed(i) == [j \in Occupied \ {i} |-> slab[j]]

Init ==
  /\ start = [l \in Lists |-> MAX]
  /\ end = [l \in Lists |-> MAX]
  /\ slab = [i \in {} |-> 0]
  /\ dropping = NoList
  /\ ret = NoValue
  /\ chain = [l \in Lists |-> <<>>]

-----------------------------------------------------------------------------
\* Faulty variant: the old end is not relinked.
PushUnlinked(l, v, i) ==
  /\ dropping = NoList
  /\ i \in Slots \ Occupied
  /\ slab' = [j \in Occupied \cup {i} |->
                IF j = i THEN [entry |-> v, next |-> MAX] ELSE slab[j]]
  /\ end' = [end EXCEPT ![l] = i]
  /\ start' = IF end[l] = MAX THEN [start EXCEPT ![l] = i] ELSE start
  /\ ret' = NoValue
  /\ chain' = [chain EXCEPT ![l] = Append(@, i)]
  /\ UNCHANGED dropping

\* SlabList::push.  Slab::insert returns some vacant key i; the old end is
\* relinked, or the list gets its start.
Push(l, v, i) ==
  /\ dropping = NoList
  /\ i \in Slots \ Occupied
  /\ LET prev == end[l]
     IN  /\ slab' = [j \in Occupied \cup {i} |->
                       IF j = i THEN [entry |-> v, next |-> MAX]
                       ELSE IF j = prev THEN [entry |-> slab[j].entry, next |-> i]
                       ELSE slab[j]]
         /\ end' = [end EXCEPT ![l] = i]
         /\ start' = IF prev = MAX THEN [start EXCEPT ![l] = i] ELSE start
  /\ ret' = NoValue
  /\ chain' = [chain EXCEPT ![l] = Append(@, i)]
  /\ UNCHANGED dropping

\* SlabList::pop when try_remove(start) finds an entry.
PopSome(l) ==
  /\ dropping = NoList
  /\ start[l] \in Occupied
  /\ LET e == slab[start[l]]
     IN  /\ slab' = Freed(start[l])
         /\ end' = IF e.next = MAX THEN [end EXCEPT ![l] = MAX] ELSE end
         /\ start' = [start EXCEPT ![l] = e.next]
         /\ ret' = e.entry
  /\ chain' = [chain EXCEPT ![l] = Tail(@)]
  /\ UNCHANGED dropping

\* SlabList::pop when try_remove(start) finds nothing.
PopNone(l) ==
  /\ dropping = NoList
  /\ start[l] \notin Occupied
  /\ ret' = NoValue
  /\ UNCHANGED <<start, end, slab, dropping, chain>>

\* Faulty variant: the oldest entry is peeked.
PeekStart(l) ==
  /\ dropping = NoList
  /\ ret' = IF start[l] = MAX THEN NoValue ELSE slab[start[l]].entry
  /\ UNCHANGED <<start, end, slab, dropping, chain>>

\* SlabList::peek_end.
PeekEnd(l) ==
  /\ dropping = NoList
  /\ ret' = IF end[l] = MAX THEN NoValue ELSE slab[end[l]].entry
  /\ UNCHANGED <<start, end, slab, dropping, chain>>

\* Drop for SlabList: the loop frees one entry per turn.  Nothing else runs on
\* the driver's thread until the loop ends.
DropBegin(l) ==
  /\ dropping = NoList
  /\ dropping' = l
  /\ ret' = NoValue
  /\ UNCHANGED <<start, end, slab, chain>>

DropTurn(l) ==
  /\ dropping = l
  /\ start[l] # MAX
  /\ slab' = Freed(start[l])
  /\ start' = [start EXCEPT ![l] = slab[start[l]].next]
  /\ chain' = [chain EXCEPT ![l] = Tail(@)]
  /\ UNCHANGED <<end, dropping, ret>>

\* The loop is over and the value is gone; the identity l can be given to a
\* list made by SlabListIndices::new.
DropEnd(l) ==
  /\ dropping = l
  /\ start[l] = MAX
  /\ dropping' = NoList
  /\ end' = [end EXCEPT ![l] = MAX]
  /\ UNCHANGED <<start, slab, ret, chain>>

Next ==
  \E l \in Lists :
    \/ \E v \in Values, i \in Slots : Push(l, v, i)
    \/ PopSome(l)
    \/ PopNone(l)
    \/ PeekEnd(l)
    \/ DropBegin(l)
    \/ DropTurn(l)
    \/ DropEnd(l)

Spec == Init /\ [][Next]_vars

-----------------------------------------------------------------------------
TypeOK ==
  /\ start \in [Lists -> Slots \cup {MAX}]
  /\ end \in [Lists -> Slots \cup {MAX}]
  /\ Occupied \subseteq Slots
  /\ slab \in [Occupied -> Entry]
  /\ dropping \in Lists \cup {NoList}
  /\ ret \in Values \cup {NoValue}
  /\ chain \in [Lists -> Seq(Slots)]

\* The start index, the end index and the next fields of a list's entries
\* spell out the same sequence of entries.  (end is stale while the list is
\* being dropped: the loop never reads it.)
Linked ==
  \A l \in Lists :
    LET c == chain[l] IN
    /\ start[l] = IF c = <<>> THEN MAX ELSE c[1]
    /\ dropping # l => end[l] = IF c = <<>> THEN MAX ELSE c[Len(c)]
    /\ \A k \in 1..Len(c) :
         /\ c[k] \in Occupied
         /\ slab[c[k]].next = IF k = Len(c) THEN MAX ELSE c[k + 1]

\* No entry is shared by two lists or met twice by one: an operation on one
\* list cannot free or relink an entry of another.
Disjoint ==
  \A l, m \in Lists : \A j \in 1..Len(chain[l]), k \in 1..Len(chain[m]) :
    chain[l][j] = chain[m][k] => l = m /\ j = k

\* Every occupied key of the slab is reachable from a list: entries are never
\* leaked (entries_freed_on_drop in the unit tests, for every interleaving of
\* operations on several lists).
NoLeak ==
  \A i \in Occupied : \E l \in Lists : \E k \in 1..Len(chain[l]) : chain[l][k] = i

IInv == TypeOK /\ Linked /\ Disjoint /\ NoLeak

-----------------------------------------------------------------------------
\* The lists implement independent FIFO queues.  Dropping a list empties it as
\* far as callers can tell from the first turn of the loop on.
Contents(l) ==
  IF dropping = l THEN <<>>
  ELSE [k \in 1..Len(chain[l]) |-> slab[chain[l][k]].entry]

F == INSTANCE Fifo WITH q <- [l \in Lists |-> Contents(l)], ret <- ret

ImplementsFifo == F!Spec
=============================================================================
