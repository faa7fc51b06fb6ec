-------------------------------- MODULE Fifo --------------------------------
(***************************************************************************)
(* What the indexed lists of op/slab_list.rs promise to their callers: a   *)
(* family of independent first-in first-out queues.  `ret` is the value    *)
(* the last call returned; NoValue stands for Rust's None.                 *)
(***************************************************************************)
EXTENDS Sequences

CONSTANTS Lists,     \* the list identities a caller can hold
          Values,    \* what the lists store
          NoValue    \* the result None

VARIABLES q,         \* the contents of each list, oldest first
          ret        \* the result of the last call

vars == <<q, ret>>

Init ==
  /\ q = [l \in Lists |-> <<>>]
  /\ ret = NoValue

Push(l, v) ==
  /\ q' = [q EXCEPT ![l] = Append(@, v)]
  /\ ret' = NoValue

Pop(l) ==
  \/ /\ q[l] = <<>>
     /\ ret' = NoValue
     /\ q' = q
  \/ /\ q[l] # <<>>
     /\ ret' = Head(q[l])
     /\ q' = [q EXCEPT ![l] = Tail(@)]

PeekEnd(l) ==
  /\ ret' = IF q[l] = <<>> THEN NoValue ELSE q[l][Len(q[l])]
  /\ q' = q

Clear(l) ==
  /\ q' = [q EXCEPT ![l] = <<>>]
  /\ ret' = NoValue

Next ==
  \E l \in Lists :
    \/ \E v \in Values : Push(l, v)
    \/ Pop(l)
    \/ PeekEnd(l)
    \/ Clear(l)

Spec == Init /\ [][Next]_vars
=============================================================================
