----------------------------- MODULE OpService ------------------------------
(***************************************************************************)
(* What src/runtime/driver promises to the owner of an operation, without  *)
(* rings, slab keys or wakers.  The service sends the answers of an        *)
(* operation one by one and knows which is the last; the owner sees them   *)
(* in that order, once each, until the operation is closed: by the future  *)
(* that has seen every answer and the last one among them, or because the  *)
(* owner gave it up.  Answers to a closed operation are sent and not seen. *)
(***************************************************************************)
EXTENDS Naturals

CONSTANT Ops         \* operations; each is opened at most once

VARIABLES phase,     \* of each operation: new, open or closed
          sent,      \* how many answers the service has sent
          seen,      \* how many of them the owner has seen
          over       \* operations whose last answer has been sent

vars == <<phase, sent, seen, over>>

Init ==
  /\ phase = [o \in Ops |-> "new"]
  /\ sent = [o \in Ops |-> 0]
  /\ seen = [o \in Ops |-> 0]
  /\ over = {}

Open(o) ==
  /\ phase[o] = "new"
  /\ phase' = [phase EXCEPT ![o] = "open"]
  /\ UNCHANGED <<sent, seen, over>>

Answer(o) ==
  /\ phase[o] # "new" /\ o \notin over
  /\ sent' = [sent EXCEPT ![o] = @ + 1]
  /\ over' \in {over, over \cup {o}}
  /\ UNCHANGED <<phase, seen>>

\* The owner sees the next k answers.
Receive(o, k) ==
  /\ phase[o] = "open"
  /\ seen[o] + k <= sent[o]
  /\ seen' = [seen EXCEPT ![o] = @ + k]
  /\ UNCHANGED <<phase, sent, over>>

\* The owner sees the rest of the answers, and the last one is among them.
Complete(o) ==
  /\ phase[o] = "open"
  /\ o \in over /\ seen[o] < sent[o]
  /\ seen' = [seen EXCEPT ![o] = sent[o]]
  /\ phase' = [phase EXCEPT ![o] = "closed"]
  /\ UNCHANGED <<sent, over>>

GiveUp(o) ==
  /\ phase[o] = "open"
  /\ phase' = [phase EXCEPT ![o] = "closed"]
  /\ UNCHANGED <<sent, seen, over>>

Next ==
  \E o \in Ops :
    \/ Open(o) \/ Answer(o) \/ Complete(o) \/ GiveUp(o)
    \/ \E k \in 1..sent[o] : Receive(o, k)

Spec == Init /\ [][Next]_vars
=============================================================================
