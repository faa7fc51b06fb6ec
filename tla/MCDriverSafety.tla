--------------------------- MODULE MCDriverSafety ----------------------------
(***************************************************************************)
(* Two instances of Driver and one of Requests in one state space; the     *)
(* initial state picks the one that moves.  The wide driver, given by the  *)
(* configuration, has rings of two, two wakers, longer multishot streams   *)
(* and a failing io_uring_enter, so that completions wait in the ring and  *)
(* on a list at once and futures move between tasks; s1 rests.  The tight  *)
(* one has rings of one entry and more operations than slab keys, each     *)
(* with one completion.  What is an invariant of Driver for the wide sizes *)
(* is checked of both.                                                     *)
(***************************************************************************)
EXTENDS MCDriver, Requests

VARIABLE mode

Tight == INSTANCE Driver WITH
  Wakers <- {w1}, SQCap <- 1, CQCap <- 1, MaxMore <- 0, MaxErrs <- 0

ASSUME InstanceAssumptions == ReqAssumption

\* After a failed submission the drop of a driver waits for ever (see
\* DropTerminates), and a program without requests left is over.  Both may stutter,
\* so that a deadlock can only be one of the tight driver.
Rests ==
  /\ mode = "requests" \/ (mode = "wide" /\ errs > 0)
  /\ UNCHANGED <<vars, reqVars, mode>>

SafetyInit == Init /\ ReqInit /\ mode \in {"wide", "tight", "requests"}

SafetyNext ==
  \/ mode = "tight" /\ Tight!Next /\ UNCHANGED <<reqVars, mode>>
  \/ mode = "wide" /\ Next /\ fut'[s1] = "new" /\ UNCHANGED <<reqVars, mode>>
  \/ mode = "requests" /\ ReqNext /\ UNCHANGED <<vars, mode>>
  \/ Rests

SafetySpec == SafetyInit /\ [][SafetyNext]_<<vars, reqVars, mode>>
=============================================================================
