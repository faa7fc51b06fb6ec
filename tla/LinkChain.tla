----------------------------- MODULE LinkChain ------------------------------
(***************************************************************************)
(* Linked operations: op/link.rs and the oneshot operations of op/mod.rs.  *)
(*                                                                         *)
(* A chain is built call by call, then submitted entry by entry through    *)
(* submit_op_2, which flushes a full submission ring.  The kernel links an *)
(* entry that carries a link flag to the next entry of the same            *)
(* io_uring_enter; the end of a call ends the chain.                       *)
(***************************************************************************)
EXTENDS Naturals, Sequences

CONSTANTS
  MaxLen,    \* bound: operations of a chain
  SQCap,     \* entries of the submission ring
  Prefills   \* entries of other tasks in the ring when the chain is submitted

LinkAssumption == MaxLen \in Nat \ {0} /\ SQCap \in Nat /\ Prefills \subseteq Nat

Ops == 1..MaxLen

VARIABLES
  len,     \* operations in the chain
  flag,    \* link flag of each entry: none, soft or hard
  phase,   \* build, push, submitted
  pushed,  \* entries pushed
  sq,      \* submission ring; 0 is an entry of another task
  room,    \* history: free entries of the ring when the submission began
  pred,    \* the operation the kernel starts each one after, or 0
  kst,     \* new, waits, runs, ok, failed, canceled
  at,      \* the operation the caller awaits; its futures nest the later ones
  kept     \* the caller has not dropped the rest

linkVars == <<len, flag, phase, pushed, sq, room, pred, kst, at, kept>>
kernel == <<pred, kst>>

OpEnded == {"ok", "failed", "canceled"}

LinkInit ==
  /\ len = 1 /\ flag = [o \in Ops |-> "none"] /\ phase = "build" /\ pushed = 0
  /\ sq = <<>> /\ room = 0
  /\ pred = [o \in Ops |-> 0] /\ kst = [o \in Ops |-> "new"]
  /\ at = 1 /\ kept = TRUE

\* Faulty variant: the flag goes to the new, last operation.
LinkLast(f) ==
  /\ phase = "build" /\ len < MaxLen
  /\ len' = len + 1
  /\ flag' = [flag EXCEPT ![len + 1] = f]
  /\ UNCHANGED <<phase, pushed, sq, room, kernel, at, kept>>

\* link and hard_link, on an operation or on a Link: the flag of the FIRST
\* operation is set, and a hard flag stays.
LinkWith(f) ==
  /\ phase = "build" /\ len < MaxLen
  /\ len' = len + 1
  /\ flag' = [flag EXCEPT ![1] = IF @ = "hard" THEN @ ELSE f]
  /\ UNCHANGED <<phase, pushed, sq, room, kernel, at, kept>>

\* Submit for Link: the entries in order, without a break on this thread.
SubmitChain(k) ==
  /\ phase = "build"
  /\ phase' = "push"
  /\ sq' = [i \in 1..k |-> 0]
  /\ room' = SQCap - k
  /\ UNCHANGED <<len, flag, pushed, kernel, at, kept>>

\* Faulty variant: `next` is not submitted.
PushDataOnly ==
  /\ phase = "push" /\ Len(sq) < SQCap
  /\ sq' = Append(sq, 1)
  /\ pushed' = 1
  /\ phase' = "submitted"
  /\ UNCHANGED <<len, flag, room, kernel, at, kept>>

Push ==
  /\ phase = "push" /\ Len(sq) < SQCap
  /\ sq' = Append(sq, pushed + 1)
  /\ pushed' = pushed + 1
  /\ phase' = IF pushed + 1 = len THEN "submitted" ELSE "push"
  /\ UNCHANGED <<len, flag, room, kernel, at, kept>>

\* io_uring_enter: of a full ring from the push loop, or when the thread parks.
\* Each entry follows the one before it, if that one carries a flag.
Enter ==
  /\ sq # <<>>
  /\ phase = "submitted" \/ Len(sq) = SQCap
  /\ LET own    == {i \in DOMAIN sq : sq[i] # 0}
         Leads(i) == i > 1 /\ sq[i - 1] # 0 /\ flag[sq[i - 1]] # "none"
         Place(o) == CHOOSE i \in own : sq[i] = o
         taken  == {sq[i] : i \in own}
     IN  /\ pred' = [o \in Ops |-> IF o \in taken /\ Leads(Place(o)) THEN sq[Place(o) - 1] ELSE pred[o]]
         /\ kst' = [o \in Ops |-> IF o \notin taken THEN kst[o]
                                  ELSE IF pred'[o] = 0 THEN "runs"
                                  ELSE IF kst[pred'[o]] \in OpEnded THEN "runs" ELSE "waits"]
  /\ sq' = <<>>
  /\ UNCHANGED <<len, flag, phase, pushed, room, at, kept>>

\* The operations the kernel has chained behind o.
Behind(o) == {s \in Ops : s > o /\ \A j \in o..(s - 1) : pred[j + 1] = j}

\* An operation ends: its successor starts, or a failure cancels the chain.
KEndLinked(o, ok) ==
  /\ kst[o] = "runs"
  /\ kst' = [s \in Ops |->
       CASE s = o -> (IF ok THEN "ok" ELSE "failed")
         [] s \in Behind(o) /\ ~ok /\ flag[o] = "soft" -> "canceled"
         [] s \in Behind(o) /\ s = o + 1 /\ (ok \/ flag[o] = "hard") -> "runs"
         [] OTHER -> kst[s]]
  /\ UNCHANGED <<len, flag, phase, pushed, sq, room, pred, at, kept>>

\* Poll of LinkedInFlightOneshot: the output of the first operation, and the
\* future of the others.
PollChain ==
  /\ phase = "submitted" /\ kept
  /\ at <= len /\ kst[at] \in OpEnded
  /\ at' = at + 1
  /\ UNCHANGED <<len, flag, phase, pushed, sq, room, kernel, kept>>

\* The futures are dropped; the operations go on.
DropChain ==
  /\ phase = "submitted" /\ kept /\ at <= len
  /\ kept' = FALSE
  /\ UNCHANGED <<len, flag, phase, pushed, sq, room, kernel, at>>

LinkNext ==
  \/ \E f \in {"soft", "hard"} : LinkWith(f)
  \/ \E k \in Prefills : SubmitChain(k)
  \/ Push \/ Enter \/ PollChain \/ DropChain
  \/ \E o \in Ops, ok \in BOOLEAN : KEndLinked(o, ok)

\* The thread goes on, parks, and polls what is answered; the kernel answers.
LinkFairness ==
  /\ WF_linkVars(Push) /\ WF_linkVars(Enter) /\ WF_linkVars(PollChain)
  /\ \A o \in Ops : WF_linkVars(\E ok \in BOOLEAN : KEndLinked(o, ok))

LinkSpec == LinkInit /\ [][LinkNext]_linkVars /\ LinkFairness

-----------------------------------------------------------------------------
Started(o) == kst[o] \in {"runs", "ok", "failed"}

\* Each operation of a chain starts after the one before it has ended ("Construct
\* a new soft Link with current Link and other UnsubmittedOneshot").
ChainInOrder == \A o \in 1..(len - 1) : Started(o + 1) => kst[o] \in OpEnded

\* The first two operations of any chain keep that order as long as the ring had
\* room for both when the chain was submitted, and a soft failure of the first
\* keeps the second from running.
PairLinked ==
  len > 1 /\ room > 1 /\ Started(2) =>
    kst[1] \in OpEnded /\ (flag[1] = "soft" => kst[1] = "ok")

\* Whatever fails, is canceled, or is split by a full ring: every operation of a
\* submitted chain is answered, and a caller who keeps awaiting gets all outputs.
ChainSettles ==
  phase = "push" ~> ((\A o \in 1..len : kst[o] \in OpEnded) /\ (~kept \/ at = len + 1))
=============================================================================
