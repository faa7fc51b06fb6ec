------------------------------ MODULE SharedFd ------------------------------
(***************************************************************************)
(* The sharing and closing of one file descriptor (src/io/shared_fd.rs).   *)
(*                                                                         *)
(* A File or a socket owns one SharedFd; every operation in flight holds a *)
(* clone of it, so that the descriptor number stays valid while the kernel *)
(* may still use it.  File::close consumes the file and returns a future   *)
(* that waits until its own SharedFd is the only one left, then submits a  *)
(* close operation to the ring.  Without close(), the last SharedFd to be  *)
(* dropped closes the descriptor synchronously.                            *)
(*                                                                         *)
(* Everything runs on the one thread of the runtime, so a drop and a poll  *)
(* are atomic with respect to each other; what interleaves is their order. *)
(***************************************************************************)
EXTENDS FiniteSets, Naturals

CONSTANTS
    Clones,     \* SharedFd clones that operations may hold
    Wakers,     \* wakers the closing future may be polled with
    None        \* no waker

ASSUME FdAssumption == IsFiniteSet(Clones) /\ None \notin Wakers

VARIABLES
    state,      \* Inner::state: "Init", "Waiting" or "Closed"
    waker,      \* the waker inside WaitingForUniqueness, else None
    clones,     \* the clones that exist beside the owner's SharedFd
    owner,      \* where the owner is, see Owner
    polled,     \* the waker the closing future was last polled with
    woken,      \* that waker has been woken since
    fd,         \* the descriptor: "open", "queued" (close in the ring), "closed"
    closes      \* closes issued for this descriptor number

vars == <<state, waker, clones, owner, polled, woken, fd, closes>>

(***************************************************************************)
(* The owner has an open file, or holds the future of close(): not polled  *)
(* yet, waiting for uniqueness, or awaiting the close operation.  At the   *)
(* end the future has returned Ok (done) or the error of the submission    *)
(* (failed), or file or future was dropped.                                *)
(***************************************************************************)
Owner == {"open", "closing", "waiting", "submitted", "done", "failed", "dropped"}
Gone == {"done", "failed", "dropped"}

TypeOK ==
    /\ state \in {"Init", "Waiting", "Closed"}
    /\ waker \in Wakers \cup {None}
    /\ clones \subseteq Clones
    /\ owner \in Owner
    /\ polled \in Wakers \cup {None}
    /\ woken \in BOOLEAN
    /\ fd \in {"open", "queued", "closed"}
    /\ closes \in Nat

Init ==
    /\ state = "Init" /\ waker = None
    /\ clones = {}
    /\ owner = "open"
    /\ polled = None /\ woken = FALSE
    /\ fd = "open" /\ closes = 0

-----------------------------------------------------------------------------
(* Operations on the file: each takes a clone and later gives it up.       *)

\* An operation is created through a reference to the file.
Clone(c) ==
    /\ owner = "open"
    /\ c \notin clones
    /\ clones' = clones \cup {c}
    /\ UNCHANGED <<state, waker, owner, polled, woken, fd, closes>>

\* The wake-up left out.
WakeNobody ==
    /\ state' = IF state = "Waiting" THEN "Init" ELSE state
    /\ waker' = None
    /\ woken' = woken

(***************************************************************************)
(* Drop for SharedFd: take the waker out of WaitingForUniqueness and wake  *)
(* it.  The wake-up counts for the closing future if it is the waker that  *)
(* future was last polled with.                                            *)
(***************************************************************************)
WakeWaiting ==
    /\ state' = IF state = "Waiting" THEN "Init" ELSE state
    /\ waker' = None
    /\ woken' = (woken \/ (state = "Waiting" /\ waker = polled))

\* The test of the state left out.
InnerDropAlways == fd' = "closed" /\ closes' = closes + 1

\* The synchronous close left out.
InnerDropNever == UNCHANGED <<fd, closes>>

(***************************************************************************)
(* Drop for Inner, run when the last SharedFd goes: close the descriptor   *)
(* now, unless close() has already taken charge of it.                     *)
(***************************************************************************)
InnerDrop ==
    IF state = "Closed"
    THEN UNCHANGED <<fd, closes>>
    ELSE fd' = "closed" /\ closes' = closes + 1

DropClone(c) ==
    /\ c \in clones
    /\ clones' = clones \ {c}
    /\ WakeWaiting
    /\ IF clones = {c} /\ owner \in Gone
       THEN InnerDrop
       ELSE UNCHANGED <<fd, closes>>
    /\ UNCHANGED <<owner, polled>>

-----------------------------------------------------------------------------
(* The owner.                                                              *)

\* File::close takes the file by value: no operation can start afterwards.
CloseCall ==
    /\ owner = "open"
    /\ owner' = "closing"
    /\ UNCHANGED <<state, waker, clones, polled, woken, fd, closes>>

\* The file, or the future of close(), goes out of scope.
DropOwner ==
    /\ owner \notin Gone
    /\ owner' = "dropped"
    /\ WakeWaiting
    /\ IF clones = {} THEN InnerDrop ELSE UNCHANGED <<fd, closes>>
    /\ UNCHANGED <<clones, polled>>

\* Uniqueness taken for granted.
AssumeUnique == TRUE

\* Rc::get_mut succeeds: no clone is left.
Unique == clones = {}

(***************************************************************************)
(* A poll that finds the descriptor shared: register the task's waker, or  *)
(* replace the registered one if the future has moved to another task.     *)
(***************************************************************************)
PollShared(w) ==
    /\ owner \in {"closing", "waiting"} /\ ~Unique
    /\ owner' = "waiting"
    /\ state' = "Waiting"
    /\ waker' = w
    /\ polled' = w /\ woken' = FALSE
    /\ UNCHANGED <<clones, fd, closes>>

(***************************************************************************)
(* A poll that finds it unique: mark Inner as closed, then submit the      *)
(* close operation.                                                        *)
(***************************************************************************)
PollUnique(w) ==
    /\ owner \in {"closing", "waiting"} /\ Unique
    /\ owner' = "submitted"
    /\ state' = "Closed" /\ waker' = None
    /\ fd' = "queued" /\ closes' = closes + 1
    /\ polled' = w /\ woken' = FALSE
    /\ UNCHANGED clones

(***************************************************************************)
(* The same poll when submit_op fails: the error is returned, the future   *)
(* ends and drops the last SharedFd, whose Inner is already marked closed. *)
(* Nothing closes the descriptor after that.                               *)
(***************************************************************************)
PollSubmitError(w) ==
    /\ owner \in {"closing", "waiting"} /\ Unique
    /\ owner' = "failed"
    /\ state' = "Closed" /\ waker' = None
    /\ polled' = w /\ woken' = FALSE
    /\ UNCHANGED <<clones, fd, closes>>

\* The kernel executes the queued close and the driver, dispatching its
\* completion, wakes the future that awaits it.
KernelClose ==
    /\ fd = "queued"
    /\ fd' = "closed"
    /\ woken' = (woken \/ owner = "submitted")
    /\ UNCHANGED <<state, waker, clones, owner, polled, closes>>

\* A poll of the submitted close that finds no completion yet.
PollSubmitted(w) ==
    /\ owner = "submitted" /\ fd = "queued"
    /\ polled' = w /\ woken' = FALSE
    /\ UNCHANGED <<state, waker, clones, owner, fd, closes>>

\* A poll that finds the completion: close() returns and the last SharedFd
\* is dropped; Inner is marked closed, so its drop does nothing.
PollClosed(w) ==
    /\ owner = "submitted" /\ fd = "closed"
    /\ owner' = "done"
    /\ polled' = w /\ woken' = FALSE
    /\ InnerDrop
    /\ UNCHANGED <<state, waker, clones>>

Poll(w) ==
    \/ PollShared(w)
    \/ PollUnique(w)
    \/ PollSubmitError(w)
    \/ PollSubmitted(w)
    \/ PollClosed(w)

Finished == owner \in Gone /\ clones = {} /\ fd # "queued" /\ UNCHANGED vars

Next ==
    \/ \E c \in Clones : Clone(c) \/ DropClone(c)
    \/ CloseCall
    \/ DropOwner
    \/ \E w \in Wakers : Poll(w)
    \/ KernelClose
    \/ Finished

(***************************************************************************)
(* A task is polled when it is new or has been woken; any other poll may   *)
(* happen and need not.  Operations in flight end and drop their clone,    *)
(* and the kernel executes what was submitted.                             *)
(***************************************************************************)
Scheduled == (owner = "closing" \/ woken) /\ \E w \in Wakers : Poll(w)

Fairness ==
    /\ WF_vars(Scheduled)
    /\ \A c \in Clones : WF_vars(DropClone(c))
    /\ WF_vars(KernelClose)

Spec == Init /\ [][Next]_vars
FairSpec == Spec /\ Fairness

-----------------------------------------------------------------------------
(* Properties.                                                             *)

(***************************************************************************)
(* While an operation holds a clone, nobody has closed the descriptor or   *)
(* queued its close: an operation in flight never meets a number that the  *)
(* process may have reused (SharedFd::close, Inner::drop).                 *)
(***************************************************************************)
NotClosedInUse == clones # {} => fd = "open"

(***************************************************************************)
(* The number is closed at most once, whichever of close() and the drops   *)
(* gets there first: a second close could hit a descriptor opened since.   *)
(***************************************************************************)
ClosedOnce == closes <= 1

(***************************************************************************)
(* A closing future that waits is either woken or registered with a clone  *)
(* still to be dropped, and registered with the waker it was last polled   *)
(* with: the last clone cannot go unnoticed (Drop for SharedFd).           *)
(***************************************************************************)
CloserWoken ==
    (owner = "waiting" /\ ~woken) =>
        clones # {} /\ state = "Waiting" /\ waker = polled

(***************************************************************************)
(* Once the owner and all operations have let go, the descriptor is closed *)
(* or its close is queued, unless the submission of the close failed.      *)
(***************************************************************************)
Released ==
    (owner \in {"done", "dropped"} /\ clones = {}) => fd # "open"

(***************************************************************************)
(* Why these hold.  The closing future marks Inner closed only when no     *)
(* clone is left and none can be made; before that, only a drop of the     *)
(* last SharedFd closes the descriptor.                                    *)
(***************************************************************************)
ClosedByOwner ==
    /\ state = "Closed" => clones = {} /\ owner \in {"submitted"} \cup Gone
    /\ owner \in {"submitted", "done", "failed"} => state = "Closed"
    /\ (owner = "dropped" /\ clones # {}) => state # "Closed"

FdFollows ==
    /\ closes = (IF fd = "open" THEN 0 ELSE 1)
    /\ fd # "open" => state = "Closed" \/ (owner = "dropped" /\ clones = {})
    /\ owner \in {"submitted", "done"} => fd # "open"

IInv == TypeOK /\ ClosedByOwner /\ FdFollows /\ CloserWoken /\ Released

(***************************************************************************)
(* close() resolves: every future of close() ends, whatever the order in   *)
(* which the operations in flight finish and the tasks are polled.         *)
(***************************************************************************)
CloseCompletes == (owner = "closing") ~> (owner \in Gone)
=============================================================================
