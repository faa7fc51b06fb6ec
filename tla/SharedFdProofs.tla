--------------------------- MODULE SharedFdProofs ---------------------------
(***************************************************************************)
(* The safety of SharedFd for any number of clones and wakers, by the      *)
(* inductive invariant IInv.  NotClosedInUse and ClosedOnce are not        *)
(* inductive: that the descriptor is untouched while clones exist rests on *)
(* Inner being marked closed only by an owner that is alone                *)
(* (ClosedByOwner), and that nobody closes twice on the link between that  *)
(* mark, the descriptor and the number of closes (FdFollows).              *)
(***************************************************************************)
EXTENDS SharedFd, TLAPS

\* The initial state satisfies the invariant.
LEMMA InitIInv == Init => IInv
<1> SUFFICES ASSUME Init PROVE IInv
    OBVIOUS
<1>1. TypeOK
    BY DEF Init, TypeOK, Owner
<1>2. ClosedByOwner /\ FdFollows /\ CloserWoken /\ Released
    BY DEF Init, ClosedByOwner, FdFollows, CloserWoken, Released, Gone
<1> QED
    BY <1>1, <1>2 DEF IInv

\* No step of a clone, the owner or the kernel breaks the invariant.
LEMMA StepIInv == IInv /\ [Next]_vars => IInv'
<1> SUFFICES ASSUME IInv, [Next]_vars PROVE IInv'
    OBVIOUS
<1> USE DEF IInv, TypeOK, ClosedByOwner, FdFollows, CloserWoken, Released, Owner, Gone
<1>1. ASSUME NEW c \in Clones, Clone(c) PROVE IInv'
    BY <1>1 DEF Clone
<1>2. ASSUME NEW c \in Clones, DropClone(c) PROVE IInv'
    <2>1. /\ c \in clones /\ clones' = clones \ {c}
          /\ owner' = owner /\ polled' = polled /\ waker' = None
          /\ state' = IF state = "Waiting" THEN "Init" ELSE state
          /\ woken' = (woken \/ (state = "Waiting" /\ waker = polled))
        BY <1>2 DEF DropClone, WakeWaiting
    <2>2. state # "Closed" /\ fd = "open" /\ closes = 0
        BY <2>1
    <2>3. IF clones' = {} /\ owner \in Gone
          THEN fd' = "closed" /\ closes' = 1
          ELSE fd' = "open" /\ closes' = 0
        BY <1>2, <2>1, <2>2 DEF DropClone, InnerDrop
    <2>4. TypeOK'
        BY <2>1, <2>3
    <2>5. ClosedByOwner'
        BY <2>1, <2>2
    <2>6. FdFollows'
        BY <2>1, <2>2, <2>3
    <2>7. CloserWoken'
        BY <2>1, <2>2
    <2>8. Released'
        BY <2>1, <2>3
    <2> QED
        BY <2>4, <2>5, <2>6, <2>7, <2>8 DEF IInv
<1>3. CASE CloseCall
    BY <1>3 DEF CloseCall
<1>4. CASE DropOwner
    BY <1>4 DEF DropOwner, WakeWaiting, InnerDrop
<1>5. ASSUME NEW w \in Wakers, Poll(w) PROVE IInv'
    <2>1. CASE PollShared(w)
        <3>1. TypeOK'
            BY <2>1 DEF PollShared
        <3>2. (ClosedByOwner /\ FdFollows /\ CloserWoken /\ Released)'
            BY <2>1 DEF PollShared, Unique
        <3> QED
            BY <3>1, <3>2 DEF IInv
    <2>2. CASE PollUnique(w)
        <3>1. closes' \in Nat
            BY <2>2 DEF PollUnique
        <3>2. TypeOK'
            BY <2>2, <3>1, Zenon DEF PollUnique
        <3>3. (ClosedByOwner /\ FdFollows /\ CloserWoken /\ Released)'
            BY <2>2 DEF PollUnique, Unique
        <3> QED
            BY <3>2, <3>3 DEF IInv
    <2>3. CASE PollSubmitError(w)
        <3>1. TypeOK'
            BY <2>3 DEF PollSubmitError
        <3>2. (ClosedByOwner /\ FdFollows /\ CloserWoken /\ Released)'
            BY <2>3 DEF PollSubmitError, Unique
        <3> QED
            BY <3>1, <3>2 DEF IInv
    <2>4. CASE PollSubmitted(w)
        BY <2>4 DEF PollSubmitted
    <2>5. CASE PollClosed(w)
        <3>1. TypeOK'
            BY <2>5 DEF PollClosed, InnerDrop
        <3>2. (ClosedByOwner /\ FdFollows /\ CloserWoken /\ Released)'
            BY <2>5 DEF PollClosed, InnerDrop
        <3> QED
            BY <3>1, <3>2 DEF IInv
    <2> QED
        BY <1>5, <2>1, <2>2, <2>3, <2>4, <2>5 DEF Poll
<1>6. CASE KernelClose
    BY <1>6 DEF KernelClose
<1>7. CASE UNCHANGED vars
    BY <1>7 DEF vars
<1> QED
    BY <1>1, <1>2, <1>3, <1>4, <1>5, <1>6, <1>7 DEF Next, Finished

\* What the invariant says of the descriptor.
LEMMA IInvSafe == IInv => NotClosedInUse /\ ClosedOnce /\ CloserWoken /\ Released
BY DEF IInv, TypeOK, ClosedByOwner, FdFollows, NotClosedInUse, ClosedOnce

\* The invariant holds throughout, for any number of operations in flight and of
\* tasks polling close().
LEMMA FdInvariant == Spec => []IInv
BY InitIInv, StepIInv, PTL DEF Spec

\* A descriptor is never closed while an operation holds it (SharedFd::close and
\* the drop of Inner).
THEOREM SharedFdSafe == Spec => []NotClosedInUse
BY FdInvariant, IInvSafe, PTL

\* The descriptor is closed at most once, whoever closes it: the owner's close,
\* the drop of the owner or that of the last clone.
THEOREM FdClosedOnce == Spec => []ClosedOnce
BY FdInvariant, IInvSafe, PTL

\* When the last holder goes, the descriptor is closed or being closed.
THEOREM FdReleased == Spec => []Released
BY FdInvariant, IInvSafe, PTL

\* A closer that waits is registered with the waker of its last poll, or woken.
THEOREM CloserAlwaysWoken == Spec => []CloserWoken
BY FdInvariant, IInvSafe, PTL
=============================================================================
