------------------------------- MODULE Driver -------------------------------
(***************************************************************************)
(* src/runtime/driver: one io_uring instance, the slab of operation        *)
(* lifecycles, the futures that own the operations, and the kernel on the  *)
(* other side of the two rings.                                            *)
(*                                                                         *)
(* The driver runs on ONE thread.  `pc` says where that thread is: in user *)
(* code and the event loop ("run"), or inside a driver call that can be    *)
(* interleaved with the kernel.  The kernel's steps (KMore, KFinal) happen *)
(* at any time.                                                            *)
(*                                                                         *)
(*   "run"       tasks are polled, futures are submitted, dropped ...      *)
(*   "push"      the loop around submission().push                         *)
(*   "submit"    Driver::submit, before uring.submit()                     *)
(*   "entered"   inside io_uring_enter: the kernel consumes SQEs           *)
(*   "dispatch"  the loop of dispatch_completions                          *)
(*   "flush", "mark", "cancel", "reap"   the phases of Drop for Driver     *)
(*   "gone"      the driver is dropped                                     *)
(*   "panic"     a panic that takes the runtime down                       *)
(*                                                                         *)
(* The completion list of a multishot operation is a sequence here; module *)
(* SlabList shows that the lists of op/slab_list.rs are such sequences.    *)
(***************************************************************************)
EXTENDS Naturals, Sequences, FiniteSets

CONSTANTS
  Ops,       \* operations; each is submitted at most once
  Multi,     \* the ones that are Op<_, MultiCQEFuture>
  Oneshot,   \* the ones that are InFlightOneshot; the others are Op<_, SingleCQE>
  Wakers,    \* task wakers
  None,      \* no operation, no waker
  NSlots,    \* bound: keys of the lifecycle slab
  SQCap,     \* entries of the submission ring
  CQCap,     \* entries of the completion ring
  MaxMore,   \* bound: completions with the `more` flag per operation
  MaxErrs    \* bound: failures of io_uring_enter other than EBUSY and EINTR

ASSUME DriverAssumption ==
  /\ Multi \subseteq Ops /\ Oneshot \subseteq Ops /\ Multi \cap Oneshot = {}
  /\ None \notin Ops /\ None \notin Wakers
  /\ NSlots \in Nat /\ SQCap \in Nat \ {0} /\ CQCap \in Nat \ {0}
  /\ MaxMore \in Nat /\ MaxErrs \in Nat

VARIABLES
  life,       \* Ops.lifecycle: a Lifecycle, or Vacant, for each key
  fut,        \* the future of each operation: new, submitting, alive or gone
  held,       \* the future still owns its data (Op.data, InFlightOneshot.inner)
  idx,        \* the slab key the future remembers
  sq,         \* submission ring
  inflight,   \* requests the kernel has accepted and not finished
  cancelled,  \* those of them an AsyncCancel has reached
  cq,         \* posted completions: the ring, then the kernel's overflow list
  ring,       \* how many of them are in the ring
  pc,         \* where the driver's thread is
  pend,       \* the SQE the push loop is trying to push
  submitRet,  \* where io_uring_enter returns to
  dispRet,    \* where dispatch_completions returns to
  batch,      \* completions left in the current dispatch_completions
  taken,      \* completions it has read; their ring entries are freed at its end
  cur,        \* the slab key the loops of Drop for Driver are at
  errs,       \* failures of io_uring_enter so far
  asked,      \* operations whose owner called cancel; bounds cancel to once
  owner,      \* history: the operation each slab entry was inserted for
  waker,      \* history: waker of the last poll that left the op unfinished
  notified,   \* history: that waker has been woken since that poll
  posted,     \* history: completions the kernel has posted per operation
  got         \* history: completions the future has consumed

rings    == <<sq, inflight, cancelled, cq, ring>>
control  == <<pc, pend, submitRet, dispRet, batch, taken, cur>>
futures  == <<fut, held, idx, waker, notified, got>>
vars     == <<life, owner, futures, rings, control, errs, asked, posted>>

-----------------------------------------------------------------------------
Slots == 0..(NSlots - 1)

\* The user_data u64::MAX of cancellations: no slab key.
CancelUD == NSlots

\* An entry that starts an operation, or an AsyncCancel for a slab key.
SQE == [op : Ops, cancel : {FALSE}, ud : Nat] \cup [op : Ops \cup {None}, cancel : {TRUE}, ud : Nat]
CQE == [op : Ops \cup {None}, ud : Nat, more : BOOLEAN, n : Nat]

NoSQE == [op |-> None, cancel |-> TRUE, ud |-> CancelUD]

\* enum Lifecycle, and the vacant slab entry.
Vacant            == [st |-> "Vacant", waker |-> None, cqes |-> <<>>, data |-> None]
Submitted         == [st |-> "Submitted", waker |-> None, cqes |-> <<>>, data |-> None]
Waiting(w)        == [st |-> "Waiting", waker |-> w, cqes |-> <<>>, data |-> None]
Ignored(d)        == [st |-> "Ignored", waker |-> None, cqes |-> <<>>, data |-> d]
Completed(c)      == [st |-> "Completed", waker |-> None, cqes |-> <<c>>, data |-> None]
CompletionList(s) == [st |-> "CompletionList", waker |-> None, cqes |-> s, data |-> None]

Last(s) == s[Len(s)]

Least(a, b) == IF a <= b THEN a ELSE b

\* Entries of cq the kernel can show once it has moved its overflow list into
\* the free entries of the ring.
Visible(s) == Least(CQCap, Len(s))

Init ==
  /\ life = [i \in Slots |-> Vacant]
  /\ owner = [i \in Slots |-> None]
  /\ fut = [o \in Ops |-> "new"]
  /\ held = [o \in Ops |-> FALSE]
  /\ idx = [o \in Ops |-> CancelUD]
  /\ sq = <<>> /\ inflight = {} /\ cancelled = {}
  /\ cq = <<>> /\ ring = 0
  /\ pc = "run" /\ pend = NoSQE /\ submitRet = "run" /\ dispRet = "run"
  /\ batch = 0 /\ taken = 0 /\ cur = 0
  /\ errs = 0 /\ asked = {}
  /\ waker = [o \in Ops |-> None]
  /\ notified = [o \in Ops |-> FALSE]
  /\ posted = [o \in Ops |-> 0]
  /\ got = [o \in Ops |-> 0]

-----------------------------------------------------------------------------
(* The kernel.                                                             *)

\* A completion goes to the ring if it has room and nothing waits before it.
Post(c) ==
  /\ cq' = Append(cq, c)
  /\ ring' = IF ring = Len(cq) /\ ring + taken < CQCap THEN ring + 1 ELSE ring

KMore(o) ==
  /\ o \in inflight /\ o \in Multi
  /\ posted[o] < MaxMore
  /\ Post([op |-> o, ud |-> idx[o], more |-> TRUE, n |-> posted[o] + 1])
  /\ posted' = [posted EXCEPT ![o] = @ + 1]
  /\ UNCHANGED <<life, futures, sq, inflight, cancelled, control, errs, asked, owner>>

KFinal(o) ==
  /\ o \in inflight
  /\ Post([op |-> o, ud |-> idx[o], more |-> FALSE, n |-> posted[o] + 1])
  /\ posted' = [posted EXCEPT ![o] = @ + 1]
  /\ inflight' = inflight \ {o}
  /\ cancelled' = cancelled \ {o}
  /\ UNCHANGED <<life, futures, sq, control, errs, asked, owner>>

\* The kernel consumes the oldest SQE, with the overflow list flushed.
Take ==
  /\ sq # <<>>
  /\ sq' = Tail(sq)
  /\ \/ /\ ~Head(sq).cancel
        /\ inflight' = inflight \cup {Head(sq).op}
        /\ UNCHANGED <<cancelled, cq>>
     \/ /\ Head(sq).cancel
        /\ cancelled' = cancelled \cup {o \in inflight : idx[o] = Head(sq).ud}
        /\ cq' = Append(cq, [op |-> None, ud |-> CancelUD, more |-> FALSE, n |-> 0])
        /\ UNCHANGED inflight
  /\ ring' = Visible(cq')

-----------------------------------------------------------------------------
(* Submission.                                                             *)

\* Driver::submit_op and submit_op_2: the lifecycle is inserted first.
Submit(o, i) ==
  /\ pc = "run"
  /\ fut[o] = "new"
  /\ life[i] = Vacant
  /\ life' = [life EXCEPT ![i] = Submitted]
  /\ fut' = [fut EXCEPT ![o] = "submitting"]
  /\ held' = [held EXCEPT ![o] = TRUE]
  /\ idx' = [idx EXCEPT ![o] = i]
  /\ owner' = [owner EXCEPT ![i] = o]
  /\ pend' = [op |-> o, cancel |-> FALSE, ud |-> i]
  /\ pc' = "push"
  /\ UNCHANGED <<rings, submitRet, dispRet, batch, taken, cur, errs, asked,
                 waker, notified, posted, got>>

\* Faulty variant: Op::cancel does not look at is_finished().
CancelFinished(o) ==
  /\ pc = "run"
  /\ o \in Multi \ asked
  /\ fut[o] = "alive"
  /\ life[idx[o]] # Vacant
  /\ asked' = asked \cup {o}
  /\ pend' = [op |-> o, cancel |-> TRUE, ud |-> idx[o]]
  /\ pc' = "push"
  /\ UNCHANGED <<life, futures, rings, submitRet, dispRet, batch, taken, cur, errs, posted, owner>>

\* Op::cancel and Driver::cancel_op.
Cancel(o) ==
  /\ pc = "run"
  /\ o \in Multi \ asked
  /\ fut[o] = "alive" /\ held[o]
  /\ life[idx[o]] # Vacant
  /\ asked' = asked \cup {o}
  /\ pend' = [op |-> o, cancel |-> TRUE, ud |-> idx[o]]
  /\ pc' = "push"
  /\ UNCHANGED <<life, futures, rings, submitRet, dispRet, batch, taken, cur, errs, posted, owner>>

\* Faulty variant: the push ignores the capacity of the ring.
PushUnchecked ==
  /\ pc = "push"
  /\ sq' = Append(sq, pend)
  /\ fut' = IF pend.cancel THEN fut ELSE [fut EXCEPT ![pend.op] = "alive"]
  /\ pend' = NoSQE
  /\ pc' = "run"
  /\ UNCHANGED <<life, held, idx, waker, notified, got, inflight, cancelled, cq, ring,
                 submitRet, dispRet, batch, taken, cur, errs, asked, posted, owner>>

\* The push succeeds: the future, or Ok(()), is returned to the caller.
Push ==
  /\ pc = "push"
  /\ Len(sq) < SQCap
  /\ sq' = Append(sq, pend)
  /\ fut' = IF pend.cancel THEN fut ELSE [fut EXCEPT ![pend.op] = "alive"]
  /\ pend' = NoSQE
  /\ pc' = "run"
  /\ UNCHANGED <<life, held, idx, waker, notified, got, inflight, cancelled, cq, ring,
                 submitRet, dispRet, batch, taken, cur, errs, asked, posted, owner>>

\* The ring is full: flush it with Driver::submit.
PushFull ==
  /\ pc = "push"
  /\ Len(sq) = SQCap
  /\ pc' = "submit"
  /\ submitRet' = "push"
  /\ UNCHANGED <<life, futures, rings, pend, dispRet, batch, taken, cur, errs, asked, posted, owner>>

-----------------------------------------------------------------------------
(* Driver::submit.                                                         *)

SubmitEnter ==
  /\ pc = "submit"
  /\ Take
  /\ pc' = "entered"
  /\ UNCHANGED <<life, futures, pend, submitRet, dispRet, batch, taken, cur, errs, asked, posted, owner>>

\* EBUSY: the overflow list does not fit the ring; make room and try again.
SubmitBusy ==
  /\ pc = "submit"
  /\ Len(cq) > CQCap
  /\ ring' = CQCap
  /\ batch' = CQCap
  /\ pc' = "dispatch" /\ dispRet' = "submit"
  /\ UNCHANGED <<life, futures, sq, inflight, cancelled, cq, pend, submitRet, taken, cur,
                 errs, asked, posted, owner>>

\* Any other error.  submit_op_2 panics; submit_op drops the new Op while the
\* driver is borrowed, which panics in remove_op: either way the caller loses
\* the operation and its data, and the slab keeps the lifecycle.  cancel_op
\* returns the error.  Drop for Driver panics.
SubmitErr ==
  /\ pc = "submit"
  /\ errs < MaxErrs
  /\ errs' = errs + 1
  /\ pend' = NoSQE
  /\ submitRet' = "run"
  /\ \/ /\ submitRet = "push" /\ ~pend.cancel
        /\ fut' = [fut EXCEPT ![pend.op] = "gone"]
        /\ held' = [held EXCEPT ![pend.op] = FALSE]
        /\ pc' = "run"
     \/ /\ submitRet = "push" /\ pend.cancel
        /\ pc' = "run"
        /\ UNCHANGED <<fut, held>>
     \/ /\ submitRet = "flush"
        /\ pc' = "panic"
        /\ UNCHANGED <<fut, held>>
  /\ UNCHANGED <<life, idx, waker, notified, got, rings, dispRet, batch, taken,
                 cur, asked, posted, owner>>

\* io_uring_enter goes on, or returns: when it was asked to wait it does so
\* only after it has consumed every SQE.
EnteredTake ==
  /\ pc = "entered"
  /\ Take
  /\ UNCHANGED <<life, futures, control, errs, asked, posted, owner>>

EnteredReturn ==
  /\ pc = "entered"
  /\ submitRet \in {"cancel", "reap"} => sq # <<>> \/ ring > 0
  /\ IF submitRet = "reap"
     THEN /\ pc' = "dispatch" /\ dispRet' = "reap"
          /\ batch' = ring
     ELSE /\ pc' = submitRet
          /\ UNCHANGED <<dispRet, batch>>
  /\ submitRet' = "run"
  /\ UNCHANGED <<life, futures, rings, pend, taken, cur, errs, asked, posted, owner>>

\* Handle::flush, from the on_thread_park hook: uring.submit() whose errors
\* (EBUSY too) are ignored.  The kernel flushes its overflow list either way.
Park ==
  /\ pc = "run"
  /\ Take
  /\ pc' = "entered" /\ submitRet' = "run"
  /\ UNCHANGED <<life, futures, pend, dispRet, batch, taken, cur, errs, asked, posted, owner>>

ParkFlushesOnly ==
  /\ pc = "run"
  /\ ring < Visible(cq)
  /\ ring' = Visible(cq)
  /\ UNCHANGED <<life, futures, sq, inflight, cancelled, cq, control, errs, asked, posted, owner>>

-----------------------------------------------------------------------------
(* Completion.                                                             *)

\* drive_uring_wakes: the ring is readable.
Dispatch ==
  /\ pc = "run"
  /\ ring > 0
  /\ pc' = "dispatch" /\ dispRet' = "run"
  /\ batch' = ring
  /\ UNCHANGED <<life, futures, rings, pend, submitRet, taken, cur, errs, asked, posted, owner>>

\* Wake w: every operation whose last poll registered w is notified.
Wake(w) == notified' = [o \in Ops |-> notified[o] \/ waker[o] = w]

\* Faulty variants: an Ignored entry is removed by its first completion; no
\* waker is woken.
CompleteIgnoresMore(i, c) ==
  \/ /\ life[i].st \in {"Submitted", "Waiting"}
     /\ life' = [life EXCEPT ![i] = IF c.more THEN CompletionList(<<c>>) ELSE Completed(c)]
     /\ IF life[i].st = "Waiting" THEN Wake(life[i].waker) ELSE UNCHANGED notified
  \/ /\ life[i].st = "Ignored"
     /\ life' = [life EXCEPT ![i] = Vacant]
     /\ UNCHANGED notified
  \/ /\ life[i].st = "CompletionList"
     /\ life' = [life EXCEPT ![i] = CompletionList(Append(@.cqes, c))]
     /\ UNCHANGED notified

CompleteSilently(i, c) ==
  /\ life[i].st # "Vacant"
  /\ life' = [life EXCEPT ![i] =
                CASE @.st = "Ignored" -> IF c.more THEN @ ELSE Vacant
                  [] @.st = "CompletionList" -> CompletionList(Append(@.cqes, c))
                  [] OTHER -> IF c.more THEN CompletionList(<<c>>) ELSE Completed(c)]
  /\ UNCHANGED notified

\* Lifecycle::complete, and Ops::complete, which removes what is finished.
Complete(i, c) ==
  \/ /\ life[i].st \in {"Submitted", "Waiting"}
     /\ life' = [life EXCEPT ![i] = IF c.more THEN CompletionList(<<c>>) ELSE Completed(c)]
     /\ IF life[i].st = "Waiting" THEN Wake(life[i].waker) ELSE UNCHANGED notified
  \/ /\ life[i].st = "Ignored"
     /\ life' = [life EXCEPT ![i] = IF c.more THEN @ ELSE Vacant]
     /\ UNCHANGED notified
  \/ /\ life[i].st = "CompletionList"
     /\ life' = [life EXCEPT ![i] = CompletionList(Append(@.cqes, c))]
     /\ UNCHANGED notified

\* One turn of the loop of dispatch_completions.  There is no case for a
\* completion that meets a vacant or Completed entry: the code panics there.
DispatchOne ==
  /\ pc = "dispatch"
  /\ batch > 0
  /\ cq' = Tail(cq)
  /\ ring' = ring - 1
  /\ batch' = batch - 1
  /\ taken' = taken + 1
  /\ \/ /\ Head(cq).ud = CancelUD
        /\ UNCHANGED <<life, notified>>
     \/ /\ Head(cq).ud # CancelUD
        /\ Complete(Head(cq).ud, Head(cq))
  /\ UNCHANGED <<fut, held, idx, waker, got, sq, inflight, cancelled, pc, pend, submitRet,
                 dispRet, cur, errs, asked, posted, owner>>

DispatchEnd ==
  /\ pc = "dispatch"
  /\ batch = 0
  /\ taken' = 0
  /\ pc' = dispRet /\ dispRet' = "run"
  /\ UNCHANGED <<life, futures, rings, pend, submitRet, batch, cur, errs, asked, posted, owner>>

-----------------------------------------------------------------------------
(* Futures.                                                                *)

CanPoll(o) == pc = "run" /\ fut[o] = "alive" /\ held[o]

\* Faulty variant: a Waiting entry keeps its waker whoever polls.
PollKeepsWaker(o, w) ==
  /\ CanPoll(o)
  /\ life[idx[o]].st \in {"Submitted", "Waiting"}
  /\ life' = [life EXCEPT ![idx[o]] = IF @.st = "Waiting" THEN @ ELSE Waiting(w)]
  /\ waker' = [waker EXCEPT ![o] = w]
  /\ notified' = [notified EXCEPT ![o] = FALSE]
  /\ UNCHANGED <<fut, held, idx, got, rings, control, errs, asked, posted, owner>>

\* Nothing has arrived: the waker of this poll replaces the stored one.
PollPending(o, w) ==
  /\ CanPoll(o)
  /\ life[idx[o]].st \in {"Submitted", "Waiting"}
  /\ life' = [life EXCEPT ![idx[o]] = Waiting(w)]
  /\ waker' = [waker EXCEPT ![o] = w]
  /\ notified' = [notified EXCEPT ![o] = FALSE]
  /\ UNCHANGED <<fut, held, idx, got, rings, control, errs, asked, posted, owner>>

\* The entry is removed and the data goes to the caller.
Finish(o, n) ==
  /\ life' = [life EXCEPT ![idx[o]] = Vacant]
  /\ held' = [held EXCEPT ![o] = FALSE]
  /\ got' = [got EXCEPT ![o] = @ + n]
  /\ waker' = [waker EXCEPT ![o] = None]
  /\ notified' = [notified EXCEPT ![o] = FALSE]
  /\ UNCHANGED <<fut, idx, rings, control, errs, asked, posted, owner>>

\* poll_op, poll_op_2 and poll_multishot_op on a Completed entry.
PollCompleted(o) ==
  /\ CanPoll(o)
  /\ life[idx[o]].st = "Completed"
  /\ Finish(o, 1)

\* poll_multishot_op on a completion list.  It consumes a prefix of k
\* completions: up to the first one after which should_yield() holds, or the
\* first one without `more`, or all of them.
Consumes(s, k) == k \in 1..Len(s) /\ \A j \in 1..(k - 1) : s[j].more

PollFinal(o) ==
  /\ CanPoll(o)
  /\ life[idx[o]].st = "CompletionList"
  /\ \E k \in 1..Len(life[idx[o]].cqes) :
       /\ Consumes(life[idx[o]].cqes, k)
       /\ ~life[idx[o]].cqes[k].more
       /\ Finish(o, k)

\* Faulty variant: an early yield drops the rest of the list.
PollYieldDropsRest(o, w, k) ==
  /\ CanPoll(o)
  /\ life[idx[o]].st = "CompletionList"
  /\ LET s == life[idx[o]].cqes
     IN  /\ Consumes(s, k)
         /\ s[k].more
         /\ life' = [life EXCEPT ![idx[o]] = Waiting(w)]
  /\ notified' = [notified EXCEPT ![o] = FALSE]
  /\ got' = [got EXCEPT ![o] = @ + k]
  /\ waker' = [waker EXCEPT ![o] = w]
  /\ UNCHANGED <<fut, held, idx, rings, control, errs, asked, posted, owner>>

PollYield(o, w, k) ==
  /\ CanPoll(o)
  /\ life[idx[o]].st = "CompletionList"
  /\ LET s == life[idx[o]].cqes
         remaining == SubSeq(s, k + 1, Len(s))
     IN  /\ Consumes(s, k)
         /\ s[k].more
         /\ life' = [life EXCEPT ![idx[o]] =
                       IF remaining # <<>> THEN CompletionList(remaining) ELSE Waiting(w)]
         /\ notified' = [notified EXCEPT ![o] = remaining # <<>>]
  /\ got' = [got EXCEPT ![o] = @ + k]
  /\ waker' = [waker EXCEPT ![o] = w]
  /\ UNCHANGED <<fut, held, idx, rings, control, errs, asked, posted, owner>>

PollDrained(o, w) ==
  /\ CanPoll(o)
  /\ life[idx[o]].st = "CompletionList"
  /\ \A j \in 1..Len(life[idx[o]].cqes) : life[idx[o]].cqes[j].more
  /\ life' = [life EXCEPT ![idx[o]] = Waiting(w)]
  /\ got' = [got EXCEPT ![o] = @ + Len(life[idx[o]].cqes)]
  /\ waker' = [waker EXCEPT ![o] = w]
  /\ notified' = [notified EXCEPT ![o] = FALSE]
  /\ UNCHANGED <<fut, held, idx, rings, control, errs, asked, posted, owner>>

\* Faulty variant: a completion list is always taken for complete.
RemovedIgnoresMore(l, o) ==
  IF l.st \in {"Submitted", "Waiting"} THEN Ignored(o) ELSE Vacant

\* remove_op and remove_op_2 on the lifecycle of an unfinished operation.
Removed(l, o) ==
  CASE l.st \in {"Submitted", "Waiting"} -> Ignored(o)
    [] l.st = "CompletionList" -> IF Last(l.cqes).more THEN Ignored(o) ELSE Vacant
    [] OTHER -> Vacant

\* Faulty variant: remove_op without the is_finished() test.
DropFinished(o) ==
  /\ pc = "run"
  /\ fut[o] = "alive"
  /\ life' = IF life[idx[o]] # Vacant THEN [life EXCEPT ![idx[o]] = Removed(@, o)] ELSE life
  /\ fut' = [fut EXCEPT ![o] = "gone"]
  /\ held' = [held EXCEPT ![o] = FALSE]
  /\ waker' = [waker EXCEPT ![o] = None]
  /\ notified' = [notified EXCEPT ![o] = FALSE]
  /\ UNCHANGED <<idx, got, rings, control, errs, asked, posted, owner>>

\* Drop for Op and for InFlightOneshot while the driver exists.  A finished
\* operation does not touch the slab.
Drop(o) ==
  /\ pc = "run"
  /\ fut[o] = "alive"
  /\ life' = IF held[o] THEN [life EXCEPT ![idx[o]] = Removed(@, o)] ELSE life
  /\ fut' = [fut EXCEPT ![o] = "gone"]
  /\ held' = [held EXCEPT ![o] = FALSE]
  /\ waker' = [waker EXCEPT ![o] = None]
  /\ notified' = [notified EXCEPT ![o] = FALSE]
  /\ UNCHANGED <<idx, got, rings, control, errs, asked, posted, owner>>

-----------------------------------------------------------------------------
(* Drop for Driver.                                                        *)

DropDriver ==
  /\ pc = "run"
  /\ pc' = "flush"
  /\ UNCHANGED <<life, futures, rings, pend, submitRet, dispRet, batch, taken, cur, errs,
                 asked, posted, owner>>

FlushSome ==
  /\ pc = "flush" /\ sq # <<>>
  /\ pc' = "submit" /\ submitRet' = "flush"
  /\ UNCHANGED <<life, futures, rings, pend, dispRet, batch, taken, cur, errs, asked, posted, owner>>

FlushDone ==
  /\ pc = "flush" /\ sq = <<>>
  /\ pc' = "mark"
  /\ UNCHANGED <<life, futures, rings, pend, submitRet, dispRet, batch, taken, cur, errs,
                 asked, posted, owner>>

\* Faulty variant: a completion list is always taken for complete.
MarkedIgnoresMore(l) ==
  CASE l.st \in {"Vacant", "Completed"} -> l
    [] l.st = "CompletionList" -> Completed(Last(l.cqes))
    [] OTHER -> Ignored(None)

\* Every entry becomes Completed or Ignored; the replaced value is dropped.
Marked(l) ==
  CASE l.st \in {"Vacant", "Completed"} -> l
    [] l.st = "CompletionList" ->
         IF Last(l.cqes).more THEN Ignored(None) ELSE Completed(Last(l.cqes))
    [] OTHER -> Ignored(None)

Mark ==
  /\ pc = "mark"
  /\ life' = [i \in Slots |-> Marked(life[i])]
  /\ pc' = "cancel" /\ cur' = 0
  /\ UNCHANGED <<futures, rings, pend, submitRet, dispRet, batch, taken, errs, asked, posted, owner>>

CancelSkip ==
  /\ pc = "cancel" /\ cur \in Slots
  /\ life[cur].st # "Ignored"
  /\ cur' = cur + 1
  /\ UNCHANGED <<life, futures, rings, pc, pend, submitRet, dispRet, batch, taken, errs,
                 asked, posted, owner>>

\* Faulty variant: no cancellation is submitted.
CancelNothing ==
  /\ pc = "cancel" /\ cur \in Slots
  /\ life[cur].st = "Ignored"
  /\ cur' = cur + 1
  /\ UNCHANGED <<life, futures, rings, pc, pend, submitRet, dispRet, batch, taken, errs,
                 asked, posted, owner>>

CancelPush ==
  /\ pc = "cancel" /\ cur \in Slots
  /\ life[cur].st = "Ignored"
  /\ Len(sq) < SQCap
  /\ sq' = Append(sq, [op |-> None, cancel |-> TRUE, ud |-> cur])
  /\ cur' = cur + 1
  /\ UNCHANGED <<life, futures, inflight, cancelled, cq, ring, pc, pend, submitRet, dispRet,
                 batch, taken, errs, asked, posted, owner>>

\* The ring is full: submit_and_wait(1), whose errors (EBUSY too) panic.
CancelFull ==
  /\ pc = "cancel" /\ cur \in Slots
  /\ life[cur].st = "Ignored"
  /\ Len(sq) = SQCap
  /\ Take
  /\ pc' = "entered" /\ submitRet' = "cancel"
  /\ UNCHANGED <<life, futures, pend, dispRet, batch, taken, cur, errs, asked, posted, owner>>

CancelFails ==
  /\ pc = "cancel" /\ cur \in Slots
  /\ life[cur].st = "Ignored"
  /\ Len(sq) = SQCap
  /\ Len(cq) > CQCap \/ errs < MaxErrs
  /\ pc' = "panic"
  /\ UNCHANGED <<life, futures, rings, pend, submitRet, dispRet, batch, taken, cur, errs,
                 asked, posted, owner>>

CancelDone ==
  /\ pc = "cancel" /\ cur = NSlots
  /\ pc' = "reap" /\ cur' = 0
  /\ UNCHANGED <<life, futures, rings, pend, submitRet, dispRet, batch, taken, errs, asked, posted, owner>>

\* An Ignored entry: wait() and dispatch.  An error of wait (EBUSY too) is
\* ignored.
ReapWait ==
  /\ pc = "reap" /\ cur \in Slots
  /\ life[cur].st = "Ignored"
  /\ \/ Take
     \/ /\ sq = <<>>
        /\ ring' = Visible(cq)
        /\ UNCHANGED <<sq, inflight, cancelled, cq>>
  /\ pc' = "entered" /\ submitRet' = "reap"
  /\ UNCHANGED <<life, futures, pend, dispRet, batch, taken, cur, errs, asked, posted, owner>>

ReapWaitFails ==
  /\ pc = "reap" /\ cur \in Slots
  /\ life[cur].st = "Ignored"
  /\ sq # <<>> /\ Len(cq) > CQCap
  /\ ring' = CQCap
  /\ batch' = CQCap
  /\ pc' = "dispatch" /\ dispRet' = "reap"
  /\ UNCHANGED <<life, futures, sq, inflight, cancelled, cq, pend, submitRet, taken, cur,
                 errs, asked, posted, owner>>

ReapWaitErr ==
  /\ pc = "reap" /\ cur \in Slots
  /\ life[cur].st = "Ignored"
  /\ errs < MaxErrs
  /\ errs' = errs + 1
  /\ batch' = ring
  /\ pc' = "dispatch" /\ dispRet' = "reap"
  /\ UNCHANGED <<life, futures, rings, pend, submitRet, taken, cur, asked, posted, owner>>

ReapRemove ==
  /\ pc = "reap" /\ cur \in Slots
  /\ life[cur].st = "Completed"
  /\ life' = [life EXCEPT ![cur] = Vacant]
  /\ cur' = cur + 1
  /\ UNCHANGED <<futures, rings, pc, pend, submitRet, dispRet, batch, taken, errs, asked, posted, owner>>

SlabEmpty == \A i \in Slots : life[i] = Vacant

ReapNext ==
  /\ pc = "reap" /\ cur \in Slots
  /\ ~SlabEmpty
  /\ life[cur] = Vacant
  /\ cur' = cur + 1
  /\ UNCHANGED <<life, futures, rings, pc, pend, submitRet, dispRet, batch, taken, errs,
                 asked, posted, owner>>

ReapDone ==
  /\ pc = "reap"
  /\ SlabEmpty
  /\ pc' = "gone"
  /\ UNCHANGED <<life, futures, rings, pend, submitRet, dispRet, batch, taken, cur, errs,
                 asked, posted, owner>>

\* A future that outlived the driver is dropped: InFlightOneshot does nothing,
\* Op panics unwrapping its weak handle.
LateDrop(o) ==
  /\ pc = "gone"
  /\ fut[o] = "alive"
  /\ fut' = [fut EXCEPT ![o] = "gone"]
  /\ held' = [held EXCEPT ![o] = FALSE]
  /\ pc' = IF o \in Oneshot THEN pc ELSE "panic"
  /\ UNCHANGED <<life, idx, waker, notified, got, rings, pend, submitRet, dispRet, batch,
                 taken, cur, errs, asked, posted, owner>>

\* The system may stop here.
Stopped == pc \in {"gone", "panic"} /\ UNCHANGED vars

-----------------------------------------------------------------------------
Kernel == \E o \in Ops : KMore(o) \/ KFinal(o)

\* The thread goes on inside a driver call.
InCall ==
  \/ Push \/ PushFull
  \/ SubmitEnter \/ SubmitBusy \/ SubmitErr
  \/ EnteredTake \/ EnteredReturn
  \/ DispatchOne \/ DispatchEnd

Poll(o) ==
  \/ \E w \in Wakers : PollPending(o, w) \/ PollDrained(o, w)
  \/ \E w \in Wakers, k \in 1..(MaxMore + 1) : PollYield(o, w, k)
  \/ PollCompleted(o)
  \/ PollFinal(o)

Shutdown ==
  \/ FlushSome \/ FlushDone \/ Mark
  \/ CancelSkip \/ CancelPush \/ CancelFull \/ CancelFails \/ CancelDone
  \/ ReapWait \/ ReapWaitFails \/ ReapWaitErr \/ ReapRemove \/ ReapNext \/ ReapDone

Next ==
  \/ Kernel
  \/ InCall
  \/ Park \/ ParkFlushesOnly \/ Dispatch
  \/ \E o \in Ops :
       \/ \E i \in Slots : Submit(o, i)
       \/ Cancel(o) \/ Poll(o) \/ Drop(o) \/ LateDrop(o)
  \/ DropDriver \/ Shutdown
  \/ Stopped

Spec == Init /\ [][Next]_vars

-----------------------------------------------------------------------------
LifecycleType ==
  {Vacant, Submitted}
    \cup [st : {"Waiting"}, waker : Wakers, cqes : {<<>>}, data : {None}]
    \cup [st : {"Ignored"}, waker : {None}, cqes : {<<>>}, data : Ops \cup {None}]
    \cup [st : {"Completed", "CompletionList"}, waker : {None},
          cqes : Seq(CQE) \ {<<>>}, data : {None}]

\* Where the thread is while Drop for Driver is past its marking pass.
Marking == {"cancel", "reap", "gone", "panic"}

AfterMark ==
  \/ pc \in Marking
  \/ pc = "entered" /\ submitRet \in Marking
  \/ pc = "dispatch" /\ dispRet \in Marking

SlabType ==
  /\ life \in [Slots -> LifecycleType]
  /\ owner \in [Slots -> Ops \cup {None}]

FutureType ==
  /\ fut \in [Ops -> {"new", "submitting", "alive", "gone"}]
  /\ held \in [Ops -> BOOLEAN]
  /\ idx \in [Ops -> Nat]
  /\ \A o \in Ops : held[o] => idx[o] \in Slots
  /\ asked \subseteq Ops
  /\ waker \in [Ops -> Wakers \cup {None}]
  /\ notified \in [Ops -> BOOLEAN]
  /\ posted \in [Ops -> Nat] /\ got \in [Ops -> Nat]

RingType ==
  /\ sq \in Seq(SQE) /\ Len(sq) <= SQCap
  /\ inflight \subseteq Ops /\ cancelled \subseteq Ops
  /\ cq \in Seq(CQE)
  /\ ring \in 0..CQCap /\ ring <= Len(cq)
  /\ batch \in 0..ring /\ taken \in 0..CQCap /\ ring + taken <= CQCap
  /\ pc # "dispatch" => batch = 0 /\ taken = 0

ControlType ==
  /\ pc \in {"run", "push", "submit", "entered", "dispatch", "flush", "mark", "cancel",
             "reap", "gone", "panic"}
  /\ pend \in SQE
  /\ submitRet \in {"run", "push", "flush", "cancel", "reap"}
  /\ dispRet \in {"run", "submit", "reap"}
  /\ cur \in 0..NSlots
  /\ errs \in 0..MaxErrs

TypeOK == SlabType /\ FutureType /\ RingType /\ ControlType

-----------------------------------------------------------------------------
(* What makes the driver correct.                                          *)

\* The kernel will still read or write the memory of operation o.
Queued(o)   == \E k \in 1..Len(sq) : sq[k].op = o /\ ~sq[k].cancel
InKernel(o) == o \in inflight \/ Queued(o)

\* The buffers of an operation the kernel may still touch are owned by its
\* future or by the Ignored lifecycle that replaced it: dropping a future early
\* (remove_op) and finishing one (poll) never free them.  Up to the marking
\* pass of Drop for Driver; see DataHeldToTheEnd for what follows.
DataHeld ==
  \A o \in Ops : InKernel(o) /\ ~AfterMark =>
    held[o] \/ \E i \in Slots : life[i] = Ignored(o)

\* Lifecycle::Ignored: "The state must be passed to the driver and held until
\* the operation completes", also while the driver is being dropped.
DataHeldToTheEnd ==
  \A o \in Ops : InKernel(o) => held[o] \/ \E i \in Slots : life[i] = Ignored(o)

\* An unfinished future finds its own, occupied slab entry under its index:
\* the `expect("invalid internal state")` of poll_op, the unreachable! of the
\* Ignored arms and the already-removed arm of poll_multishot_op never run, and
\* no two operations ever use one entry although keys are reused.
FutureOwnsSlot ==
  ~AfterMark =>
    \A o \in Ops : held[o] =>
      /\ life[idx[o]].st \notin {"Vacant", "Ignored"}
      /\ owner[idx[o]] = o

\* The entry still expects a completion.
Expecting(i) ==
  \/ life[i].st \in {"Submitted", "Waiting", "Ignored"}
  \/ life[i].st = "CompletionList" /\ Last(life[i].cqes).more

\* Every posted completion will meet the entry of its own operation, and that
\* entry still expects it: dispatch_completions never indexes a vacant key,
\* never reaches the unreachable! of Lifecycle::complete, and never hands a
\* result to an operation that reused the key.
CompletionsRouted ==
  \A k \in 1..Len(cq) : cq[k].op # None =>
    /\ cq[k].ud \in Slots
    /\ owner[cq[k].ud] = cq[k].op
    /\ Expecting(cq[k].ud)
    /\ \A j \in 1..(k - 1) : cq[j].op = cq[k].op => cq[j].more

\* No completion of an unfinished operation is lost, duplicated or reordered on
\* the way from the kernel through the rings, the overflow list and the
\* completion list, early yields included; a finished one consumed them all.
OfOp(o, k) == Cardinality({j \in 1..k : cq[j].op = o})

InOrderDelivery ==
  ~AfterMark =>
    \A o \in Ops :
      /\ held[o] =>
           LET s == life[idx[o]].cqes IN
           /\ \A k \in 1..Len(s) : s[k].op = o /\ s[k].n = got[o] + k
           /\ \A k \in 1..Len(cq) :
                cq[k].op = o => cq[k].n = got[o] + Len(s) + OfOp(o, k)
           /\ posted[o] = got[o] + Len(s) + OfOp(o, Len(cq))
      /\ fut[o] = "alive" /\ ~held[o] => got[o] = posted[o] /\ ~InKernel(o)

\* When a result is waiting for a future that has been polled, the waker of its
\* LAST poll has been woken: moving a future between tasks (will_wake), early
\* yields (wake_by_ref) and the absence of a wake in the CompletionList arm of
\* Lifecycle::complete lose no wake-up.
NoLostWakeup ==
  \A o \in Ops :
    /\ fut[o] = "alive" /\ held[o] /\ waker[o] # None
    /\ life[idx[o]].st \in {"Completed", "CompletionList"}
    /\ ~AfterMark
    => notified[o]

\* An AsyncCancel only ever reaches the operation whose owner asked for it,
\* although it names a slab key that may have been reused by the time the
\* kernel reads it.
CancelOnlyAsked == ~AfterMark => cancelled \subseteq asked

\* Drop for Driver returns only when the kernel is done with every request:
\* "cancelling any in-progress ops and waiting for them to terminate".
ShutdownDrains == pc = "gone" => \A o \in Ops : ~InKernel(o)

-----------------------------------------------------------------------------
(* The inductive invariant behind DataHeld, FutureOwnsSlot,                *)
(* CompletionsRouted and ShutdownDrains.                                   *)

\* The thread is in the push loop of submit_op with the SQE of o.
Pushing ==
  \/ pc = "push"
  \/ pc \in {"submit", "entered"} /\ submitRet = "push"
  \/ pc = "dispatch" /\ dispRet = "submit" /\ submitRet = "push"

Pending(o) == Pushing /\ ~pend.cancel /\ pend.op = o

Answered(o) == \E k \in 1..Len(cq) : cq[k].op = o

\* Some completion of o is still to be dispatched, or to be posted.
Outstanding(o) == Pending(o) \/ Queued(o) \/ o \in inflight \/ Answered(o)

\* The entry of o is its own and expects a completion, and the data of o is
\* where that entry says.
Live(o) ==
  /\ idx[o] \in Slots
  /\ owner[idx[o]] = o
  /\ Expecting(idx[o])
  /\ ~AfterMark => IF life[idx[o]].st = "Ignored" THEN life[idx[o]].data = o ELSE held[o]

RouteInv == \A o \in Ops : Outstanding(o) => Live(o)

\* An operation is in one place at a time on its way through the rings, and
\* nothing follows its final completion.
PendOnce ==
  \A o \in Ops : Pending(o) =>
    fut[o] = "submitting" /\ ~Queued(o) /\ o \notin inflight /\ ~Answered(o)

QueuedOnce ==
  /\ \A o \in Ops : Queued(o) => o \notin inflight /\ ~Answered(o)
  /\ \A j, k \in 1..Len(sq) :
       ~sq[j].cancel /\ ~sq[k].cancel /\ sq[j].op = sq[k].op => j = k

FinalOnce ==
  \A k \in 1..Len(cq) :
    /\ cq[k].ud = IF cq[k].op = None THEN CancelUD ELSE idx[cq[k].op]
    /\ cq[k].op \in inflight => cq[k].more
    /\ \A j \in 1..(k - 1) : cq[j].op = cq[k].op /\ cq[k].op # None => cq[j].more

FutInv ==
  \A o \in Ops :
    /\ fut[o] = "new" => idx[o] = CancelUD
    /\ held[o] => /\ fut[o] \in {"submitting", "alive"}
                  /\ owner[idx[o]] = o
                  /\ ~AfterMark => life[idx[o]].st \notin {"Vacant", "Ignored"}

\* Only the last completion of a list can lack the `more` flag.
AllButLastMore(s) == \A k \in 1..(Len(s) - 1) : s[k].more

ListInv == \A i \in Slots : life[i].st = "CompletionList" => AllButLastMore(life[i].cqes)

PhaseInv ==
  /\ AfterMark /\ pc # "panic" =>
       \A i \in Slots : life[i].st \in {"Vacant", "Ignored", "Completed"}
  /\ pc = "gone" => SlabEmpty
  /\ pc = "submit" => submitRet \in {"push", "flush"}
  /\ pc = "dispatch" /\ dispRet = "submit" => submitRet \in {"push", "flush"}

IInv ==
  /\ TypeOK
  /\ RouteInv
  /\ PendOnce /\ QueuedOnce /\ FinalOnce
  /\ FutInv /\ ListInv /\ PhaseInv

-----------------------------------------------------------------------------
(* What the owner of an operation sees of all this.                        *)

Phase(o) == IF fut[o] = "new" THEN "new" ELSE IF held[o] THEN "open" ELSE "closed"

\* The kernel is done with o: its last completion has been posted.
Over(o) == posted[o] > 0 /\ ~InKernel(o)

Svc == INSTANCE OpService WITH
  phase <- [o \in Ops |-> Phase(o)], sent <- posted, seen <- got,
  over <- {o \in Ops : Over(o)}

\* The owner of an operation sees its completions once and none before it is
\* posted, its future finishes only with the last one and after all the others
\* (poll_op, poll_multishot_op), and a dropped future (remove_op) sees nothing any
\* more: rings, overflow list, slab, completion lists and the drop of the driver
\* do not show.
ImplementsOpService == Svc!Spec

-----------------------------------------------------------------------------
(* Fairness.  The thread goes on inside a call; the executor runs tasks    *)
(* whose waker was woken, goes idle (parks) and runs the task that         *)
(* dispatches completions again and again.                                 *)

\* A poll the executor owes: the first one, or one after a wake-up.
DuePoll(o) == (waker[o] = None \/ notified[o]) /\ Poll(o)

Executor ==
  /\ WF_vars(InCall)
  /\ SF_vars(Dispatch)
  /\ SF_vars(Park)
  /\ SF_vars(ParkFlushesOnly)
  /\ \A o \in Ops : SF_vars(DuePoll(o))

\* Every request the kernel has accepted ends.
KernelAnswers == \A o \in Ops : WF_vars(KFinal(o))

\* Only a request that has been cancelled is sure to end.
KernelCancels == \A o \in Ops : WF_vars(o \in cancelled /\ KFinal(o))

\* A runtime that is kept: its driver is not dropped.
KeptNext ==
  \/ Kernel \/ InCall
  \/ Park \/ ParkFlushesOnly \/ Dispatch
  \/ \E o \in Ops :
       \/ \E i \in Slots : Submit(o, i)
       \/ Cancel(o) \/ Poll(o) \/ Drop(o)

ServeSpec == Init /\ [][KeptNext]_vars /\ Executor /\ KernelAnswers

DropSpec == Spec /\ WF_vars(InCall) /\ WF_vars(Shutdown) /\ KernelCancels

\* An operation whose future is kept and polled finishes, however small the
\* rings are, if only the kernel answers: no completion waits for ever in the
\* overflow list, no SQE in the submission ring, no future for its wake-up.
Served == \A o \in Ops : (fut[o] = "alive" /\ held[o]) ~> ~held[o]

\* Dropping the driver terminates although no request ends by itself: the
\* cancellations reach every request that is still in flight.
DropTerminates == (pc = "flush") ~> (pc \in {"gone", "panic"})

\* The same of a driver whose submissions had all succeeded when it was dropped,
\* also if io_uring_enter fails during the drop.
DropEnds == (pc = "flush" /\ errs = 0) ~> (pc \in {"gone", "panic"})
=============================================================================
