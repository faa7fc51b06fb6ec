---------------------------- MODULE FixedBufPool ----------------------------
(***************************************************************************)
(* The pool of registered buffers: src/buf/fixed/plumbing/pool.rs and the  *)
(* handle in front of it, src/buf/fixed/pool.rs.                           *)
(*                                                                         *)
(* The free buffers of each capacity form a linked list through the states *)
(* array, with its head in a map.  try_next pops the head; dropping a      *)
(* buffer handle pushes it back and notifies one task that waits in next.  *)
(* next() is try_next, then (in a lock section of its own) fetching the    *)
(* Notify of that capacity, then waiting on it in a loop.                  *)
(*                                                                         *)
(* An action is one lock section.  Pool and Buffer are Send, so tasks may  *)
(* live on several threads; with SingleThread, the case the comment in     *)
(* next_when_notified is about, a poll of next() is not interrupted.       *)
(***************************************************************************)
EXTENDS FiniteSets, Naturals, SequencesExt

CONSTANTS
    Buf,            \* indices of the buffers
    Caps,           \* buffer capacities that occur or are asked for
    Cap,            \* iovecs[i].iov_len: the capacity of each buffer
    Tasks,          \* tasks that use the pool
    SingleThread,   \* all tasks share one thread
    Empty           \* no buffer (Option::None)

ASSUME PoolAssumption ==
    /\ IsFiniteSet(Buf) /\ Buf = 0 .. (Cardinality(Buf) - 1)
    /\ IsFiniteSet(Tasks)
    /\ Cap \in [Buf -> Caps]
    /\ SingleThread \in BOOLEAN
    /\ Empty \notin Buf \cup Caps

VARIABLES
    bufState,   \* states[i]: "Free" or "CheckedOut"
    nextFree,   \* the next field of states[i]
    head,       \* free_buf_head_by_cap, Empty where there is no entry
    notify,     \* notify_next_by_cap: does the entry exist
    permit,     \* the permit each Notify stores
    waiters,    \* the tasks queued in each Notify, first to be woken first
    pc,         \* where each task is in next()
    want,       \* the capacity it asks for in next(), else Empty
    held        \* the buffers each task (or an operation of it) owns

pool == <<bufState, nextFree, head>>
tokio == <<permit, waiters>>
poolVars == <<bufState, nextFree, head, notify, permit, waiters, pc, want, held>>

(***************************************************************************)
(* A task is outside next() ("idle"), past the try_next that failed        *)
(* ("missed"), about to poll its Notified ("armed"), past it by using up   *)
(* the stored permit ("passed"), queued in the Notify ("waiting"), or      *)
(* taken from the queue by a notification ("notified").  In MidPoll it is  *)
(* inside a poll of next(); in "waiting" and "notified" that poll returned *)
(* Pending.                                                                *)
(***************************************************************************)
MidPoll == {"missed", "armed", "passed"}
PC == MidPoll \cup {"idle", "waiting", "notified"}

PoolTypeOK ==
    /\ bufState \in [Buf -> {"Free", "CheckedOut"}]
    /\ nextFree \in [Buf -> Buf \cup {Empty}]
    /\ head \in [Caps -> Buf \cup {Empty}]
    /\ notify \in [Caps -> BOOLEAN]
    /\ permit \in [Caps -> BOOLEAN]
    /\ waiters \in [Caps -> Seq(Tasks)]
    /\ pc \in [Tasks -> PC]
    /\ want \in [Tasks -> Caps \cup {Empty}]
    /\ held \in [Tasks -> SUBSET Buf]

(***************************************************************************)
(* Pool::new: each buffer becomes the head of the list of its capacity, so *)
(* the lists run from the highest index down.                              *)
(***************************************************************************)
Below(i) == {j \in Buf : j < i /\ Cap[j] = Cap[i]}
OfCap(c) == {i \in Buf : Cap[i] = c}
Highest(S) == IF S = {} THEN Empty ELSE CHOOSE i \in S : \A j \in S : j <= i

PoolInit ==
    /\ bufState = [i \in Buf |-> "Free"]
    /\ nextFree = [i \in Buf |-> Highest(Below(i))]
    /\ head = [c \in Caps |-> Highest(OfCap(c))]
    /\ notify = [c \in Caps |-> FALSE]
    /\ permit = [c \in Caps |-> FALSE]
    /\ waiters = [c \in Caps |-> <<>>]
    /\ pc = [t \in Tasks |-> "idle"]
    /\ want = [t \in Tasks |-> Empty]
    /\ held = [t \in Tasks |-> {}]

-----------------------------------------------------------------------------
(* The pool, under its lock.                                               *)

\* The head is not advanced.
PoolCheckOutKeepsHead(t, c) ==
    /\ head[c] # Empty
    /\ bufState' = [bufState EXCEPT ![head[c]] = "CheckedOut"]
    /\ held' = [held EXCEPT ![t] = @ \cup {head[c]}]
    /\ UNCHANGED <<nextFree, head>>

\* The entry of the head is always removed.
PoolCheckOutDropsList(t, c) ==
    /\ head[c] # Empty
    /\ bufState' = [bufState EXCEPT ![head[c]] = "CheckedOut"]
    /\ head' = [head EXCEPT ![c] = Empty]
    /\ held' = [held EXCEPT ![t] = @ \cup {head[c]}]
    /\ UNCHANGED nextFree

\* Pool::try_next with a free buffer: t gets the head of the list.
PoolCheckOut(t, c) ==
    /\ head[c] # Empty
    /\ bufState' = [bufState EXCEPT ![head[c]] = "CheckedOut"]
    /\ head' = [head EXCEPT ![c] = nextFree[head[c]]]
    /\ held' = [held EXCEPT ![t] = @ \cup {head[c]}]
    /\ UNCHANGED nextFree

\* Pool::check_in, the list: the buffer becomes the head again.
CheckIn(t, i) ==
    /\ i \in held[t]
    /\ held' = [held EXCEPT ![t] = @ \ {i}]
    /\ bufState' = [bufState EXCEPT ![i] = "Free"]
    /\ nextFree' = [nextFree EXCEPT ![i] = head[Cap[i]]]
    /\ head' = [head EXCEPT ![Cap[i]] = i]

-----------------------------------------------------------------------------
(* tokio::sync::Notify.                                                    *)

\* notify_one: wake the task queued first, or store the permit.  at is
\* where the tasks are, but for the one that is woken.
NotifyOne(c, at) ==
    IF waiters[c] = <<>>
    THEN /\ permit' = [permit EXCEPT ![c] = TRUE]
         /\ pc' = at
         /\ UNCHANGED waiters
    ELSE /\ waiters' = [waiters EXCEPT ![c] = Tail(@)]
         /\ pc' = [at EXCEPT ![Head(waiters[c])] = "notified"]
         /\ UNCHANGED permit

\* A dropped Notified leaves the queue; if it had been notified, it passes
\* the notification on.
DropNotified(t) ==
    LET at == [pc EXCEPT ![t] = "idle"] IN
    \/ /\ pc[t] = "waiting"
       /\ \E i \in DOMAIN waiters[want[t]] :
             /\ waiters[want[t]][i] = t
             /\ waiters' = [waiters EXCEPT ![want[t]] = RemoveAt(@, i)]
       /\ pc' = at
       /\ UNCHANGED permit
    \/ /\ pc[t] = "notified"
       /\ NotifyOne(want[t], at)

-----------------------------------------------------------------------------
(* What tasks do.                                                          *)

\* With one thread, nothing starts while a poll of next() is in progress.
MayRun == SingleThread => \A u \in Tasks : pc[u] \notin MidPoll

\* FixedBufPool::try_next succeeds, called directly or as the fast path of next().
TryNext(t) ==
    /\ MayRun
    /\ pc[t] = "idle"
    /\ \E c \in Caps : PoolCheckOut(t, c)
    /\ UNCHANGED <<notify, permit, waiters, pc, want>>

\* FixedBufPool::next, first lock section: no buffer of capacity c is free.
NextMisses(t, c) ==
    /\ MayRun
    /\ pc[t] = "idle"
    /\ head[c] = Empty
    /\ pc' = [pc EXCEPT ![t] = "missed"]
    /\ want' = [want EXCEPT ![t] = c]
    /\ UNCHANGED <<pool, notify, tokio, held>>

\* Second lock section, notify_on_next: create the Notify if there is none.
NotifyOnNext(t) ==
    /\ pc[t] = "missed"
    /\ notify' = [notify EXCEPT ![want[t]] = TRUE]
    /\ pc' = [pc EXCEPT ![t] = "armed"]
    /\ UNCHANGED <<pool, tokio, want, held>>

\* The Notified is polled: use up the permit and go on, or join the queue.
PollNotified(t) ==
    /\ pc[t] = "armed"
    /\ IF permit[want[t]]
       THEN /\ permit' = [permit EXCEPT ![want[t]] = FALSE]
            /\ pc' = [pc EXCEPT ![t] = "passed"]
            /\ UNCHANGED waiters
       ELSE /\ waiters' = [waiters EXCEPT ![want[t]] = Append(@, t)]
            /\ pc' = [pc EXCEPT ![t] = "waiting"]
            /\ UNCHANGED permit
    /\ UNCHANGED <<pool, notify, want, held>>

\* A poll of a notified task, or the rest of the poll that used the permit.
Resumed(t) == pc[t] = "passed" \/ (MayRun /\ pc[t] = "notified")

\* next_when_notified goes on: try_next gives a buffer.
NotifiedTakes(t) ==
    /\ Resumed(t)
    /\ PoolCheckOut(t, want[t])
    /\ pc' = [pc EXCEPT ![t] = "idle"]
    /\ want' = [want EXCEPT ![t] = Empty]
    /\ UNCHANGED <<notify, tokio>>

\* The loop awaits the finished Notified again instead of a fresh one.
NotifiedNotReset(t) ==
    /\ Resumed(t)
    /\ head[want[t]] = Empty
    /\ pc' = [pc EXCEPT ![t] = "waiting"]
    /\ UNCHANGED <<pool, notify, tokio, want, held>>

\* Somebody else took it: a fresh Notified, and round the loop again.
NotifiedMisses(t) ==
    /\ Resumed(t)
    /\ head[want[t]] = Empty
    /\ pc' = [pc EXCEPT ![t] = "armed"]
    /\ UNCHANGED <<pool, notify, tokio, want, held>>

\* Nobody is notified.
DropFixedBufSilently(t, i) ==
    /\ MayRun
    /\ CheckIn(t, i)
    /\ UNCHANGED <<notify, permit, waiters, pc, want>>

\* FixedBuf::drop: check the buffer in and, if tasks have ever waited for
\* its capacity, notify one.
DropFixedBuf(t, i) ==
    /\ MayRun
    /\ CheckIn(t, i)
    /\ IF notify[Cap[i]]
       THEN NotifyOne(Cap[i], pc)
       ELSE UNCHANGED <<permit, waiters, pc>>
    /\ UNCHANGED <<notify, want>>

\* The future of next() is dropped between two polls.
DropNext(t) ==
    /\ MayRun
    /\ DropNotified(t)
    /\ want' = [want EXCEPT ![t] = Empty]
    /\ UNCHANGED <<pool, notify, held>>

PoolNext ==
    \E t \in Tasks :
        \/ TryNext(t)
        \/ \E c \in Caps : NextMisses(t, c)
        \/ NotifyOnNext(t)
        \/ PollNotified(t)
        \/ NotifiedTakes(t)
        \/ NotifiedMisses(t)
        \/ \E i \in Buf : DropFixedBuf(t, i)
        \/ DropNext(t)

(***************************************************************************)
(* A thread in the middle of a poll goes on, and a task that was notified  *)
(* is polled: its waker put it in the scheduler's queue, which is served   *)
(* in turn however often other tasks run before it.                        *)
(***************************************************************************)
Continue(t) ==
    \/ NotifyOnNext(t)
    \/ PollNotified(t)
    \/ NotifiedTakes(t)
    \/ NotifiedMisses(t)

PoolFairness == \A t \in Tasks : SF_poolVars(Continue(t))

PoolSpec == PoolInit /\ [][PoolNext]_poolVars
FairPoolSpec == PoolSpec /\ PoolFairness

-----------------------------------------------------------------------------
(* Properties.                                                             *)

(***************************************************************************)
(* A checked-out buffer has exactly one owner and a free one has none: two *)
(* operations never share memory, try_next never finds a checked-out head, *)
(* and the assertion in Drop for Pool holds when the last handle goes.     *)
(***************************************************************************)
OneOwner ==
    \A i \in Buf :
        Cardinality({t \in Tasks : i \in held[t]}) =
            (IF bufState[i] = "CheckedOut" THEN 1 ELSE 0)

\* The buffers reached from a head in at most n links.
Reached(c) ==
    LET upTo[n \in 0 .. Cardinality(Buf)] ==
            IF n = 0 THEN {head[c]} \ {Empty}
            ELSE upTo[n - 1] \cup ({nextFree[i] : i \in upTo[n - 1]} \ {Empty})
    IN  upTo[Cardinality(Buf)]

(***************************************************************************)
(* The list of each capacity holds exactly the free buffers of that        *)
(* capacity: no sequence of check-outs and check-ins loses a buffer or     *)
(* moves it to the list of another capacity.                               *)
(***************************************************************************)
FreeListsComplete ==
    \A c \in Caps : Reached(c) = {i \in OfCap(c) : bufState[i] = "Free"}

(***************************************************************************)
(* No task sleeps beside a free buffer it asked for, unless another task   *)
(* asking for that capacity is on its way to it: the wake-up cannot be     *)
(* lost between try_next and the wait (the comment in next_when_notified). *)
(***************************************************************************)
NoMissedWakeup ==
    \A t \in Tasks :
        (pc[t] = "waiting" /\ head[want[t]] # Empty) =>
            \E u \in Tasks : pc[u] \in {"notified", "passed"} /\ want[u] = want[t]

(***************************************************************************)
(* next() "resolves to a buffer of requested capacity when it is or        *)
(* becomes available": a waiting task does not wait for ever while a       *)
(* buffer it could have stays free.                                        *)
(***************************************************************************)
NextResolves ==
    \A t \in Tasks :
        (pc[t] = "waiting" /\ head[want[t]] # Empty) ~>
            (pc[t] # "waiting" \/ head[want[t]] = Empty)
=============================================================================
