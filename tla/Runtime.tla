------------------------------ MODULE Runtime -------------------------------
(***************************************************************************)
(* Runtimes, the thread-local CONTEXT and the life of the driver           *)
(* (runtime/mod.rs, context.rs, driver/handle.rs), on one thread.          *)
(*                                                                         *)
(* A driver lives as long as a strong handle to it: Runtime.driver, the    *)
(* one in the drive_uring_wakes task, and the one in CONTEXT while         *)
(* block_on runs.  Operations hold weak handles.  An operation lives in    *)
(* the future given to block_on, in a spawned task, or outside of any      *)
(* runtime, where user code can move it.                                   *)
(***************************************************************************)
EXTENDS FiniteSets

CONSTANTS
  Rts,        \* runtimes
  Ops,        \* operations
  Oneshots,   \* those that are InFlightOneshot; the others are Op
  NoRt

\* Runtimes are neither NoRt nor one of the other places of an operation.
RtAssumption == NoRt \notin Rts /\ {"none", "main", "outside", "gone"} \cap Rts = {}

VARIABLES
  rt,        \* none, built, dropping, dropped
  driver,    \* runtimes whose field `driver` exists
  drive,     \* runtimes whose LocalSet holds the task drive_uring_wakes
  context,   \* the driver in CONTEXT, or NoRt
  running,   \* the runtime whose block_on runs the loop, or NoRt
  place,     \* of an operation: none, main, outside, gone, or the runtime of its task
  of,        \* the driver an operation was submitted to
  made,      \* history: the runtime that ran when it was submitted
  left,      \* history: operations that have left their runtime
  flushed,   \* history: the driver flushed by the last park of this run, or NoRt
  panics     \* history: operations whose drop panicked

rtVars == <<rt, driver, drive, context, running, place, of, made, left, flushed, panics>>
opvars == <<place, of, made, left, panics>>

RtInit ==
  /\ rt = [r \in Rts |-> "none"] /\ driver = {} /\ drive = {}
  /\ context = NoRt /\ running = NoRt
  /\ place = [o \in Ops |-> "none"]
  /\ of = [o \in Ops |-> NoRt] /\ made = [o \in Ops |-> NoRt]
  /\ left = {} /\ flushed = NoRt /\ panics = {}

\* The driver has a strong handle: WeakHandle::upgrade succeeds.
Alive(r) == r \in driver \/ r \in drive \/ context = r

-----------------------------------------------------------------------------
(* Runtime.                                                                *)

New(r) ==
  /\ rt[r] = "none"
  /\ rt' = [rt EXCEPT ![r] = "built"]
  /\ driver' = driver \cup {r} /\ drive' = drive \cup {r}
  /\ UNCHANGED <<context, running, flushed, opvars>>

\* Faulty variant: the guard exists before the handle is set, so a refused
\* call clears the context of the outer one.
BlockOnGuardFirst(r) ==
  /\ rt[r] = "built"
  /\ IF context = NoRt
     THEN context' = r /\ running' = r /\ flushed' = NoRt
     ELSE context' = NoRt /\ UNCHANGED <<running, flushed>>
  /\ UNCHANGED <<rt, driver, drive, opvars>>

\* block_on.  A second call on this thread fails the assertion in set_handle,
\* before ContextGuard exists; the panic unwinds into the caller, or is caught
\* by the task that made it.
BlockOn(r) ==
  /\ rt[r] = "built"
  /\ IF context = NoRt
     THEN context' = r /\ running' = r /\ flushed' = NoRt
     ELSE UNCHANGED <<context, running, flushed>>
  /\ UNCHANGED <<rt, driver, drive, opvars>>

\* Operations are dropped.  Op unwraps its weak handle, InFlightOneshot looks.
Dropped(S) ==
  /\ place' = [o \in Ops |-> IF o \in S THEN "gone" ELSE place[o]]
  /\ panics' = panics \cup {o \in S \ Oneshots : ~Alive(of[o])}

In(p) == {o \in Ops : place[o] = p}

\* block_on returns, or its future panics: the future is dropped, then the guard.
\* The operations in `out` are part of the output.
Return(out) ==
  /\ running # NoRt
  /\ out \subseteq In("main")
  /\ running' = NoRt /\ context' = NoRt
  /\ place' = [o \in Ops |-> IF o \in out THEN "outside"
                             ELSE IF o \in In("main") THEN "gone" ELSE place[o]]
  /\ left' = left \cup out
  /\ panics' = panics \cup {o \in (In("main") \ out) \ Oneshots : ~Alive(of[o])}
  /\ UNCHANGED <<rt, driver, drive, flushed, of, made>>

\* on_thread_park: the ring in CONTEXT is flushed.
Park ==
  /\ running # NoRt
  /\ flushed' = context
  /\ UNCHANGED <<rt, driver, drive, context, running, opvars>>

-----------------------------------------------------------------------------
(* Operations.                                                             *)

\* Submission takes the driver from CONTEXT, in the main future or a task.
SubmitOn(o, p) ==
  /\ running # NoRt /\ place[o] = "none"
  /\ p \in {"main", running}
  /\ place' = [place EXCEPT ![o] = p]
  /\ of' = [of EXCEPT ![o] = context]
  /\ made' = [made EXCEPT ![o] = running]
  /\ UNCHANGED <<rt, driver, drive, context, running, flushed, left, panics>>

Reachable == In("outside") \cup (IF running = NoRt THEN {} ELSE In("main") \cup In(running))

\* User code passes an operation on, through a channel or a shared variable.
Move(o, p) ==
  /\ running # NoRt /\ o \in Reachable
  /\ p \in {"main", running, "outside"} \ {place[o]}
  /\ place' = [place EXCEPT ![o] = p]
  /\ left' = IF p = "outside" \/ running # of[o] THEN left \cup {o} ELSE left
  /\ UNCHANGED <<rt, driver, drive, context, running, flushed, of, made, panics>>

Drop(o) ==
  /\ o \in Reachable
  /\ Dropped({o})
  /\ UNCHANGED <<rt, driver, drive, context, running, flushed, of, made, left>>

-----------------------------------------------------------------------------
(* Drop for Runtime: the LocalSet with its tasks in any order, the tokio   *)
(* runtime, then the field `driver`.  tokio refuses it inside block_on.    *)

DropRuntime(r) ==
  /\ rt[r] = "built" /\ running = NoRt
  /\ rt' = [rt EXCEPT ![r] = "dropping"]
  /\ UNCHANGED <<driver, drive, context, running, flushed, opvars>>

DropTask(o) ==
  /\ place[o] \in Rts /\ rt[place[o]] \in {"dropping", "dropped"}
  /\ Dropped({o})
  /\ UNCHANGED <<rt, driver, drive, context, running, flushed, of, made, left>>

DropDriveTask(r) ==
  /\ r \in drive /\ rt[r] \in {"dropping", "dropped"}
  /\ drive' = drive \ {r}
  /\ UNCHANGED <<rt, driver, context, running, flushed, opvars>>

\* Faulty variant: fields in declaration order of a struct with `driver` first.
DropFieldsFirst(r) ==
  /\ rt[r] = "dropping"
  /\ rt' = [rt EXCEPT ![r] = "dropped"]
  /\ driver' = driver \ {r}
  /\ UNCHANGED <<drive, context, running, flushed, opvars>>

DropFields(r) ==
  /\ rt[r] = "dropping"
  /\ r \notin drive /\ In(r) = {}
  /\ rt' = [rt EXCEPT ![r] = "dropped"]
  /\ driver' = driver \ {r}
  /\ UNCHANGED <<drive, context, running, flushed, opvars>>

\* Drop for Runtime is one call: nothing else runs on the thread meanwhile.
Teardown ==
  \/ \E r \in Rts : DropDriveTask(r) \/ DropFields(r)
  \/ \E o \in Ops : DropTask(o)

Dropping == \E r \in Rts : rt[r] = "dropping"

RtNext ==
  \/ Teardown
  \/ /\ ~Dropping
     /\ \/ \E r \in Rts : New(r) \/ BlockOn(r) \/ DropRuntime(r)
        \/ \E out \in SUBSET Ops : Return(out)
        \/ Park
        \/ \E o \in Ops : Drop(o) \/ \E p \in Rts \cup {"main", "outside"} : SubmitOn(o, p) \/ Move(o, p)

RtSpec == RtInit /\ [][RtNext]_rtVars

-----------------------------------------------------------------------------
\* A running loop flushes its own ring when it parks, and what is submitted goes
\* to the driver of the runtime that runs: through refused nested calls, panics
\* and runtimes that take turns, CONTEXT names the driver of the running loop, and
\* none when nothing runs.
OwnRing ==
  /\ context = running
  /\ running # NoRt => flushed \in {NoRt, running}
  /\ \A o \in Ops : of[o] = made[o]

\* The drop of an operation panics only if it was an Op that had left its runtime
\* and outlived it.  Those in tasks and in the main future are dropped while the
\* driver lives (drop order in Drop for Runtime).
OnlyEscapedPanic ==
  \A o \in panics : o \in left \ Oneshots /\ rt[of[o]] = "dropped"
=============================================================================
