# A TLA+ model of tokio-uring

tokio-uring runs asynchronous tasks on one thread on top of an `io_uring`
instance. The kernel reads and writes buffers that belong to operations, long
after the call that submitted them, and posts completions that name an operation
only by a slab key. What makes the crate correct is bookkeeping: which buffers the
kernel may still touch, which slab entry a completion belongs to, who must be
woken, and in which order things are torn down. This directory models that
bookkeeping, checks it with TLC on small instances, and proves its main safety
properties with TLAPS for every size.

All paths below are relative to the crate root (`src/` is the crate's source
directory); `PROJECT.json` maps each definition to its lines.

## The system

| component | state | operations | interacts with |
|---|---|---|---|
| Driver core: `runtime/driver/mod.rs`, `op/mod.rs`, `handle.rs` | slab of `Lifecycle`s, the two rings | `submit_op`, `submit_op_2`, `cancel_op`, `submit`, `dispatch_completions`, `poll_*`, `remove_*`, `Drop for Driver` | kernel through the rings; futures through weak handles; tasks through wakers |
| Completion lists: `op/slab_list.rs` | linked lists of completions in one shared slab | `push`, `pop`, `peek_end`, `into_indices`, `drop` | owned by `Lifecycle::CompletionList` |
| Linked operations: `op/link.rs` | nested futures | `link`, `hard_link`, `submit`, poll | submits several operations in order |
| Runtime: `runtime/mod.rs`, `context.rs` | tokio runtime, `LocalSet`, thread-local driver handle | `block_on`, park hook, `drive_uring_wakes`, drop | flushes and dispatches the driver |
| Shared descriptor: `io/shared_fd.rs`, `io/close.rs` | reference count, `State`, a waker | clone, drop, `close()` | every operation holds a clone until the kernel is done |
| Fixed buffer pool: `buf/fixed/pool.rs`, `plumbing/pool.rs` | free lists per capacity, `Notify` per capacity | `try_next`, `next`, drop of a buffer | tasks on any thread; operations own buffers |
| Fixed buffer registry: `buf/fixed/registry.rs` | free or checked out per index | `check_out`, `check_in` | as the pool |
| Multishot receive: `io/recv_from_multishot.rs` | batch, buffers taken from the kernel's group | `update`, `complete`, `take_batch`, `cancel` | a multishot operation of the driver |
| Buffers, slices: `buf/*.rs` | initialised length per segment | `set_init`, slicing | operations |
| Opening files: `fs/open_options.rs`, `io/open.rs` | the options | setters, `open` | one request; other processes on the same path |
| create_dir_all: `fs/create_dir_all.rs` | a recursion of futures | `mkdir` and `statx` requests | other processes on the same path |
| Files and sockets: `fs/*`, `net/*`, `io/*` | none beyond a `SharedFd` | build one operation each; `write_fixed_all*` loops | driver |

What is hard to test here: a future dropped, moved to another task or polled
again at each point of its request's life; slab keys reused while completions,
cancellations and finished futures still mention them; rings that fill and
overflow; the early yield of a multishot operation; the shutdown of a driver with
requests in flight; a close that races the operations on its descriptor; a
wake-up lost between looking and waiting; what an operation keeps alive for the
kernel and where its buffers, descriptors and provided buffers end up when it
fails or is dropped; chains cut by a full ring; paths that change under a
recursion. `PROJECT.json` lists these hazards one
by one, each at its line.

## Modules

| module | what it is |
|---|---|
| `Fifo` | abstract specification: a set of queues with push, pop, peek at the end, and drop |
| `SlabList` | `op/slab_list.rs`: several lists threaded through one slab |
| `SlabListProofs` | the lists stay intact and implement `Fifo` |
| `OpService` | abstract specification: what the driver promises to the owner of an operation |
| `Driver` | the driver, its operations and the kernel |
| `MCDriver`, `MCDriverSafety` | instances of `Driver` for TLC; the second one also of `Requests` |
| `DriverProofs` | type correctness and the safety properties of `Driver`, which implements `OpService` |
| `SharedFd` | `io/shared_fd.rs` and the close operation |
| `SharedFdProofs` | its safety properties |
| `FixedBufPool`, `MCFixedBufPool` | the buffer pool, and its buffers for TLC |
| `FixedBufPoolProofs` | ownership, free lists and wake-ups of the pool |
| `BufferIo`, `MCBufferIo` | buffers, slices, the buffer registry, and the calls that read or write them; three instances of their own |
| `BufferIoProofs` | lengths, slices, the holder of the registered buffer, `write_fixed_all_at` |
| `Requests` | every kind of request: the descriptor and the memory its entry names, and what keeps them |
| `Completions` | what completions carry: provided buffers, byte counts of zero-copy sends, new descriptors |
| `CompletionsProofs` | its safety properties |
| `LinkChain` | linked operations |
| `Runtime`, `RuntimeProofs` | runtimes, the thread-local context, the handles of a driver; the proofs of its properties |
| `OpenOptions` | opening files |
| `CreateDirAll` | `create_dir_all` |
| `RequestsProofs` | the safety properties of `Requests`, `OpenOptions`, `LinkChain` and `CreateDirAll` |
| `MCData`, `MCProtocols` | instances of the other components for TLC: safety, and safety with liveness |

Definitions introduced as a "faulty variant", or with a comment that says what is
left out, are not part of the model: each changes one definition the way a
programming error would, and TLC finds the property it is meant to break
violated.

### Driver

One thread runs everything, so an action is one step of that thread, and `pc`
says in which call it is. Only calls during which the kernel can act are split:
the push loop (`push`), `Driver::submit` (`submit`, `entered`),
`dispatch_completions` (`dispatch`, one completion per step), and the phases of
`Drop for Driver` (`flush`, `mark`, `cancel`, `reap`). Polls and drops of futures
are atomic.

- `life` is `Ops.lifecycle`, with the five variants of `Lifecycle` and a vacant
  entry. Keys are chosen freely among the vacant ones, which includes the reuse
  order of the `slab` crate.
- `fut`, `held`, `idx` are the futures. `held` is the `Option` around their data;
  after the final completion it is false while the future, and its stale key
  `idx`, still exist.
- `sq`, `inflight`, `cq`, `ring` are the rings and the kernel. `cq` is everything
  posted and not yet reaped; its first `ring` entries are in the ring, the others
  in the kernel's overflow list. Ring entries read by `dispatch_completions` are
  released only at its end (`taken`). `io_uring_enter` answers EBUSY when the
  overflow list does not fit. EINTR is a retry without effect and does not appear.
- Three kinds of operations: `Op<_, SingleCQE>`, `InFlightOneshot`
  and `Op<_, MultiCQEFuture>`. A multishot poll consumes a prefix of its list: up
  to the first completion after which `should_yield()` holds, which the model
  leaves open.
- A completion carries its operation and its number in that operation's stream
  (`op`, `n`). The code does not see them; only the properties do.
- A submission that fails for good loses its future (`submit_op` and
  `submit_op_2` panic, the former while it drops the new `Op` with the driver
  borrowed); the slab entry stays. This is `SubmitErr`.

`SlabList` is checked on its own and enters `Driver` as a sequence; the
refinement `SlabListImplementsFifo` is what justifies that.

### SharedFd

One owner (a `File`, or the future of `File::close`, which consumes it) and clones
held by operations. Clones are made only while the file is open. A drop and a poll
are atomic; their order is free. `PollSubmitError` is the failed submission of the
close: the state is already `Closed`, so nothing closes the descriptor afterwards.
`Released` leaves that case out.

### FixedBufPool

An action is one section under the pool's mutex or one step of tokio's `Notify`
(external: a stored permit, a queue of waiters, and the forwarding of a
notification by a `Notified` that is dropped). `SingleThread` is the case
the comment in `next_when_notified` speaks about: nothing else runs inside a poll
of `next()`. Without it, the lock sections of several threads interleave.

### BufferIo

A buffer is a list of segments with a capacity and an initialised length each;
`init` is the truth beside it: how many bytes of each segment were ever written.
`Buffer` (one or several segments), `Vec` and the `Vec` of buffers of `recvmsg`
differ in `set_init`. One task owns a buffer, through a `Slice` or not, or an
operation that owns it; an operation dropped in flight keeps it until its
completion (`orphan`). One registered buffer goes through `check_out` and
`check_in` with its length. The kernel moves any number of bytes that fits, or
fails. `tainted` marks the memories whose lengths the code has left wrong, for one
of three causes: a `read_at` that did not succeed, a `recvmsg` into several buffers,
a `recv_from` into a `Buffer` of several segments. `InitSound` says everything about the
others; the first two causes have violation runs. In the third the kernel is given
the address of the iovec array (`stable_mut_ptr` of such a `Buffer`): the datagram
goes there (`IntoArray`), no segment receives a byte, and `set_init` counts them all
the same. A `Buffer` whose array was overwritten is "wild": its segments point
nowhere in particular, so the model lets the task only drop it and claims nothing
of it. A short read into a `Buffer` lowers its lengths, a `Vec` only grows; the run
`water_mark` holds that against the documentation of `set_init`, and `SliceSound` asks
only that what was read, and what lies before the slice, is visible. `Left` is the loop over the
segments as `set_init` and `RecvMsg::complete` run it; `Filled` is what a vectored
read does, stated without it.

### Requests

A kind of request is a record: does the data hold a clone of the descriptor, which
heap memory does the data own, and which memory does the entry point to. Handles
are the sets of requests they can make. One descriptor number is closed
and reused at once; the data of a request moves from the future to the driver when
the future is dropped. `Drop for Driver` has its phases here too: all entries are
handed to the kernel, the marking pass frees the data of dropped futures (their
requests may still run, and `MemoryHeld` says so), the rest is reaped, and futures
that outlive the driver own their data. `SharedFd` has the details of closing, `Driver` those of the
lifecycles.

### Completions

The list of an operation as `Driver` delivers it, with contents. `KRecv` takes a
buffer from the group, writes header, name space and the payload that fits; a poll
consumes completions one at a time through `Update` until something is to be
yielded or the final one is met. `UpdateSend` relies on the comment at
`send_zc.rs:56`, that no completion with `F_MORE` carries an error: the `unwrap` that
would panic there is not modelled. A dropped operation loses what
its later completions carry, because the code sends no cancellation and keeps no
contents: `lost` says what, and `OnlyDropsLose` that nothing else is. It permits these
losses (of a descriptor, of the provided buffers of a receive that goes on), which no
document excludes.

### LinkChain

`link` on a chain sets the flag of the first operation (again); `SubmitChain` pushes the
entries one by one, `Enter` is the flush of a full ring or of the park hook, and
the kernel chains an entry to the one before it in the same flush if that one is
flagged. Outputs come one at a time, each with the futures of the rest.

### Runtime

`driver`, `drive` and `context` are the strong handles of a driver: the field, the
one of the dispatching task, and the one of a running `block_on`. Operations are
in the main future, in a task, or outside; they hold weak handles. A nested
`block_on` fails in `set_handle` before the guard exists. The drop of a `Runtime`
drops tasks in any order, then the fields.

### OpenOptions, CreateDirAll

The options become flags, the flags meet a file that another process creates,
fills or removes. `custom_flags` may be any set: the code masks the access mode and
passes everything else on, so `O_CREAT`, `O_TRUNC` and `O_PATH` act although no option
asks for it. `OpenedAsAsked` names these three exceptions and says what holds of the
rest. In `CreateDirAll` the level and the position in the function are
the whole call stack; each `mkdir` and `statx` is one atomic request. `world` says
what other processes do besides creating directories.

## Runs

| run | instance | shows |
|---|---|---|
| `driver_safety` | two instances in one state space: one operation of each kind, one completion each, with 2 keys and rings of 1; multishot and oneshot with rings of 2, 2 wakers, 2 completions with `more`, one failing `io_uring_enter` | buffers outlive the kernel's use (`DataHeld`); futures own their entries (`FutureOwnsSlot`); completions meet the entry they are for (`CompletionsRouted`); a dropped driver leaves nothing in the kernel (`ShutdownDrains`); in-order, complete delivery; no lost wake-up; cancellations reach only what was asked |
| `driver_safety`: requests | 2 requests of any kind, 2 files on one number | the kernel meets the right file (`RightFile`) and live memory (`MemoryHeld`), through the drop of the driver |
| `driver_served` | multishot and oneshot, a submission ring of 2 and a completion ring of 1, one failing `io_uring_enter` | a kept and polled operation finishes |
| `driver_drop` | multishot and oneshot, rings of 1, requests end only when cancelled, one failing `io_uring_enter` | the drop of the driver terminates, unless a submission had failed before (`DropEnds`) |
| `data`: lists | 2 lists, 2 values, 4 entries | lists stay linked; each is a FIFO queue |
| `data`: buffers | a registered buffer of 2 bytes, a `Buffer` of two segments, a `Vec`, two `Vec`s | lengths cover written bytes only (`InitSound`), views stay valid and show what was read (`SliceSound`), one holder per buffer, `write_fixed_all_at` exact |
| `data`: open | all options, all sets of 5 custom flags | access as asked, no content lost and no file created or shared unasked |
| `data`: recv, send, accept | 2 receives, 2 provided buffers, 3 datagrams; a send; an accept | every buffer in one place, only drops lose, final is final, packets inside their buffers, bytes exact |
| `data`: runtime | 2 runtimes, an `Op` and a oneshot | own ring, panics only outside |
| `data`: pool | 3 buffers of 2 capacities, 3 tasks, one thread | one owner per buffer; free lists complete; nobody sleeps beside a free buffer |
| `protocols`: close | 5 clones, 2 wakers | closed once, never in use, released; `close()` resolves |
| `protocols`: recv, send | 1 receive, 2 buffers; 1 send | a cancelled receive and a kept send return |
| `protocols`: link | chains of up to 4, ring of 3, any filling | the first two in order, all operations answered |
| `protocols`: dirs | 2 callers, 3 levels, any world | no spurious error, `Ok` means directory, calls end |
| `protocols`: pool | 2 buffers of one capacity, 3 tasks, one thread | `next()` resolves when a buffer is free |

`data`, `protocols` and `driver_safety` check components that do not interact in one
state space: a variable chosen at the start (`mode`) says which one moves
while the others rest in their initial states, so the state space is the sum of
theirs, and each property is about its own component.

Seven runs record where the code disagrees with what it says of itself:

| run | what happens |
|---|---|
| `driver_drop_held` | the marking pass of `Drop for Driver` (`mod.rs:484`) replaces `Ignored(data)` by `Ignored(())`: the data of dropped operations is freed while their requests are in flight |
| `driver_drop_hangs` | after one failed submission a slab entry remains for which no completion can come; the drop of the driver waits for ever |
| `buf_pool_threads` | a buffer checked in by another thread between the two lock sections of `next()` notifies nobody |
| `read_error` | `read_at` sets all lengths to the capacity before the read; a read that fails, or is dropped, leaves them there |
| `recvmsg_lengths` | a datagram that spans two `Vec`s gives the first one a length beyond its capacity |
| `water_mark` | a short read lowers the initialised length of a `Buffer`, which `set_init` documents as a water mark that only rises |
| `link_chain` | in `a.link(b).link(c)` only `a` is flagged: `c` starts without waiting for `b` |

A shutdown with a full submission ring (`mod.rs:517`) panics if `io_uring_enter`
answers EBUSY; recent kernels flush the overflow list first and do not, so this is
modelled (`CancelFails`) and no run depends on it.

### Bounds

Two slab keys for three operations make keys be reused while completions and stale
futures mention them. Rings of one entry make every push find a full ring and
every second completion overflow; rings of two let completions queue in the ring
and in a list at once. `MaxMore` is 1 or 2 where
completions queue: two in a list are enough for an early yield with something left.
It is 0 in the part of `driver_safety` with three operations. `MaxErrs` is the number of failing
`io_uring_enter` calls. An operation is submitted once and cancelled by its owner
at most once. Three tasks are the fewest for which a dropped, notified waiter can
pass its notification to a second while a third takes the buffer. Five clones
only add variety: the proof covers every number. Buffers of two bytes have an
empty, a partial and a full state on each side of a slice; write positions include
one at which the last byte just fits below `PosMax`. Datagrams are empty, small,
larger than a buffer, or without a usable name. Chains of four with a ring of three
are cut at every place. Three path levels have a level that is neither first nor
last. Two runtimes and two operations are the fewest for an operation to move
from a runtime to another and outlive the first.

### Fairness

- `driver_served`: the thread goes on inside a call (weak fairness); the executor
  dispatches, parks and polls woken tasks again and again although other tasks
  run in between (strong fairness; tokio's queues are served in turn, and the park
  hook runs whenever there is nothing to do); the kernel answers accepted requests.
  Only owed polls are fair: the first, and one after a wake-up.
- `driver_drop`: the thread goes on, and a request that was cancelled ends. Nothing
  else ends by itself, as with a receive on an idle socket.
- `protocols`, close: a new or woken task is polled, operations in flight end, the
  kernel executes the queued close. If an operation never ends, neither does
  `close()`; that is what the code intends.
- `protocols`, others: an operation with completions is polled; a cancelled receive
  ends; sends and linked operations are answered; a pushing thread goes on and
  parks; `mkdir` and `statx` are answered and their callers polled. Nothing is assumed
  of datagrams or of other processes. All weak: nothing disables these steps but
  themselves or a drop, and the fairness of a resting component is met because
  none of its steps is enabled in its initial state.
- `protocols`, pool: a notified task is polled (strong fairness: others may run first).
  Nobody is assumed to release a buffer.

## Proofs

All for arbitrary constants. `Driver`, `SharedFd`, `SlabList` and `FixedBufPool`
state what they ask of their constants as `ASSUME`s (`DriverAssumption`,
`FdAssumption`, `SlabListAssumption`, `PoolAssumption`). `Requests`, `Completions`,
`Runtime`, `CreateDirAll`, `LinkChain` and `BufferIo` state theirs as definitions
(`ReqAssumption`, `CqeAssumption`, `RtAssumption`, `DirAssumption`,
`LinkAssumption`, `BufAssumption`) that are hypotheses of the theorems;
`MCDriverSafety`, `MCData` and `MCProtocols` assume them of their values, so TLC
evaluates them. They say no
more than that names are distinct, sizes are numbers, the sets that are counted
are finite, and a new buffer has lengths within its capacities.

**Completion lists.**
- `ListsIntact`: `Linked`, `Disjoint` and `NoLeak` together with `TypeOK` are
  inductive. Each list has a sequence of keys; its links, ends and ownership are
  stated over that sequence, so no reachability is needed.
- `SlabListImplementsFifo`: under that invariant every step maps to a step of
  `Fifo` or a stutter. The mapping reads the entries along the sequence of keys.

**Driver.**
- `DriverTypeCorrect`: `TypeOK` is inductive, with the ring capacities and the
  relation between `ring`, `batch` and `taken`.
- `DriverSafe` (`DataHeld`), `FuturesOwnSlots`, `CompletionsMeetTheirOps`
  (`CompletionsRouted`) and `DroppedDriverIsDrained` (`ShutdownDrains`). None is
  inductive. `IInv` follows each operation through its
  places: while some completion of it is still to be dispatched or posted
  (`Outstanding`: being pushed, queued, in flight or answered) its slab entry is its
  own, expects a completion and says where the data is (`RouteInv`). An operation
  is in one of those places at a time (`PendOnce`, `QueuedOnce`), nothing follows
  its final completion (`FinalOnce`), only the last element of a list may lack
  `more` (`ListInv`), and the phases of the shutdown leave only entries they can
  deal with (`PhaseInv`).
- `NoWakeupIsLost` (`NoLostWakeup`): `WakeInv` says that a stored waker is that of
  the last poll and that a result on a polled entry was announced. It needs `IInv`
  for a future to own its entry while others poll, drop and complete.
- `OnlyAskedAreCancelled` (`CancelOnlyAsked`): `CancelInv` follows a cancellation
  from `cancel_op` to the kernel. The ring is a queue: what the kernel will have
  taken when it reads the cancellation is in flight or before it in the ring, and
  none of that but the operation asked for uses the key (`Sole`), because each of
  those operations still owns its entry. An operation that reuses the key later is
  queued behind.
- `CompletionsInOrder` (`InOrderDelivery`): `DeliveryInv` numbers the completions
  of an operation without gaps through the future (`got`), the list and the queue
  (`Ordered`). The lemmas on `Count` say how the number of an operation's
  completions in the queue changes when one is appended or taken; those on `Ordered`
  follow a post, a dispatch and a poll.
- `DriverImplementsOpService`: to its owner an operation is new, open or closed, some
  of its answers have been sent, and it has seen some of these. Answers come until
  the last one; an open operation sees the next ones that were sent, finishes with
  the last one after all the others, or is given up. `Driver` maps to this by the
  future (`Phase`), `posted`, `got` and the requests the kernel is done with
  (`Over`). Each step of the driver is one step of the service or a stutter: `IInv`
  says that only operations in flight get answers, `DeliveryInv` that a poll sees no more than was posted and
  a finished future all of it, and `Unsent` that an operation is unknown to the
  kernel until its entry is pushed, so that one that is over never comes back. A
  failed submission and a future that outlives the driver are given up. The
  refinement says nothing of progress; `Served` does. It is proved only: no run
  lists it.

**Shared descriptor.** `SharedFdSafe` (`NotClosedInUse`), `FdClosedOnce`,
`FdReleased` and `CloserAlwaysWoken`: `IInv` adds that only an owner that is alone
marks the descriptor closed (`ClosedByOwner`) and ties the number of closes to the
descriptor's state (`FdFollows`).

**Fixed buffer pool.** `BuffersHaveOneOwner` and `FreeListsStayComplete` hold on any
number of threads: `PoolInv` has, for each capacity, the sequence of buffers the
`next` fields run through, without repetition, and every buffer on its list or with
one task. `NoWakeupIsMissed` has `SingleThread` as a hypothesis, since
`buf_pool_threads` refutes it without. `QueueInv` and `PollInv` describe the queue
of `Notify` and the one poll that may be under way; `CountInv` is the argument:
while a task waits in a queue, at least as many tasks have been notified as buffers
of that capacity are free.

**Requests, opening, linking.**
- `RightFileAlways`, `MemoryHeldAlways`: the number is open, and stands for the same
  file, as long as somebody relies on it: the handle, a clone in some request's
  data, or the one close request on its way, which relies on it alone (`FdInv`).
  The kinds of requests are compared one by one (`FreeKinds`, `HandleKinds`). Memory
  is held through the drop of the driver, except for the data of futures that were
  dropped before, from the marking pass on.
- `OpensAsAsked`: the flags in flight are those of options that passed
  `access_mode` and `creation_mode`, together with any set of custom flags outside the
  access mode (`OpenFlags`).
- `FirstPairLinked`: up to the flush that takes the first entry, it and the second
  are neighbours in the ring or the second is still to be pushed with room for it
  (`InRing`); from then on the second waits for the first (`Chained`).

**What completions carry.** `BuffersNeverForgotten`, `OnlyDroppedOpsLose`,
`FinalMeansEnded`, `PacketsFit`, `SendsReportExactly`: `Partition` and `Unique` say
that the sets a provided buffer can be in are disjoint and cover all buffers,
`Entries` what each completion of an operation may be, `Phases` which completions
are left in each state of its future, `Sending` how the bytes of a send are spread
over its result, its completions and what the kernel is still to post.

**Runtime.** `OwnRingAlways`, `OnlyEscapedPanics`: `HandleInv` ties every strong
handle to the state of its runtime, `PlaceInv` the place of an operation to its
runtime.

**create_dir_all.** `NeverSpuriousError`, `OkAlwaysMeansDir`: in a calm world, where
nobody removes directories or creates files, the root is a directory and no level is
a file (`CalmTree`); a call's second mkdir then finds its parent, and `is_dir` is
asked only of what is there (`CalmCalls`). `OkMeansDir` is inductive with types alone.

**Buffers.** `InitsSound`, `SlicesSound`, `BuffersOneHolder`, `WritesAllExactly`, for
buffers of any number of segments:
- `LeftIsRest`: after segment i the loop has left what lies beyond the first i
  capacities. It is proved by induction over a set of numbers (`NatSetInduction`,
  from the well-foundedness of `<`), and `LoopRuns` shows that such a loop has a run
  at all. With it `SetInitFills`: `Buffer::set_init` leaves exactly what a vectored
  read of that many bytes fills.
- `IInv` follows the one buffer a memory has through the task, an operation and a
  dropped operation. `GoodBuf` and `GoodView` tie lengths, capacities and views
  together, `Covers` the lengths to the truth in `init`, also of what an answered
  read has filled and not yet shown. `HolderInv` says who holds the registered buffer.
  `WriteInv` says how many bytes the loop of `write_fixed_all_at` has written;
  position, begin and rest of the slice follow from that number (`Progress`).
- `InitsSoundAlways`, `LengthsWithinCapacity`: a program that calls neither `read_at`
  nor `recvmsg`, nor `recv_from` on `Buffer`s of several segments, has right lengths
  without exception, and only `recvmsg` can push a length beyond its capacity. So the
  three causes named above are the only ones; `read_error` and `recvmsg_lengths` show
  two of them, the third has no run of its own.
- `SumFilled`: n bytes that fit fill segments with n bytes in all. With it a view
  still begins within the initialised bytes of a `Buffer` of several segments after
  a read through it.

The inductive invariants of `Driver` and `BufferIo` were checked with TLC before they
were proved.

Only model-checked: all liveness (`Served`, `DropEnds`, `CloseCompletes`,
`NextResolves`, `CancelledEnds`, `ChainSettles`, `CallEnds`), which is outside the
prover's reach.

## Not modelled

Flags and encodings of arguments, addresses, socket options, and what the kernel
does for sync, fallocate, rename, unlink and statx: no state of the crate depends
on them. `Driver::submit_ops` has no caller. Registrations of buffers and files only
forward to the kernel. `Buffer::try_into`, `put_slice` and user implementations of
`BufferImpl` are left out, and so are inverted ranges, which `slice` does not refuse,
and what a program may do, besides dropping it, with a `Buffer` whose iovec array
`recv_from` has overwritten. `io/writev_all.rs`, `io/pool.rs`, `io/bind.rs` and
`buf/fixed/handle.rs` are not compiled. DESIGN.md speaks of a cancellation when a
future is dropped; the code only marks the operation `Ignored`, and so does the
model.

## Plan

Every component of the crate that keeps state has a module, and every safety
property that a passing run checks has a proof. Two abstract specifications are
implemented by proof: `Fifo` by `SlabList` and `OpService` by `Driver`. What is left
is to connect the other modules: `SharedFd` as an abstract specification of what
`Requests` assumes of descriptors, and `OpService` as the one that `Requests` and
`Completions` rest on, the latter with contents. They are consistent by construction
so far, not by a refinement.
