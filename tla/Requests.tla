------------------------------ MODULE Requests ------------------------------
(***************************************************************************)
(* What the operations of io/*.rs hand to the kernel, and what they keep.  *)
(*                                                                         *)
(* A submission entry names a descriptor by its number and memory by its   *)
(* address.  Nothing but the operation's data keeps the number open and    *)
(* the memory in place: a clone of the SharedFd, and fields on the heap    *)
(* that often are never read again.  The data moves with the future, into  *)
(* the driver when the future is dropped, and is freed with the last       *)
(* completion, or when the driver itself is dropped.                       *)
(*                                                                         *)
(* One descriptor number is used over and over: it is closed when its last *)
(* holder goes or by a close() request, and may then denote another file.  *)
(***************************************************************************)
EXTENDS Naturals, FiniteSets

CONSTANTS
  Reqs,     \* requests; each is made at most once
  MaxGen,   \* bound: files that get the descriptor number
  Unset

\* A kind of request: does its data hold a clone of the SharedFd, which fields
\* does the data own on the heap, and which memory does its entry point to
\* (directly, or through the msghdr, the iovecs)?  `num` tells whether the entry
\* names a descriptor number at all; paths are relative to AT_FDCWD.
Kind(num, clone, heap, kernel) ==
  [num |-> num, clone |-> clone, heap |-> heap, kernel |-> kernel, closes |-> FALSE]

OnFd(heap, kernel)   == Kind(TRUE, TRUE, heap, kernel)
OnPath(heap, kernel) == Kind(FALSE, FALSE, heap, kernel)

Accept    == OnFd({"socketaddr"}, {"socketaddr"})
Connect   == OnFd({"socket_addr"}, {"socket_addr"})
Fallocate == OnFd({}, {})
\* Faulty variant: the clone of the descriptor is left out.
FsyncBorrowed == Kind(TRUE, FALSE, {}, {})
Fsync     == OnFd({}, {})
StatxFd   == OnFd({"path", "statx"}, {"path", "statx"})
StatxPath == OnPath({"path", "statx"}, {"path", "statx"})
Mkdir     == OnPath({"path"}, {"path"})
Open      == OnPath({"path"}, {"path"})
RenameAt  == OnPath({"from", "to"}, {"from", "to"})
Symlink   == OnPath({"from", "to"}, {"from", "to"})
Unlink    == OnPath({"path"}, {"path"})
NoOp      == OnPath({}, {})

\* ProvideBuffers tells the kernel addresses in the caller's memory; the request
\* itself touches none of it.
ProvideBuffers == OnPath({}, {})

WriteAt    == OnFd({"buf", "iovec"}, {"buf", "iovec"})
ReadAt     == OnFd({"buf", "iovec"}, {"buf", "iovec"})
ReadFixed  == OnFd({"buf"}, {"buf"})
WriteFixed == OnFd({"buf"}, {"buf"})
SendZc     == OnFd({"buf"}, {"buf"})

\* Faulty variant: io_slices, which nobody reads, is not kept.
SendToWithoutSlices ==
  OnFd({"buf", "socket_addr", "msghdr"}, {"buf", "io_slices", "socket_addr", "msghdr"})

SendTo ==
  OnFd({"buf", "io_slices", "socket_addr", "msghdr"}, {"buf", "io_slices", "socket_addr", "msghdr"})
SendMsg ==
  OnFd({"io_bufs", "io_slices", "socket_addr", "msg_control", "msghdr"},
       {"io_bufs", "io_slices", "socket_addr", "msg_control", "msghdr"})
SendMsgZc ==
  OnFd({"io_bufs", "io_slices", "socket_addr", "msg_control", "msghdr"},
       {"io_bufs", "io_slices", "socket_addr", "msg_control", "msghdr"})
RecvFrom ==
  OnFd({"buf", "io_slices", "socket_addr", "msghdr"}, {"buf", "io_slices", "socket_addr", "msghdr"})
RecvMsg ==
  OnFd({"bufs", "io_slices", "socket_addr", "msghdr"}, {"bufs", "io_slices", "socket_addr", "msghdr"})
RecvFromMultishot ==
  OnFd({"socket_addr", "msghdr", "io_slices", "iov_target"},
       {"socket_addr", "msghdr", "io_slices", "iov_target"})

\* The close() of a SharedFd: a raw number, on behalf of the last holder.
Close == [Kind(TRUE, FALSE, {}, {}) EXCEPT !.closes = TRUE]

-----------------------------------------------------------------------------
(* Which requests a handle makes.                                          *)

UdpSends     == {SendTo, SendZc, SendMsg, SendMsgZc}
UdpReceives  == {RecvFrom, RecvMsg, ReadAt, ReadFixed, WriteAt, WriteFixed}
UdpSocket    == {Connect, RecvFromMultishot} \cup UdpSends \cup UdpReceives
TcpStream    == {Connect, ReadAt, ReadFixed, WriteAt, WriteFixed}
TcpListener  == {Accept}
UnixStream   == {Connect, ReadAt, ReadFixed, WriteAt, WriteFixed}
UnixListener == {Accept}
File         == {ReadAt, ReadFixed, WriteAt, WriteFixed, Fsync, Fallocate, StatxFd}

HandleTypes == {UdpSocket, TcpStream, TcpListener, UnixStream, UnixListener, File}

\* Requests without a handle: fs, no_op, provide_buffers.
Free == {Open, StatxPath, Mkdir, RenameAt, Symlink, Unlink, NoOp, ProvideBuffers}

\* Built now, submitted later or never: an UnsubmittedOneshot, or a StatxBuilder
\* that holds a clone of the descriptor until statx() takes it.
Deferred == {ReadAt, WriteAt, StatxFd}

Kinds == {Close} \cup Free \cup (UNION HandleTypes)

ReqAssumption == Unset \notin Kinds /\ Unset \notin HandleTypes

-----------------------------------------------------------------------------
VARIABLES
  kind,     \* kind of each request, or Unset
  st,       \* new, built, queued, running, posted, completed, over; or unused
  data,     \* where its data is: none, future, driver, caller
  gen,      \* history: the file its number stood for when it was built
  hit,      \* history: the file its number stood for when the kernel took it
  fdgen,    \* the file the number stands for
  fdopen,   \* the number is open
  handle,   \* the requests the handle on the number can make, or Unset
  driverSt  \* up; in Drop for Driver: flushing, reaping; gone

reqVars == <<kind, st, data, gen, hit, fdgen, fdopen, handle, driverSt>>
descriptor == <<fdgen, fdopen, handle>>

ReqInit ==
  /\ kind = [r \in Reqs |-> Unset] /\ st = [r \in Reqs |-> "new"]
  /\ data = [r \in Reqs |-> "none"]
  /\ gen = [r \in Reqs |-> 0] /\ hit = [r \in Reqs |-> 0]
  /\ fdgen = 0 /\ fdopen = FALSE /\ handle = Unset /\ driverSt = "up"

\* The clones of the SharedFd that requests hold, given where their data is.
Clones(d) == {r \in Reqs : kind[r] # Unset /\ kind[r].clone /\ d[r] \in {"future", "driver"}}

\* The handle and the clones are gone: Drop for Inner closes the number, unless
\* a close request has it.
CloseIfLast(h, d) ==
  fdopen' = (fdopen /\ (h # Unset \/ Clones(d) # {}
                        \/ \E r \in Reqs : kind[r] = Close /\ st[r] = "queued"))

\* The environment: a file or socket gets the number.
OpenHandle(t) ==
  /\ ~fdopen /\ fdgen < MaxGen
  /\ fdopen' = TRUE /\ fdgen' = fdgen + 1
  /\ handle' = t
  /\ UNCHANGED <<kind, st, data, gen, hit, driverSt>>

DropHandle ==
  /\ handle # Unset
  /\ handle' = Unset
  /\ CloseIfLast(Unset, data)
  /\ UNCHANGED <<kind, st, data, gen, hit, fdgen, driverSt>>

\* A request is built on the handle, or without one.
Make(r, k) ==
  /\ driverSt = "up" /\ st[r] = "new"
  /\ k \in Free \/ (handle # Unset /\ k \in handle)
  /\ kind' = [kind EXCEPT ![r] = k]
  /\ st' = [st EXCEPT ![r] = IF k \in Deferred THEN "built" ELSE "queued"]
  /\ data' = [data EXCEPT ![r] = "future"]
  /\ gen' = [gen EXCEPT ![r] = IF k.num THEN fdgen ELSE 0]
  /\ UNCHANGED <<hit, descriptor, driverSt>>

SubmitReq(r) ==
  /\ driverSt = "up" /\ st[r] = "built"
  /\ st' = [st EXCEPT ![r] = "queued"]
  /\ UNCHANGED <<kind, data, gen, hit, descriptor, driverSt>>

\* close(): waits until the handle is the only holder, and gives it up.
MakeClose(r) ==
  /\ driverSt = "up" /\ st[r] = "new"
  /\ handle # Unset /\ Clones(data) = {}
  /\ kind' = [kind EXCEPT ![r] = Close]
  /\ st' = [st EXCEPT ![r] = "queued"]
  /\ data' = [data EXCEPT ![r] = "future"]
  /\ gen' = [gen EXCEPT ![r] = fdgen]
  /\ handle' = Unset
  /\ UNCHANGED <<hit, fdgen, fdopen, driverSt>>

\* The kernel takes the entry and looks the number up.
KTake(r) ==
  /\ st[r] = "queued"
  /\ st' = [st EXCEPT ![r] = "running"]
  /\ hit' = [hit EXCEPT ![r] = IF kind[r].num /\ fdopen THEN fdgen ELSE 0]
  /\ fdopen' = (fdopen /\ kind[r] # Close)
  /\ UNCHANGED <<kind, data, gen, fdgen, handle, driverSt>>

KEnd(r) ==
  /\ st[r] = "running"
  /\ st' = [st EXCEPT ![r] = "posted"]
  /\ UNCHANGED <<kind, data, gen, hit, descriptor, driverSt>>

\* Data moves or is freed, and with it the clone.
Release(r, s, d) ==
  /\ st' = [st EXCEPT ![r] = s]
  /\ data' = [data EXCEPT ![r] = d]
  /\ CloseIfLast(handle, data')
  /\ UNCHANGED <<kind, gen, hit, fdgen, handle, driverSt>>

\* Lifecycle::complete: a dropped operation's data goes, if it has not gone.
DispatchReq(r) ==
  /\ st[r] = "posted"
  /\ IF data[r] = "future" THEN Release(r, "completed", "future")
                           ELSE Release(r, "over", "none")

\* complete(): buffers and results go to the caller, the rest is dropped.
PollReq(r) == driverSt = "up" /\ st[r] = "completed" /\ Release(r, "over", "caller")

\* remove_op; a future that outlives the driver has only its own data to drop.
DropFuture(r) ==
  /\ driverSt \in {"up", "gone"}
  /\ data[r] = "future"
  /\ CASE st[r] = "built" -> Release(r, "unused", "none")
       [] st[r] = "completed" -> Release(r, "over", "none")
       [] OTHER -> Release(r, st[r], "driver")

\* Drop for Driver.  First all entries are handed to the kernel.
DropBegins ==
  /\ driverSt = "up"
  /\ driverSt' = "flushing"
  /\ UNCHANGED <<kind, st, data, gen, hit, descriptor>>

\* Then every operation in flight is marked: Ignored(Box::new(())) takes the place
\* of whatever its slab entry held, the data of a dropped future included.
MarkIgnored ==
  /\ driverSt = "flushing" /\ \A r \in Reqs : st[r] # "queued"
  /\ driverSt' = "reaping"
  /\ data' = [r \in Reqs |-> IF data[r] = "driver" THEN "none" ELSE data[r]]
  /\ CloseIfLast(handle, data')
  /\ UNCHANGED <<kind, st, gen, hit, fdgen, handle>>

\* What was cancelled completes and is dispatched, then the driver is gone.
DriverGone ==
  /\ driverSt = "reaping" /\ \A r \in Reqs : st[r] \notin {"running", "posted"}
  /\ driverSt' = "gone"
  /\ UNCHANGED <<kind, st, data, gen, hit, descriptor>>

ReqNext ==
  \/ DropHandle \/ DropBegins \/ MarkIgnored \/ DriverGone
  \/ \E t \in HandleTypes : OpenHandle(t)
  \/ \E r \in Reqs :
       \/ SubmitReq(r) \/ MakeClose(r) \/ KTake(r) \/ KEnd(r)
       \/ DispatchReq(r) \/ PollReq(r) \/ DropFuture(r)
       \/ \E k \in Free \cup UNION HandleTypes : Make(r, k)

ReqSpec == ReqInit /\ [][ReqNext]_reqVars

-----------------------------------------------------------------------------
\* The number in an entry still stands for the file it was written for when the
\* kernel takes the entry, although futures, handles and unsubmitted requests are
\* dropped in any order and numbers are reused at once.
RightFile ==
  \A r \in Reqs : st[r] \in {"running", "posted", "completed", "over"} /\ kind[r].num
                  => hit[r] = gen[r]

\* The memory that is alive because a request's data is.
HeapAlive(r) == IF data[r] \in {"future", "driver"} THEN kind[r].heap ELSE {}

\* From submission to the last completion all memory an entry points to is alive,
\* whatever becomes of the future, as long as the driver lives; and while the
\* driver is dropped too, except for the data of futures that were dropped before:
\* the marking pass frees it with the request still in the kernel
\* (DataHeldToTheEnd of module Driver has the run that shows this).
MemoryHeld ==
  \A r \in Reqs :
    st[r] \in {"queued", "running"} /\ ~(driverSt = "reaping" /\ data[r] = "none")
      => kind[r].kernel \subseteq HeapAlive(r)
=============================================================================
