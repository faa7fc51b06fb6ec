------------------------------ MODULE BufferIo ------------------------------
(***************************************************************************)
(* Buffers on their way through an operation: buf/*.rs, the fixed buffer   *)
(* registry, and the calls that read into buffers or write from them.      *)
(*                                                                         *)
(* A buffer is a sequence of segments with a capacity and an initialised   *)
(* length each.  `init` is the truth: how many bytes of each segment have  *)
(* ever been written.  One task owns at most one buffer (`cur`, perhaps    *)
(* seen through a Slice) or one operation on it; an operation it dropped   *)
(* stays with the driver (`orphan`) until the kernel is done.              *)
(***************************************************************************)
EXTENDS Naturals, Sequences

CONSTANTS
  RegCap, RegLen,   \* capacity and initialised length of the registered buffer
  Shapes,           \* buffers the task can make: [ty, cap, len]
  Calls,            \* the calls it makes
  Positions,        \* file positions it writes at
  PosMax,           \* largest file position (u64::MAX in the code)
  Nil

VARIABLES
  reg,      \* Registry.states: [free, len]
  init,     \* truth: bytes written per segment, of each memory
  cur,      \* the task's buffer, or Nil
  view,     \* the Slice it is wrapped in: <<begin, end>>, or Nil
  op,       \* the operation that owns the buffer, or Nil
  orphan,   \* an operation whose future was dropped, or Nil
  result,   \* what the last call returned, or Nil
  out,      \* history: (position, byte) pairs the kernel has written for a call
  tainted   \* history: memories whose length was left wrong (see InitSound)

bufVars == <<reg, init, cur, view, op, orphan, result, out, tainted>>

Least(a, b) == IF a <= b THEN a ELSE b
Most(a, b) == IF a >= b THEN a ELSE b

\* The sums of the first i elements of s.
Prefix(s) ==
  LET sum[i \in 0..Len(s)] == IF i = 0 THEN 0 ELSE sum[i - 1] + s[i]
  IN  sum

Sum(s) == Prefix(s)[Len(s)]

\* What a loop over segments has left of n bytes after segment i.
Left(cap, n) ==
  LET left[i \in 0..Len(cap)] ==
        IF i = 0 THEN n ELSE left[i - 1] - Least(cap[i], left[i - 1])
  IN  left

\* How `n` bytes fill segments of the given capacities one after the other.
Filled(cap, n) ==
  [i \in DOMAIN cap |->
     LET before == Prefix(cap)[i - 1]
     IN  IF n <= before THEN 0 ELSE Least(cap[i], n - before)]

-----------------------------------------------------------------------------
(* IoBuf, IoBufMut, Slice.                                                 *)

bytes_init(b)  == Sum(b.len)
bytes_total(b) == Sum(b.cap)

\* Buffer::fill.
fill(b) == [b EXCEPT !.len = b.cap]

\* Faulty variant: a segment that was reached counts as full.
set_init_whole(b, pos) ==
  IF b.ty = "buffer"
  THEN [b EXCEPT !.len =
         [i \in DOMAIN b.cap |-> IF Left(b.cap, pos)[i - 1] > 0 THEN b.cap[i] ELSE 0]]
  ELSE [b EXCEPT !.len[1] = Most(@, pos)]

\* set_init: Buffer distributes pos over its segments, and may shrink (see
\* WaterMark); a Vec only grows.
set_init(b, pos) ==
  IF b.ty = "buffer"
  THEN [b EXCEPT !.len = [i \in DOMAIN b.cap |-> Least(b.cap[i], Left(b.cap, pos)[i - 1])]]
  ELSE [b EXCEPT !.len[1] = Most(@, pos)]

\* Begin, end, bytes_init and bytes_total of a buffer seen through a view.
ViewBegin(v) == IF v = Nil THEN 0 ELSE v[1]
ViewEnd(b, v) == IF v = Nil THEN bytes_total(b) ELSE v[2]
view_init(b, v) ==
  IF v = Nil THEN bytes_init(b) ELSE Least(v[2], bytes_init(b)) - v[1]
view_total(b, v) == ViewEnd(b, v) - ViewBegin(v)

\* Faulty variant: the offset of the slice is forgotten.
slice_set_init_at_zero(b, v, pos) == set_init(b, pos)

slice_set_init(b, v, pos) == set_init(b, ViewBegin(v) + pos)

\* Slice::slice(lo..hi), with hi given from the start of the slice; Nil stands
\* for a failed assertion.
slice_slice(b, v, lo, hi) ==
  IF v[1] + lo <= v[2] /\ v[1] + hi <= v[2] /\ v[1] + lo <= bytes_init(b)
  THEN <<v[1] + lo, v[1] + hi>> ELSE Nil

-----------------------------------------------------------------------------
Mems == {"reg", "own"}

\* What the variables hold besides Nil.  A "wild" Buffer is one whose iovec array
\* was overwritten: nothing is claimed of what its segments point to, and the model
\* lets the task only drop it.
Types   == {"buffer", "vec", "vecs", "wild"}
Reads   == {"read_at", "read_fixed", "recv_from", "recvmsg"}
BufSet  == [mem : Mems, ty : Types, cap : Seq(Nat), len : Seq(Nat)]
ViewSet == Nat \X Nat
OpSet   == [call : Reads \cup {"write_at", "write_fixed", "write_all"}, mem : Mems,
            buf : BufSet, view : ViewSet \cup {Nil}, orig : ViewSet \cup {Nil},
            st : {"built", "inflight", "answered"}, ok : BOOLEAN,
            n : Nat, pos : Nat, start : Nat]
OrphanSet == [call : Reads \cup {"write_at", "write_fixed", "write_all"}, mem : Mems,
              buf : BufSet, view : ViewSet \cup {Nil}]

BufAssumption ==
  /\ RegCap \in Nat /\ RegLen \in 0..RegCap
  /\ Positions \subseteq Nat /\ PosMax \in Nat
  /\ \A s \in Shapes :
       /\ s.ty \in Types \ {"wild"} /\ s.cap \in Seq(Nat) /\ s.len \in Seq(Nat)
       /\ Len(s.cap) > 0 /\ Len(s.len) = Len(s.cap) /\ (s.ty = "vec" => Len(s.cap) = 1)
       /\ \A i \in 1..Len(s.cap) : s.len[i] <= s.cap[i]
  /\ Nil \notin BufSet /\ Nil \notin ViewSet /\ Nil \notin OpSet /\ Nil \notin OrphanSet

BufInit ==
  /\ reg = [free |-> TRUE, len |-> RegLen]
  /\ init = [m \in Mems |-> IF m = "reg" THEN <<RegLen>> ELSE <<>>]
  /\ cur = Nil /\ view = Nil /\ op = Nil /\ orphan = Nil /\ result = Nil
  /\ out = <<>> /\ tainted = {}

Holders == {x \in {cur, op, orphan} : x # Nil}

HandsFree == cur = Nil /\ op = Nil

\* What the last call returned is looked at before the next step.
ForgetResult == result' = Nil /\ out' = <<>>

\* Faulty variant: the state is not looked at.
check_out_always ==
  /\ reg' = [reg EXCEPT !.free = FALSE]
  /\ cur' = [mem |-> "reg", ty |-> "buffer", cap |-> <<RegCap>>, len |-> <<reg.len>>]

\* Registry::check_out.
check_out ==
  /\ reg.free
  /\ reg' = [reg EXCEPT !.free = FALSE]
  /\ cur' = [mem |-> "reg", ty |-> "buffer", cap |-> <<RegCap>>, len |-> <<reg.len>>]

CheckOut ==
  /\ HandsFree
  /\ check_out
  /\ ForgetResult
  /\ UNCHANGED <<init, view, op, orphan, tainted>>

\* Buffer::new on a Vec or a Vec of Vecs, or a plain Vec.
MakeBuf(s) ==
  /\ HandsFree
  /\ \A x \in Holders : x.mem # "own"
  /\ cur' = [mem |-> "own", ty |-> s.ty, cap |-> s.cap, len |-> s.len]
  /\ init' = [init EXCEPT !["own"] = s.len]
  /\ tainted' = tainted \ {"own"}
  /\ ForgetResult
  /\ UNCHANGED <<reg, view, op, orphan>>

\* Drop for Buffer; for a registered one Registry::check_in.
DroppedBuf(b) ==
  reg' = IF b.mem = "reg" THEN [free |-> TRUE, len |-> b.len[1]] ELSE reg

DropBuf ==
  /\ cur # Nil
  /\ DroppedBuf(cur)
  /\ cur' = Nil /\ view' = Nil /\ ForgetResult
  /\ UNCHANGED <<init, op, orphan, tainted>>

\* BoundedBuf::slice.
Slice(lo, hi) ==
  /\ cur # Nil /\ view = Nil /\ cur.ty \in {"buffer", "vec"}
  /\ lo < bytes_total(cur) /\ hi <= bytes_total(cur) /\ lo <= bytes_init(cur)
  /\ view' = <<lo, hi>>
  /\ ForgetResult
  /\ UNCHANGED <<reg, init, cur, op, orphan, tainted>>

SliceAgain(lo, hi) ==
  /\ cur # Nil /\ view # Nil /\ cur.ty # "wild"
  /\ slice_slice(cur, view, lo, hi) # Nil
  /\ view' = slice_slice(cur, view, lo, hi)
  /\ ForgetResult
  /\ UNCHANGED <<reg, init, cur, op, orphan, tainted>>

into_inner ==
  /\ cur # Nil /\ view # Nil /\ cur.ty # "wild"
  /\ view' = Nil
  /\ ForgetResult
  /\ UNCHANGED <<reg, init, cur, op, orphan, tainted>>

-----------------------------------------------------------------------------
(* Calls.  The buffer moves into the operation.                            *)

Operation(call, b, st, pos) ==
  [call |-> call, mem |-> b.mem, buf |-> b, view |-> view, orig |-> view,
   st |-> st, ok |-> TRUE, n |-> 0, pos |-> pos, start |-> pos]

Begins(call, b, st, pos) ==
  /\ call \in Calls
  /\ op' = Operation(call, b, st, pos)
  /\ cur' = Nil /\ view' = Nil /\ ForgetResult
  /\ UNCHANGED <<reg, init, orphan, tainted>>

IsBuffer == cur # Nil /\ cur.ty = "buffer"
Whole    == view = Nil
Fixed    == IsBuffer /\ cur.mem = "reg"

\* Unsubmitted::read_at and write_at, then submit.
read_at  == IsBuffer /\ Whole /\ Begins("read_at", fill(cur), "built", 0)
write_at == IsBuffer /\ Whole /\ Begins("write_at", cur, "built", 0)

SubmitCall ==
  /\ op # Nil /\ op.st = "built"
  /\ op' = [op EXCEPT !.st = "inflight"]
  /\ UNCHANGED <<reg, init, cur, view, orphan, result, out, tainted>>

read_fixed_at  == Fixed /\ Begins("read_fixed", cur, "inflight", 0)
write_fixed_at == Fixed /\ Begins("write_fixed", cur, "inflight", 0)
recv_from == cur # Nil /\ cur.ty \in {"buffer", "vec"} /\ Begins("recv_from", cur, "inflight", 0)
recvmsg   == cur # Nil /\ cur.ty = "vecs" /\ Begins("recvmsg", cur, "inflight", 0)

\* write_fixed_all_at: an empty buffer is written at once, one that does not fit
\* below the largest position is refused.
WriteAll(pos) ==
  /\ Fixed /\ pos + view_init(cur, view) <= PosMax /\ view_init(cur, view) # 0
  /\ Begins("write_all", cur, "inflight", pos)

WriteAllAtOnce(pos) ==
  /\ Fixed /\ "write_all" \in Calls
  /\ pos + view_init(cur, view) > PosMax \/ view_init(cur, view) = 0
  /\ result' = [call |-> "write_all", ok |-> pos + view_init(cur, view) <= PosMax,
             n |-> 0, begin |-> ViewBegin(view), pos |-> pos, all |-> view_init(cur, view)]
  /\ out' = <<>>
  /\ UNCHANGED <<reg, init, cur, view, op, orphan, tainted>>

-----------------------------------------------------------------------------
(* The kernel moves n bytes, or fails.                                     *)

Room(x) == IF x.call \in Reads THEN view_total(x.buf, x.view) ELSE view_init(x.buf, x.view)

\* stable_mut_ptr of a Buffer of several segments is its iovec array: the datagram
\* lands there and not in the segments.
IntoArray(x) == x.call = "recv_from" /\ Len(x.buf.cap) > 1

Written(x, n) ==
  IF IntoArray(x) THEN init
  ELSE [init EXCEPT ![x.mem] =
          [i \in DOMAIN @ |-> Most(@[i], Filled(x.buf.cap, ViewBegin(x.view) + n)[i])]]

KDone(n, ok) ==
  /\ op # Nil /\ op.st = "inflight"
  /\ ~ok => n = 0
  /\ op' = [op EXCEPT !.st = "answered", !.n = n, !.ok = ok]
  /\ IF op.call \in Reads
     THEN init' = Written(op, n) /\ out' = out
     ELSE /\ out' = out \o [i \in 1..n |-> <<op.pos + i - 1, ViewBegin(op.view) + i - 1>>]
          /\ init' = init
  /\ UNCHANGED <<reg, cur, view, orphan, result, tainted>>

\* The buffer of a dropped operation is dropped with its completion.
KDoneOrphan(n) ==
  /\ orphan # Nil
  /\ init' = IF orphan.call \in Reads THEN Written(orphan, n) ELSE init
  /\ DroppedBuf(orphan.buf)
  /\ tainted' = IF orphan.call = "read_at" THEN tainted \cup {orphan.mem} ELSE tainted
  /\ orphan' = Nil /\ result' = Nil
  /\ UNCHANGED <<cur, view, op, out>>

-----------------------------------------------------------------------------
(* Completion.                                                             *)

\* RecvMsg::complete: the loop over the buffers.
recvmsg_init(b, n) ==
  LET left == Left(b.cap, n)
  IN  [b EXCEPT !.len = [i \in DOMAIN b.cap |->
        IF i > 1 /\ left[i - 1] = 0 THEN b.len[i] ELSE Most(b.len[i], left[i - 1])]]

\* The buffer a call gives back.
Returned(x) ==
  IF ~x.ok \/ x.call \notin Reads THEN x.buf
  ELSE CASE x.call = "read_at" -> set_init(x.buf, x.n)
         [] x.call \in {"read_fixed", "recv_from"} ->
              [slice_set_init(x.buf, x.view, x.n) EXCEPT
                 !.ty = IF IntoArray(x) /\ x.n > 0 THEN "wild" ELSE @]
         [] x.call = "recvmsg" -> recvmsg_init(x.buf, x.n)

CallResult(x, ok) ==
  [call |-> x.call, ok |-> ok, n |-> x.n, begin |-> ViewBegin(x.orig), pos |-> x.start,
   all |-> view_init(x.buf, x.orig)]

Returns(x, ok) ==
  /\ cur' = Returned(x) /\ view' = x.orig
  /\ op' = Nil /\ result' = CallResult(x, ok)
  /\ tainted' = IF \/ x.call = "read_at" /\ ~x.ok
                   \/ x.call = "recvmsg" /\ x.n > x.buf.cap[1]
                   \/ IntoArray(x) /\ x.ok /\ ViewBegin(x.view) + x.n > 0
                THEN tainted \cup {x.mem}
                ELSE IF x.call = "read_at" THEN tainted \ {x.mem} ELSE tainted
  /\ UNCHANGED <<reg, init, orphan, out>>

Complete ==
  /\ op # Nil /\ op.st = "answered" /\ op.call # "write_all"
  /\ Returns(op, op.ok)

\* write_fixed_all_at_slice: the rest of the slice.  Nil is the whole buffer
\* as a slice.
RestOf(x) ==
  LET v == IF x.view = Nil THEN <<0, bytes_total(x.buf)>> ELSE x.view
  IN  slice_slice(x.buf, v, x.n, v[2] - v[1])

WriteAllEnds ==
  /\ op # Nil /\ op.st = "answered" /\ op.call = "write_all"
  /\ ~op.ok \/ op.n = 0 \/ view_init(op.buf, RestOf(op)) = 0
  /\ Returns(op, op.ok /\ op.n > 0)

\* Faulty variant: the position is not advanced.
WriteAllSamePos ==
  /\ op # Nil /\ op.st = "answered" /\ op.call = "write_all"
  /\ op.ok /\ op.n > 0 /\ view_init(op.buf, RestOf(op)) > 0
  /\ op' = [op EXCEPT !.view = RestOf(op), !.st = "inflight"]
  /\ UNCHANGED <<reg, init, cur, view, orphan, result, out, tainted>>

WriteAllGoesOn ==
  /\ op # Nil /\ op.st = "answered" /\ op.call = "write_all"
  /\ op.ok /\ op.n > 0 /\ view_init(op.buf, RestOf(op)) > 0
  /\ op' = [op EXCEPT !.pos = @ + op.n, !.view = RestOf(op), !.st = "inflight"]
  /\ UNCHANGED <<reg, init, cur, view, orphan, result, out, tainted>>

\* The future is dropped: unsubmitted or answered, the buffer goes at once.
DropCall ==
  /\ op # Nil
  /\ op.st = "inflight" => orphan = Nil
  /\ IF op.st = "inflight"
     THEN /\ orphan' = [call |-> op.call, mem |-> op.mem, buf |-> op.buf, view |-> op.view]
          /\ UNCHANGED <<reg, tainted>>
     ELSE /\ DroppedBuf(op.buf)
          /\ tainted' = IF op.call = "read_at" THEN tainted \cup {op.mem} ELSE tainted
          /\ UNCHANGED orphan
  /\ op' = Nil /\ ForgetResult
  /\ UNCHANGED <<init, cur, view>>

-----------------------------------------------------------------------------
BufNext ==
  \/ CheckOut \/ DropBuf \/ into_inner \/ SubmitCall \/ Complete \/ WriteAllEnds
  \/ WriteAllGoesOn \/ DropCall
  \/ read_at \/ write_at \/ read_fixed_at \/ write_fixed_at \/ recv_from \/ recvmsg
  \/ \E s \in Shapes : MakeBuf(s)
  \/ cur # Nil /\ \E lo, hi \in 0..bytes_total(cur) :
       lo <= hi /\ (Slice(lo, hi) \/ SliceAgain(lo, hi))
  \/ \E pos \in Positions : WriteAll(pos) \/ WriteAllAtOnce(pos)
  \/ orphan # Nil /\ \E n \in 0..Room(orphan) : KDoneOrphan(n)
  \/ op # Nil /\ \E n \in 0..Room(op), ok \in BOOLEAN : KDone(n, ok)

BufSpec == BufInit /\ [][BufNext]_bufVars

-----------------------------------------------------------------------------
\* A visible length is backed by bytes that were written.
Backed(m, len) == \A i \in DOMAIN len : len[i] <= init[m][i]

\* No safe reader sees bytes nobody has written: the initialised lengths of a
\* buffer in the task's hands, or waiting in the registry, cover only written
\* bytes, whatever was read, sliced, dropped or failed before.  Three cases are left
\* out here: a read_at that did not succeed and a recvmsg into several Vecs, which
\* have runs of their own, and a recv_from into a Buffer of several segments, whose
\* set_init counts bytes that went into the iovec array.
InitSound ==
  /\ cur # Nil /\ cur.mem \notin tainted => Backed(cur.mem, cur.len)
  /\ reg.free /\ "reg" \notin tainted => Backed("reg", <<reg.len>>)

\* The same without exception, as IoBuf::bytes_init documents it: "Number of
\* initialized bytes".  read_at fills the lengths before the read.
InitSoundAlways ==
  /\ cur # Nil => Backed(cur.mem, cur.len)
  /\ reg.free => Backed("reg", <<reg.len>>)

\* set_init is called with positions inside the buffer only: no initialised
\* length exceeds its capacity (IoBufMut::set_init asks for bytes "owned by the
\* buffer").
WithinCapacity == cur # Nil => \A i \in DOMAIN cur.len : cur.len[i] <= cur.cap[i]

\* Slices and lengths agree, through nested slices and reads in any order.  After
\* a successful read every byte the kernel wrote is visible, in the segment where a
\* vectored read puts it, and so are the bytes before the slice.  A view stays
\* inside its buffer and begins within the initialised bytes (else Deref panics).
SliceSound ==
  /\ result # Nil /\ cur # Nil /\ result.ok /\ result.call \in {"read_at", "read_fixed"} =>
       \A i \in DOMAIN cur.cap : Filled(cur.cap, result.begin + result.n)[i] <= cur.len[i]
  /\ cur # Nil /\ view # Nil =>
       view[1] <= view[2] /\ view[2] <= bytes_total(cur) /\ view[1] <= bytes_init(cur)

\* IoBufMut::set_init: a position above bytes_init "becomes the new water mark", and
\* one below changes nothing ("init does not go backwards").  So the registered
\* buffer never shows fewer bytes than it was registered with; a short read into a
\* Buffer takes some away.
WaterMark ==
  /\ cur # Nil /\ cur.mem = "reg" => bytes_init(cur) >= RegLen
  /\ reg.free => reg.len >= RegLen

\* The registered buffer is free, or exactly one of the task, an operation and
\* a dropped operation in flight holds it: two owners never share the memory,
\* and it always comes back.
OneHolder ==
  LET holders == {i \in 1..3 : <<cur, op, orphan>>[i] # Nil /\ <<cur, op, orphan>>[i].mem = "reg"}
  IN  IF reg.free THEN holders = {} ELSE \E i \in 1..3 : holders = {i}

\* write_fixed_all_at writes the initialised bytes of its slice one after the
\* other, to consecutive positions that do not wrap, however the kernel cuts
\* them; if it reports success it has written all of them.
WriteAllExact ==
  LET Exact(n, pos, begin) == out = [i \in 1..n |-> <<pos + i - 1, begin + i - 1>>]
  IN  /\ op # Nil /\ op.call = "write_all" =>
           Exact(Len(out), op.start, ViewBegin(op.orig)) /\ op.pos + view_init(op.buf, op.view) <= PosMax
      /\ result # Nil /\ result.call = "write_all" /\ result.ok => Exact(result.all, result.pos, result.begin)
=============================================================================
