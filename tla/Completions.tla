---------------------------- MODULE Completions ----------------------------
(***************************************************************************)
(* What completions carry, and what becomes of it.                         *)
(*                                                                         *)
(*   Recvs   io/recv_from_multishot.rs: every completion carries a buffer  *)
(*           the kernel took from the provided buffer group; the caller    *)
(*           gets it in a batch and provides it again                      *)
(*   Sends   io/send_zc.rs and io/sendmsg_zc.rs: the bytes sent, and later *)
(*           a notification that the kernel is done with the buffer        *)
(*   Opens   io/accept.rs and io/open.rs: a new descriptor                 *)
(*                                                                         *)
(* The way of a completion to its operation is that of module Driver: in   *)
(* order, without loss, and thrown away when the future was dropped.  Here *)
(* `list` holds what has arrived and was not yet consumed.                 *)
(***************************************************************************)
EXTENDS Naturals, Sequences, FiniteSets, Functions

CONSTANTS
  Recvs, Sends, Opens,   \* operations; each is submitted at most once
  Bufs,                  \* buffers provided to the group
  Nothing,
  Datagrams,             \* [payload, named]: length, and whether the name parses
  HeaderLen, NameLen,    \* RecvMsgOut header, and the name space reserved
  BufLen,                \* length of a provided buffer
  MaxArrivals,           \* bound: datagrams received
  SendLens               \* byte counts a send may report

CqeOps == Recvs \cup Sends \cup Opens

\* What is different is different, and lengths are numbers.
CqeAssumption ==
  /\ Recvs \cap Sends = {} /\ Recvs \cap Opens = {} /\ Sends \cap Opens = {}
  /\ Bufs \cap CqeOps = {} /\ Nothing \notin Bufs \cup CqeOps
  /\ Datagrams \subseteq [payload : Nat, named : BOOLEAN]
  /\ HeaderLen \in Nat /\ NameLen \in Nat /\ BufLen \in Nat
  /\ SendLens \subseteq Nat

VARIABLES
  fut,        \* new, live, done (final output returned) or dropped
  kern,       \* idle, armed, sent (zero-copy data sent, buffer in use), ended
  list,       \* completions an operation has received and not consumed
  carried,    \* batch, unparsed_buffers, bytes of the operation
  cancel,     \* operations the kernel was asked to end
  group,      \* buffers the kernel may take
  providing,  \* buffers in a ProvideBuffers request
  owned,      \* buffers and descriptors in the caller's hands
  lost,       \* history: buffers and descriptors nobody will see again
  taker,      \* history: the operation that last took each buffer
  packets,    \* history: the packets handed out last, [buf, len]
  sent,       \* history: bytes the kernel has sent for an operation
  arrivals    \* datagrams so far

cqeVars == <<fut, kern, list, carried, cancel, group, providing, owned, lost, taker,
             packets, sent, arrivals>>

caller == <<group, providing, owned, packets>>

NoData == [batch |-> <<>>, unparsed |-> {}, bytes |-> 0]

CQE(buf, ok, n, more) ==
  [buf |-> buf, ok |-> ok, n |-> n, more |-> more, payload |-> 0, named |-> FALSE]

CqeInit ==
  /\ fut = [o \in CqeOps |-> "new"] /\ kern = [o \in CqeOps |-> "idle"]
  /\ list = [o \in CqeOps |-> <<>>] /\ carried = [o \in CqeOps |-> NoData]
  /\ cancel = {} /\ group = Bufs /\ providing = {} /\ owned = {} /\ lost = {}
  /\ taker = [b \in Bufs |-> Nothing]
  /\ packets = {} /\ sent = [o \in CqeOps |-> 0] /\ arrivals = 0

-----------------------------------------------------------------------------
(* The calls.                                                              *)

SubmitOp(o) ==
  /\ fut[o] = "new"
  /\ fut' = [fut EXCEPT ![o] = "live"]
  /\ kern' = [kern EXCEPT ![o] = "armed"]
  /\ UNCHANGED <<list, carried, cancel, caller, lost, taker, sent, arrivals>>

\* Op::cancel.
Cancel(o) ==
  /\ o \in Recvs \ cancel
  /\ fut[o] = "live"
  /\ cancel' = cancel \cup {o}
  /\ UNCHANGED <<fut, kern, list, carried, caller, lost, taker, sent, arrivals>>

\* What a completion of o carries.
Carried(o, c) == IF o \in Opens THEN (IF c.ok THEN {o} ELSE {}) ELSE {c.buf} \ {Nothing}

\* The buffers the data of an operation holds.
BufsOf(d) == {p.buf : p \in Range(d.batch)} \cup d.unparsed

\* Drop for Op: the completions on the list are discarded with their contents.
\* No cancellation is sent: the kernel goes on until the operation ends.
DropOp(o) ==
  /\ fut[o] = "live"
  /\ fut' = [fut EXCEPT ![o] = "dropped"]
  /\ lost' = lost \cup (UNION {Carried(o, c) : c \in Range(list[o])})
                  \cup BufsOf(carried[o])
  /\ list' = [list EXCEPT ![o] = <<>>]
  /\ carried' = [carried EXCEPT ![o] = NoData]
  /\ UNCHANGED <<kern, cancel, caller, taker, sent, arrivals>>

\* The caller provides a buffer again; the request takes effect whether or not
\* its future is kept, or fails.
Provide(b) ==
  /\ b \in owned \cap Bufs
  /\ owned' = owned \ {b} /\ providing' = providing \cup {b}
  /\ UNCHANGED <<fut, kern, list, carried, cancel, group, lost, taker, packets, sent, arrivals>>

KProvide(b, ok) ==
  /\ b \in providing
  /\ providing' = providing \ {b}
  /\ IF ok THEN group' = group \cup {b} /\ owned' = owned
           ELSE owned' = owned \cup {b} /\ group' = group
  /\ UNCHANGED <<fut, kern, list, carried, cancel, lost, taker, packets, sent, arrivals>>

-----------------------------------------------------------------------------
(* The kernel.  A completion for a dropped operation is thrown away by     *)
(* Lifecycle::complete.                                                    *)

\* Faulty variant: there is room for one completion.
PostOverwrites(o, c) ==
  /\ lost' = lost \cup IF fut[o] = "dropped" THEN Carried(o, c)
                       ELSE UNION {Carried(o, old) : old \in Range(list[o])}
  /\ list' = IF fut[o] = "dropped" THEN list ELSE [list EXCEPT ![o] = <<c>>]

Post(o, c) ==
  IF fut[o] = "dropped"
  THEN lost' = lost \cup Carried(o, c) /\ list' = list
  ELSE list' = [list EXCEPT ![o] = Append(@, c)] /\ lost' = lost

End(o) == kern' = [kern EXCEPT ![o] = "ended"]

\* The kernel fills a buffer: header, reserved name space, then as much of the
\* payload as fits; the header tells the datagram's full length.  A datagram
\* without payload ends the multishot.
KRecv(o, b, d) ==
  /\ o \in Recvs /\ kern[o] = "armed"
  /\ b \in group
  /\ arrivals < MaxArrivals
  /\ arrivals' = arrivals + 1
  /\ group' = group \ {b}
  /\ taker' = [taker EXCEPT ![b] = o]
  /\ LET room == BufLen - HeaderLen - NameLen
         n    == HeaderLen + NameLen + (IF d.payload <= room THEN d.payload ELSE room)
     IN  Post(o, [buf |-> b, ok |-> TRUE, n |-> n, more |-> d.payload > 0,
                  payload |-> d.payload, named |-> d.named])
  /\ IF d.payload = 0 THEN End(o) ELSE UNCHANGED kern
  /\ UNCHANGED <<fut, carried, cancel, providing, owned, packets, sent>>

\* It ends without a buffer: the group ran dry, a socket error, a cancellation
\* (all errors), or an end of the stream.
KFinish(o, ok) ==
  /\ o \in Recvs /\ kern[o] = "armed"
  /\ ok => o \notin cancel
  /\ End(o)
  /\ Post(o, CQE(Nothing, ok, 0, FALSE))
  /\ UNCHANGED <<fut, carried, cancel, caller, taker, sent, arrivals>>

\* Bytes sent, buffer still in use; then the notification.
KSend(o, n) ==
  /\ o \in Sends /\ kern[o] = "armed"
  /\ kern' = [kern EXCEPT ![o] = "sent"]
  /\ sent' = [sent EXCEPT ![o] = n]
  /\ Post(o, CQE(Nothing, TRUE, n, TRUE))
  /\ UNCHANGED <<fut, carried, cancel, caller, taker, arrivals>>

KNotify(o) ==
  /\ o \in Sends /\ kern[o] = "sent"
  /\ End(o)
  /\ Post(o, CQE(Nothing, TRUE, 0, FALSE))
  /\ UNCHANGED <<fut, carried, cancel, caller, taker, sent, arrivals>>

\* One completion only: the data was copied, or the send failed.
KSendOnce(o, n, ok) ==
  /\ o \in Sends /\ kern[o] = "armed"
  /\ End(o)
  /\ sent' = [sent EXCEPT ![o] = IF ok THEN n ELSE 0]
  /\ Post(o, CQE(Nothing, ok, n, FALSE))
  /\ UNCHANGED <<fut, carried, cancel, caller, taker, arrivals>>

KNewFd(o, ok) ==
  /\ o \in Opens /\ kern[o] = "armed"
  /\ End(o)
  /\ Post(o, CQE(Nothing, ok, 0, FALSE))
  /\ UNCHANGED <<fut, carried, cancel, caller, taker, sent, arrivals>>

-----------------------------------------------------------------------------
(* Completable and Updateable.                                             *)

\* Faulty variant: the room taken by the name is left out.
ParsedWithoutName(c) == HeaderLen <= c.n /\ HeaderLen + c.payload <= c.n /\ c.named

\* parse_recvmsg_out succeeds.
Parsed(c) ==
  /\ HeaderLen <= c.n
  /\ HeaderLen + NameLen + c.payload <= c.n
  /\ c.named

\* Faulty variant: a completion that cannot be parsed is dropped.
RecordParsedOnly(d, c) ==
  IF c.buf # Nothing /\ Parsed(c) THEN [d EXCEPT !.batch = Append(@, [buf |-> c.buf, len |-> c.payload])] ELSE d

\* RecvFromMultishot::record.
Record(d, c) ==
  IF c.buf = Nothing THEN d
  ELSE IF Parsed(c) THEN [d EXCEPT !.batch = Append(@, [buf |-> c.buf, len |-> c.payload])]
  ELSE [d EXCEPT !.unparsed = @ \cup {c.buf}]

\* SendZc::update unwraps the result: "uring send_zc promises there will be no error
\* on CQE's marked more", and the kernel of this model posts none.
UpdateSend(d, c) == [d EXCEPT !.bytes = @ + c.n]

Update(o, d, c) == IF o \in Recvs THEN Record(d, c) ELSE UpdateSend(d, c)

ShouldYield(o, d) == o \in Recvs /\ (d.batch # <<>> \/ d.unparsed # {})

\* The data of o after the first j completions of its list.
After(o) ==
  LET f[j \in 0..Len(list[o])] == IF j = 0 THEN carried[o] ELSE Update(o, f[j - 1], list[o][j])
  IN  f

Rest(o, k) == SubSeq(list[o], k + 1, Len(list[o]))

\* RecvFromMultishot::take_batch: everything collected goes to the caller.
TakeBatch(d) ==
  /\ owned' = owned \cup BufsOf(d)
  /\ packets' = Range(d.batch)

Unfinished(o, k) ==
  \A j \in 1..k : list[o][j].more /\ ~ShouldYield(o, After(o)[j])

PollYield(o, k) ==
  /\ fut[o] = "live"
  /\ k \in 1..Len(list[o])
  /\ Unfinished(o, k - 1)
  /\ list[o][k].more /\ ShouldYield(o, After(o)[k])
  /\ TakeBatch(After(o)[k])
  /\ list' = [list EXCEPT ![o] = Rest(o, k)]
  /\ carried' = [carried EXCEPT ![o] = NoData]
  /\ UNCHANGED <<fut, kern, cancel, group, providing, lost, taker, sent, arrivals>>

\* complete() of each kind of operation.
CompleteRecv(d, c) == TakeBatch(IF c.ok THEN Record(d, c) ELSE d)

CompleteOpen(o, c) ==
  /\ owned' = IF c.ok THEN owned \cup {o} ELSE owned
  /\ UNCHANGED packets

\* Faulty variant: only the last completion counts.
SendResultLast(d, c) == IF c.ok THEN c.n ELSE 0

\* The result of a send is what complete() returns; `bytes` keeps it.
SendResult(d, c) == IF c.ok THEN d.bytes + c.n ELSE 0

\* Faulty variants: the bytes of a zero-copy send end it; an error does not end
\* anything.
FinalWithResult(c) == ~c.more \/ (c.buf = Nothing /\ c.n > 0)
FinalIfOk(c) == ~c.more /\ c.ok

Final(c) == ~c.more

PollFinal(o, k) ==
  /\ fut[o] = "live"
  /\ k \in 1..Len(list[o])
  /\ Unfinished(o, k - 1)
  /\ Final(list[o][k])
  /\ LET d == After(o)[k - 1]
         c == list[o][k]
     IN  /\ CASE o \in Recvs -> CompleteRecv(d, c)
              [] o \in Opens -> CompleteOpen(o, c)
              [] o \in Sends -> UNCHANGED <<owned, packets>>
         /\ carried' = [carried EXCEPT ![o] = [NoData EXCEPT !.bytes = SendResult(d, c)]]
  /\ fut' = [fut EXCEPT ![o] = "done"]
  /\ list' = [list EXCEPT ![o] = Rest(o, k)]
  /\ UNCHANGED <<kern, cancel, group, providing, lost, taker, sent, arrivals>>

\* Nothing to yield and nothing final: the data waits for more.
PollDrained(o) ==
  /\ fut[o] = "live"
  /\ list[o] # <<>>
  /\ Unfinished(o, Len(list[o]))
  /\ carried' = [carried EXCEPT ![o] = After(o)[Len(list[o])]]
  /\ list' = [list EXCEPT ![o] = <<>>]
  /\ UNCHANGED <<fut, kern, cancel, caller, lost, taker, sent, arrivals>>

PollOp(o) ==
  \/ \E k \in 1..Len(list[o]) : PollYield(o, k) \/ PollFinal(o, k)
  \/ PollDrained(o)

Kernel(o) ==
  \/ \E b \in Bufs, d \in Datagrams : KRecv(o, b, d)
  \/ \E ok \in BOOLEAN : KFinish(o, ok) \/ KNewFd(o, ok)
  \/ \E n \in SendLens : KSend(o, n) \/ \E ok \in BOOLEAN : KSendOnce(o, n, ok)
  \/ KNotify(o)

\* The steps of the operations in S.
NextOf(S) ==
  \/ \E o \in S : SubmitOp(o) \/ Cancel(o) \/ DropOp(o) \/ PollOp(o) \/ Kernel(o)
  \/ \E b \in Bufs : Provide(b) \/ \E ok \in BOOLEAN : KProvide(b, ok)

CqeNext == NextOf(CqeOps)

\* An operation with completions is polled, and a cancelled one ends.
CqeFairness ==
  /\ \A o \in CqeOps : WF_cqeVars(PollOp(o))
  /\ \A o \in Recvs : WF_cqeVars(o \in cancel /\ KFinish(o, FALSE))
  /\ \A o \in Sends : WF_cqeVars(Kernel(o))

CqeSpec == CqeInit /\ [][CqeNext]_cqeVars /\ CqeFairness

-----------------------------------------------------------------------------
\* The places a buffer can be in.
Places(b) ==
  <<b \in group, b \in providing, b \in owned, b \in lost,
    \E o \in Recvs : b \in BufsOf(carried[o]),
    \E o \in Recvs : \E i \in DOMAIN list[o] : list[o][i].buf = b>>

\* Every provided buffer is in exactly one place: with the kernel, in a
\* completion, in an operation, with the caller, or lost (record, take_batch,
\* complete and the drop of an operation neither duplicate nor forget one).
BuffersAccounted ==
  \A b \in Bufs : Cardinality({i \in 1..6 : Places(b)[i]}) = 1

\* Only a dropped operation loses what its completions carry: as long as the
\* caller polls, every buffer the kernel took and every new descriptor reaches
\* it, whatever could not be parsed and however the operation ends.
OnlyDropsLose ==
  \A r \in lost : fut[IF r \in Bufs THEN taker[r] ELSE r] = "dropped"

\* A final output is final: the kernel is done with the operation (with the
\* buffer of a zero-copy send in particular) and no completion of it is left.
EndIsFinal == \A o \in CqeOps : fut[o] = "done" => kern[o] = "ended" /\ list[o] = <<>>

\* A packet handed out lies within its buffer, also when the datagram was
\* larger than the buffer and the header tells its full length.
PayloadInBuffer == \A p \in packets : HeaderLen + NameLen + p.len <= BufLen

\* A zero-copy send reports the bytes the kernel has sent, once, whether they
\* came with a notification or not.
SendExact == \A o \in Sends : fut[o] = "done" => carried[o].bytes = sent[o]

\* A cancelled receive that is not dropped returns its final batch, and a
\* zero-copy send that is kept returns.
CancelledEnds ==
  /\ \A o \in Recvs : (o \in cancel) ~> (fut[o] \in {"done", "dropped"})
  /\ \A o \in Sends : (fut[o] = "live") ~> (fut[o] \in {"done", "dropped"})
=============================================================================
