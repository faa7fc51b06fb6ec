--------------------------- MODULE RequestsProofs ---------------------------
(***************************************************************************)
(* A request meets the file it was written for, and the memory its entry   *)
(* points to is held, for any number of requests and of files that get the *)
(* descriptor number.  A file is opened with what its options ask for,     *)
(* whatever others do to the path; the first two operations of a chain run *)
(* in order, for chains and rings of any length; create_dir_all does not   *)
(* fail without reason and does not lie, for paths of any depth and any    *)
(* number of callers.                                                      *)
(***************************************************************************)
EXTENDS Requests, OpenOptions, LinkChain, CreateDirAll, Integers, TLAPS

-----------------------------------------------------------------------------
(* The inductive invariant.                                                *)

TypeOK ==
  /\ kind \in [Reqs -> Kinds \cup {Unset}]
  /\ st \in [Reqs -> {"new", "built", "queued", "running", "posted", "completed", "over", "unused"}]
  /\ data \in [Reqs -> {"none", "future", "driver", "caller"}]
  /\ gen \in [Reqs -> Nat] /\ hit \in [Reqs -> Nat]
  /\ fdgen \in Nat /\ fdopen \in BOOLEAN
  /\ handle \in HandleTypes \cup {Unset}
  /\ driverSt \in {"up", "flushing", "reaping", "gone"}

\* The data of a request lives in its future or in the driver from the call that
\* builds it to the last completion.  The marking pass takes what the driver has,
\* once nothing is queued any more; the driver goes when nothing is in flight.
DataInv ==
  \A r \in Reqs :
    /\ st[r] = "new" <=> kind[r] = Unset
    /\ st[r] = "built" => kind[r] # Close
    /\ st[r] \in {"built", "completed"} => data[r] = "future"
    /\ st[r] \in {"queued", "running", "posted"} =>
         data[r] \in {"future", "driver"} \/ (driverSt = "reaping" /\ data[r] = "none")
    /\ driverSt \in {"reaping", "gone"} => st[r] # "queued" /\ data[r] # "driver"
    /\ driverSt = "gone" => st[r] \notin {"running", "posted"}
    /\ st[r] \in {"new", "over", "unused"} => data[r] \in {"none", "caller"}

Closing(r) == kind[r] = Close /\ st[r] = "queued"

\* The number is open, and stands for the same file, as long as somebody relies
\* on it: the handle, a clone, or the one close request, which relies on it alone.
FdInv ==
  /\ handle # Unset => fdopen
  /\ \A r \in Clones(data) : fdopen /\ gen[r] = fdgen
  /\ \A r \in Reqs : Closing(r) =>
       /\ fdopen /\ gen[r] = fdgen
       /\ handle = Unset /\ Clones(data) = {}
       /\ \A q \in Reqs : Closing(q) => q = r

IInv == TypeOK /\ DataInv /\ FdInv /\ RightFile

-----------------------------------------------------------------------------
(* The kinds of requests.                                                  *)

\* Requests without a handle name no descriptor.
LEMMA FreeKinds == \A k \in Free : ~k.num /\ ~k.clone /\ k.kernel \subseteq k.heap /\ k # Close
  BY DEF Free, Open, StatxPath, Mkdir, RenameAt, Symlink, Unlink, NoOp, ProvideBuffers,
         OnPath, Kind, Close

\* Requests on a handle hold a clone of its descriptor, and own the memory they
\* point to.
LEMMA HandleKinds ==
  \A k \in UNION HandleTypes : k.num /\ k.clone /\ k.kernel \subseteq k.heap /\ k # Close
<1> SUFFICES ASSUME NEW t \in HandleTypes, NEW k \in t
             PROVE  k.num /\ k.clone /\ k.kernel \subseteq k.heap /\ k # Close
  OBVIOUS
<1> USE DEF OnFd, Kind, Close
<1>1. CASE k \in UdpSends
  BY <1>1 DEF UdpSends, SendTo, SendZc, SendMsg, SendMsgZc
<1>2. CASE k \in UdpReceives
  BY <1>2 DEF UdpReceives, RecvFrom, RecvMsg, ReadAt, ReadFixed, WriteAt, WriteFixed
<1>3. CASE k \in {Connect, RecvFromMultishot, ReadAt, ReadFixed, WriteAt, WriteFixed}
  BY <1>3 DEF Connect, RecvFromMultishot, ReadAt, ReadFixed, WriteAt, WriteFixed
<1>4. CASE k \in {Accept, Fsync, Fallocate, StatxFd}
  BY <1>4 DEF Accept, Fsync, Fallocate, StatxFd
<1> QED
  BY <1>1, <1>2, <1>3, <1>4
  DEF HandleTypes, UdpSocket, TcpStream, TcpListener, UnixStream, UnixListener, File

LEMMA CloseKind == Close.num /\ ~Close.clone /\ Close.kernel \subseteq Close.heap
  BY DEF Close, Kind

-----------------------------------------------------------------------------
LEMMA InitInv == ReqAssumption /\ ReqInit => IInv
<1> SUFFICES ASSUME ReqAssumption, ReqInit PROVE IInv
  OBVIOUS
<1>1. \A r \in Reqs : kind[r] = Unset /\ st[r] = "new" /\ data[r] = "none"
  BY DEF ReqInit
<1>2. TypeOK BY DEF ReqInit, TypeOK
<1>3. Unset # Close BY DEF ReqAssumption, Kinds
<1>4. DataInv /\ FdInv /\ RightFile
  BY <1>1, <1>3 DEF ReqInit, DataInv, FdInv, Closing, Clones, RightFile
<1> QED BY <1>2, <1>4 DEF IInv

\* Data that moves or is freed.
LEMMA ReleaseInv ==
  ASSUME ReqAssumption, IInv, NEW r \in Reqs, NEW s, NEW d, Release(r, s, d),
         st[r] \in {"built", "queued", "running", "posted", "completed"},
         \/ s = st[r] /\ d = "driver" /\ st[r] \in {"queued", "running", "posted"} /\ driverSt = "up"
         \/ s = "completed" /\ d = data[r] /\ d = "future" /\ st[r] = "posted"
         \/ s = "over" /\ d \in {"none", "caller"} /\ st[r] \in {"posted", "completed"}
         \/ s = "unused" /\ d = "none" /\ st[r] = "built"
  PROVE  IInv'
<1> USE DEF ReqAssumption, Release, IInv
<1>1. TypeOK'
  BY DEF TypeOK, CloseIfLast
<1>2. DataInv'
  BY DEF TypeOK, DataInv
<1>3. Clones(data)' \subseteq Clones(data)
  BY DEF TypeOK, DataInv, Clones
<1>4. \A q \in Reqs : Closing(q)' <=> Closing(q)
  BY DEF TypeOK, Closing
<1>5. FdInv'
  <2>1. (fdopen /\ (handle # Unset \/ Clones(data') # {} \/ \E q \in Reqs : Closing(q))) => fdopen'
    BY DEF CloseIfLast, Closing
  <2> QED BY <1>3, <1>4, <2>1 DEF FdInv, Clones
<1>6. RightFile'
  BY DEF TypeOK, RightFile
<1> QED BY <1>1, <1>2, <1>5, <1>6

\* Every step keeps the invariant.
LEMMA StepInv == ReqAssumption /\ IInv /\ [ReqNext]_reqVars => IInv'
<1> SUFFICES ASSUME ReqAssumption, IInv, [ReqNext]_reqVars PROVE IInv'
  OBVIOUS
<1> USE DEF ReqAssumption, IInv, descriptor
<1>1. CASE DropHandle
  <2> USE <1>1 DEF DropHandle
  <2>1. TypeOK' BY DEF TypeOK, CloseIfLast
  <2>2. DataInv' /\ RightFile' BY DEF DataInv, RightFile
  <2>3. (fdopen /\ (Clones(data) # {} \/ \E q \in Reqs : Closing(q))) => fdopen'
    BY DEF CloseIfLast, Closing
  <2>4. FdInv' BY <2>3 DEF FdInv, Clones, Closing
  <2> QED BY <2>1, <2>2, <2>4
<1>2. ASSUME NEW t \in HandleTypes, OpenHandle(t) PROVE IInv'
  <2> USE <1>2 DEF OpenHandle
  <2>1. TypeOK' BY DEF TypeOK
  <2>2. DataInv' /\ RightFile' BY DEF DataInv, RightFile
  <2>3. FdInv' BY DEF FdInv, Clones, Closing
  <2> QED BY <2>1, <2>2, <2>3
<1>3. ASSUME NEW r \in Reqs, NEW k \in Free \cup UNION HandleTypes, Make(r, k) PROVE IInv'
  <2> USE <1>3 DEF Make
  <2>1. k # Unset /\ k # Close /\ (k.num <=> k.clone) /\ (k.num => handle # Unset)
    BY FreeKinds, HandleKinds DEF Kinds, TypeOK
  <2>2. TypeOK' BY DEF TypeOK, Kinds
  <2>3. DataInv' BY <2>1 DEF TypeOK, DataInv, Deferred
  <2>4. Clones(data)' \subseteq Clones(data) \cup {r} /\ (r \in Clones(data)' => k.num)
    BY <2>1 DEF TypeOK, DataInv, Clones
  <2>5. \A q \in Reqs : Closing(q)' <=> Closing(q)
    BY <2>1 DEF TypeOK, DataInv, Closing
  <2>6. FdInv'
    <3>1. \A q \in Clones(data)' : fdopen' /\ gen'[q] = fdgen'
      <4> SUFFICES ASSUME NEW q \in Clones(data)' PROVE fdopen /\ gen'[q] = fdgen
        OBVIOUS
      <4>1. CASE q = r BY <2>1, <2>4, <4>1 DEF TypeOK, FdInv
      <4>2. CASE q # r
        <5>1. q \in Clones(data) BY <2>4, <4>2
        <5>2. q \in Reqs BY <5>1 DEF Clones
        <5> QED BY <4>2, <5>1, <5>2 DEF TypeOK, FdInv
      <4> QED BY <4>1, <4>2
    <3>2. ASSUME NEW q \in Reqs, Closing(q)
          PROVE  gen'[q] = gen[q] /\ Clones(data)' = {}
      <4>1. q # r BY <3>2 DEF Closing
      <4>2. handle = Unset /\ Clones(data) = {}
        BY <3>2 DEF FdInv
      <4>3. gen'[q] = gen[q] BY <4>1 DEF TypeOK
      <4> QED BY <2>1, <2>4, <4>2, <4>3
    <3> QED BY <2>5, <3>1, <3>2 DEF FdInv
  <2>7. RightFile' BY DEF TypeOK, RightFile
  <2> QED BY <2>2, <2>3, <2>6, <2>7
<1>4. ASSUME NEW r \in Reqs, SubmitReq(r) PROVE IInv'
  <2> USE <1>4 DEF SubmitReq
  <2>1. TypeOK' BY DEF TypeOK
  <2>2. DataInv' BY DEF TypeOK, DataInv
  <2>3. kind[r] # Close
    BY DEF DataInv
  <2>4. FdInv' BY <2>3 DEF TypeOK, FdInv, Clones, Closing
  <2>5. RightFile' BY DEF TypeOK, RightFile
  <2> QED BY <2>1, <2>2, <2>4, <2>5
<1>5. ASSUME NEW r \in Reqs, MakeClose(r) PROVE IInv'
  <2> USE <1>5, CloseKind DEF MakeClose
  <2>1. TypeOK' BY DEF TypeOK, Kinds
  <2>2. DataInv' BY DEF TypeOK, DataInv, Kinds
  <2>3. Clones(data)' = {} BY DEF TypeOK, DataInv, Clones
  <2>4. \A q \in Reqs : Closing(q)' <=> q = r
    BY DEF TypeOK, FdInv, Closing
  <2>5. FdInv' BY <2>3, <2>4 DEF TypeOK, FdInv
  <2>6. RightFile' BY DEF TypeOK, RightFile
  <2> QED BY <2>1, <2>2, <2>5, <2>6
<1>6. ASSUME NEW r \in Reqs, KTake(r) PROVE IInv'
  <2> USE <1>6 DEF KTake
  <2>1. TypeOK' BY DEF TypeOK
  <2>2. DataInv' BY DEF TypeOK, DataInv
  <2>3. kind[r].num => fdopen /\ gen[r] = fdgen
    <3>1. CASE kind[r] = Close
      BY <3>1 DEF FdInv, Closing
    <3>2. CASE kind[r] # Close /\ kind[r].num
      BY <3>2, FreeKinds, HandleKinds DEF TypeOK, Kinds, DataInv, FdInv, Clones
    <3> QED BY <3>1, <3>2
  <2>4. FdInv'
    <3>1. CASE kind[r] = Close
      BY <3>1 DEF TypeOK, FdInv, Clones, Closing
    <3>2. CASE kind[r] # Close
      <4>1. fdopen' = fdopen BY <3>2 DEF TypeOK
      <4> QED BY <3>2, <4>1 DEF TypeOK, FdInv, Clones, Closing
    <3> QED BY <3>1, <3>2
  <2>5. RightFile' BY <2>3 DEF TypeOK, RightFile
  <2> QED BY <2>1, <2>2, <2>4, <2>5
<1>7. ASSUME NEW r \in Reqs, KEnd(r) PROVE IInv'
  <2> USE <1>7 DEF KEnd
  <2>1. TypeOK' BY DEF TypeOK
  <2>2. DataInv' BY DEF TypeOK, DataInv
  <2>3. FdInv' BY DEF TypeOK, FdInv, Clones, Closing
  <2>4. RightFile' BY DEF TypeOK, RightFile
  <2> QED BY <2>1, <2>2, <2>3, <2>4
<1>8. ASSUME NEW r \in Reqs, DispatchReq(r) PROVE IInv'
  BY <1>8, ReleaseInv DEF DispatchReq, TypeOK, DataInv
<1>9. ASSUME NEW r \in Reqs, PollReq(r) PROVE IInv'
  BY <1>9, ReleaseInv DEF PollReq, TypeOK, DataInv
<1>10. ASSUME NEW r \in Reqs, DropFuture(r) PROVE IInv'
  BY <1>10, ReleaseInv DEF DropFuture, TypeOK, DataInv
<1>11. CASE DropBegins \/ DriverGone
  <2> USE <1>11 DEF DropBegins, DriverGone
  <2>1. TypeOK' /\ DataInv' BY DEF TypeOK, DataInv
  <2>2. FdInv' /\ RightFile' BY DEF FdInv, Clones, Closing, RightFile
  <2> QED BY <2>1, <2>2
<1>12. CASE MarkIgnored
  <2> USE <1>12 DEF MarkIgnored
  <2>1. TypeOK' BY DEF TypeOK, CloseIfLast
  <2>2. DataInv' BY DEF TypeOK, DataInv
  <2>3. Clones(data)' \subseteq Clones(data)
    BY DEF TypeOK, Clones
  <2>4. (fdopen /\ (handle # Unset \/ Clones(data') # {})) => fdopen'
    BY DEF CloseIfLast
  <2>5. FdInv' BY <2>3, <2>4 DEF FdInv, Clones, Closing
  <2>6. RightFile' BY DEF TypeOK, RightFile
  <2> QED BY <2>1, <2>2, <2>5, <2>6
<1>13. CASE UNCHANGED reqVars
  BY <1>13 DEF reqVars, TypeOK, DataInv, FdInv, Clones, Closing, RightFile
<1> QED
  BY <1>1, <1>2, <1>3, <1>4, <1>5, <1>6, <1>7, <1>8, <1>9, <1>10, <1>11, <1>12, <1>13 DEF ReqNext

\* The number in an entry still stands for the file it was written for when the
\* kernel looks it up: holders keep it open (SharedFd clones in the operations).
THEOREM RightFileAlways ==
  ASSUME ReqAssumption
  PROVE  ReqSpec => []RightFile
<1>1. ReqInit => IInv BY InitInv
<1>2. IInv /\ [ReqNext]_reqVars => IInv' BY StepInv
<1>3. IInv => RightFile BY DEF IInv
<1> QED BY <1>1, <1>2, <1>3, PTL DEF ReqSpec

\* All memory an entry points to is owned by data that is alive until the last
\* completion (the fields of the operations in io/), up to the marking pass of Drop
\* for Driver, and through it when the future still has the data.
THEOREM MemoryHeldAlways ==
  ASSUME ReqAssumption
  PROVE  ReqSpec => []MemoryHeld
<1>1. ReqInit => IInv BY InitInv
<1>2. IInv /\ [ReqNext]_reqVars => IInv' BY StepInv
<1>3. IInv => MemoryHeld
  BY FreeKinds, HandleKinds, CloseKind DEF IInv, TypeOK, DataInv, MemoryHeld, HeapAlive, Kinds
<1> QED BY <1>1, <1>2, <1>3, PTL DEF ReqSpec

-----------------------------------------------------------------------------
(* Opening a file, whoever else creates, fills and removes it meanwhile.   *)

\* The request in flight carries the flags of valid options, and what was returned
\* is what they ask for.
OpenInv ==
  /\ opts \subseteq Options /\ custom \subseteq Custom
  /\ req # Absent => access_mode # Absent /\ creation_mode # Absent
                     /\ req = open_flags
  /\ OpenedAsAsked

\* What the flags say of the options that pass access_mode and creation_mode.
LEMMA OpenFlags ==
  ASSUME OpenInv, access_mode # Absent, creation_mode # Absent
  PROVE  LET f == open_flags IN
         /\ f \cap {"O_RDONLY", "O_RDWR"} # {} <=> "read" \in opts
         /\ f \cap {"O_WRONLY", "O_RDWR"} # {} <=> opts \cap {"write", "append"} # {}
         /\ "create_new" \in opts => {"O_CREAT", "O_EXCL"} \subseteq f
         /\ "O_CREAT" \in f => \/ "O_CREAT" \in custom
                               \/ /\ opts \cap {"create", "create_new"} # {}
                                  /\ opts \cap {"write", "append"} # {}
         /\ "O_TRUNC" \in f => \/ "O_TRUNC" \in custom
                               \/ {"truncate", "write"} \subseteq opts /\ "append" \notin opts
         /\ "O_PATH" \in f <=> "O_PATH" \in custom
<1> DEFINE a == access_mode
           m == creation_mode
           x == custom \ AccessModes
<1>1. x \cap {"O_RDONLY", "O_WRONLY", "O_RDWR"} = {} /\ x \subseteq custom
      /\ ("O_PATH" \in custom => "O_PATH" \in x)
  BY DEF AccessModes
<1>2. /\ a \subseteq {"O_RDONLY", "O_WRONLY", "O_RDWR", "O_APPEND"}
      /\ a \cap {"O_RDONLY", "O_RDWR"} # {} <=> "read" \in opts
      /\ a \cap {"O_WRONLY", "O_RDWR"} # {} <=> opts \cap {"write", "append"} # {}
  BY DEF access_mode
<1>3. /\ m \subseteq {"O_CREAT", "O_EXCL", "O_TRUNC"}
      /\ "create_new" \in opts => {"O_CREAT", "O_EXCL"} \subseteq m
      /\ "O_CREAT" \in m => /\ opts \cap {"create", "create_new"} # {}
                            /\ opts \cap {"write", "append"} # {}
      /\ "O_TRUNC" \in m => {"truncate", "write"} \subseteq opts /\ "append" \notin opts
  BY DEF creation_mode
<1>4. open_flags = a \cup m \cup x
  BY DEF open_flags
<1> HIDE DEF a, m, x
<1> QED BY <1>1, <1>2, <1>3, <1>4

LEMMA OpenStep == ASSUME OpenInv, [OpenNext]_openVars PROVE OpenInv'
<1> USE DEF OpenInv
<1>1. CASE open
  BY <1>1 DEF open, Idle, Result, OpenedAsAsked,
              open_flags, access_mode, creation_mode
<1>2. CASE KOpenFails
  BY <1>2 DEF KOpenFails, Result, OpenedAsAsked
<1>3. CASE KOpen
  <2> USE <1>3 DEF KOpen
  <2>1. /\ req \cap {"O_RDONLY", "O_RDWR"} # {} <=> "read" \in opts
        /\ req \cap {"O_WRONLY", "O_RDWR"} # {} <=> opts \cap {"write", "append"} # {}
        /\ "create_new" \in opts => {"O_CREAT", "O_EXCL"} \subseteq req
        /\ "O_CREAT" \in req => \/ "O_CREAT" \in custom
                                \/ /\ opts \cap {"create", "create_new"} # {}
                                   /\ opts \cap {"write", "append"} # {}
        /\ "O_TRUNC" \in req => \/ "O_TRUNC" \in custom
                                \/ {"truncate", "write"} \subseteq opts /\ "append" \notin opts
        /\ "O_PATH" \in req <=> "O_PATH" \in custom
    BY OpenFlags
  <2>2. OpenedAsAsked'
    BY <2>1 DEF OpenedAsAsked, Result
  <2> QED BY <2>2
<1>4. CASE Forget
  BY <1>4 DEF Forget, OpenedAsAsked, open_flags,
              access_mode, creation_mode
<1>5. ASSUME NEW o \in Options, NEW on \in BOOLEAN, SetOption(o, on) PROVE OpenInv'
  BY <1>5 DEF SetOption, Idle, OpenedAsAsked
<1>6. ASSUME NEW f \in SUBSET Custom, custom_flags(f) PROVE OpenInv'
  BY <1>6 DEF custom_flags, Idle, OpenedAsAsked
<1>7. ASSUME NEW f, Other(f) PROVE OpenInv'
  BY <1>7 DEF Other, OpenedAsAsked, open_flags,
              access_mode, creation_mode
<1>8. CASE UNCHANGED openVars
  BY <1>8 DEF openVars, OpenedAsAsked, open_flags,
              access_mode, creation_mode
<1>9. CASE KOpenPath
  <2>1. "O_PATH" \in custom
    BY <1>9, OpenFlags DEF KOpenPath
  <2> QED BY <1>9, <2>1 DEF KOpenPath, Result, OpenedAsAsked
<1> QED BY <1>1, <1>2, <1>3, <1>4, <1>5, <1>6, <1>7, <1>8, <1>9 DEF OpenNext

\* Whatever the options, whichever bits a caller may put in custom_flags, and
\* whoever races for the name: a file is opened with the access, created and
\* truncated only as the options and the O_CREAT, O_TRUNC and O_PATH of
\* custom_flags say (OpenOptions::access_mode, creation_mode and open).
THEOREM OpensAsAsked == OpenSpec => []OpenedAsAsked
<1>1. OpenInit => OpenInv
  BY DEF OpenInit, OpenInv, OpenedAsAsked
<1>2. OpenInv /\ [OpenNext]_openVars => OpenInv'
  BY OpenStep
<1>3. OpenInv => OpenedAsAsked
  BY DEF OpenInv
<1> QED BY <1>1, <1>2, <1>3, PTL DEF OpenSpec

-----------------------------------------------------------------------------
(* Linked operations, for chains and rings of any length.                  *)

LinkType ==
  /\ len \in 1..MaxLen /\ flag \in [Ops -> {"none", "soft", "hard"}]
  /\ phase \in {"build", "push", "submitted"} /\ pushed \in 0..len
  /\ sq \in Seq(Nat) /\ \A i \in 1..Len(sq) : sq[i] <= pushed
  /\ room \in Int /\ pred \in [Ops -> Nat]
  /\ kst \in [Ops -> {"new", "waits", "runs"} \cup OpEnded]

\* Before the first push nothing has happened, and link marks the first operation.
Building ==
  /\ phase = "build" => pushed = 0 /\ room = 0
  /\ phase = "push" => pushed < len
  /\ phase = "submitted" => pushed = len
  /\ pushed = 0 => pred[1] = 0 /\ \A o \in Ops : kst[o] = "new"
  /\ len > 1 => flag[1] # "none"

\* The first two entries are not yet entered: the places behind p, which entries
\* of other tasks take up, are theirs.
InRing(p) ==
  /\ kst[1] = "new" /\ kst[2] = "new" /\ pred[1] = 0
  /\ p + 1 < SQCap
  /\ IF pushed < 2 THEN Len(sq) = p + pushed ELSE Len(sq) >= p + 2
  /\ \A i \in 1..Len(sq) : (sq[i] = 1 <=> i = p + 1) /\ (sq[i] = 2 <=> i = p + 2)
                           /\ (i <= p => sq[i] = 0)

\* They were entered together: the kernel has chained them.
Chained ==
  /\ pushed >= 2 /\ \A i \in 1..Len(sq) : sq[i] # 1 /\ sq[i] # 2
  /\ pred[2] = 1 /\ kst[1] \in {"runs", "ok", "failed"}
  /\ kst[1] = "runs" => kst[2] = "waits"
  /\ kst[1] = "failed" /\ flag[1] = "soft" => kst[2] = "canceled"
  /\ kst[2] # "new"

PairInv == len > 1 /\ room > 1 => (\E p \in Nat : InRing(p)) \/ Chained

LinkInv == LinkType /\ Building /\ PairInv

LEMMA LinkCalls ==
  ASSUME LinkAssumption, LinkInv,
         \/ \E f \in {"soft", "hard"} : LinkWith(f)
         \/ PollChain \/ DropChain \/ UNCHANGED linkVars
  PROVE  LinkInv'
<1>1. ASSUME NEW f \in {"soft", "hard"}, LinkWith(f) PROVE LinkInv'
  <2> USE <1>1 DEF LinkWith, kernel
  <2>1. LinkType' BY DEF LinkInv, LinkType, LinkAssumption, Ops
  <2>2. 1 \in Ops BY DEF LinkAssumption, Ops
  <2>3. Building' BY <2>2 DEF LinkInv, LinkType, Building
  <2>4. PairInv' BY DEF LinkInv, Building, PairInv
  <2> QED BY <2>1, <2>3, <2>4 DEF LinkInv
<1>2. CASE PollChain \/ DropChain \/ UNCHANGED linkVars
  <2>1. UNCHANGED <<len, flag, phase, pushed, sq, room, pred, kst>>
    BY <1>2 DEF PollChain, DropChain, linkVars, kernel
  <2> QED BY <2>1 DEF LinkInv, LinkType, Building, PairInv, InRing, Chained
<1> QED BY <1>1, <1>2

LEMMA LinkSubmit ==
  ASSUME LinkAssumption, LinkInv, NEW k \in Prefills, SubmitChain(k)
  PROVE  LinkInv'
<1> USE DEF SubmitChain, kernel
<1>0. k \in Nat /\ sq' = [i \in 1..k |-> 0]
  BY DEF LinkAssumption
<1>1. sq' \in Seq(Nat) /\ Len(sq') = k /\ \A i \in 1..k : sq'[i] = 0
  BY <1>0
<1>2. LinkType'
  BY <1>0, <1>1 DEF LinkInv, LinkType, Building, LinkAssumption
<1>3. Building'
  BY DEF LinkInv, LinkType, Building
<1>4. PairInv'
  <2> SUFFICES ASSUME len > 1, room' > 1 PROVE InRing(k)'
    BY <1>0 DEF PairInv
  <2>1. k + 1 < SQCap BY <1>0 DEF LinkAssumption
  <2>2. 1 \in Ops /\ 2 \in Ops BY DEF LinkInv, LinkType, Ops, LinkAssumption
  <2>3. pushed' = 0 /\ pred'[1] = 0 /\ kst'[1] = "new" /\ kst'[2] = "new"
    BY <2>2 DEF LinkInv, Building
  <2>4. \A i \in 1..Len(sq') : (sq'[i] = 1 <=> i = k + 1) /\ (sq'[i] = 2 <=> i = k + 2)
                               /\ (i <= k => sq'[i] = 0)
    BY <1>0, <1>1
  <2> QED BY <1>0, <1>1, <2>1, <2>3, <2>4 DEF InRing
<1> QED BY <1>2, <1>3, <1>4 DEF LinkInv

LEMMA LinkPush ==
  ASSUME LinkAssumption, LinkInv, Push
  PROVE  LinkInv'
<1> USE DEF Push, kernel
<1>0. len \in Nat /\ pushed \in Nat /\ pushed < len /\ sq \in Seq(Nat) /\ Len(sq) \in Nat
  BY DEF LinkInv, LinkType, Building, LinkAssumption
<1>1. /\ sq' \in Seq(Nat) /\ Len(sq') = Len(sq) + 1 /\ sq'[Len(sq) + 1] = pushed + 1
      /\ \A i \in 1..Len(sq) : sq'[i] = sq[i]
  BY <1>0
<1>2. \A i \in 1..Len(sq') : i \in 1..Len(sq) \/ i = Len(sq) + 1
  BY <1>0, <1>1
<1>3. \A i \in 1..Len(sq') : sq'[i] <= pushed'
  BY <1>0, <1>1, <1>2 DEF LinkInv, LinkType
<1>4. LinkType'
  BY <1>0, <1>1, <1>3 DEF LinkInv, LinkType
<1>5. Building'
  BY <1>0 DEF LinkInv, LinkType, Building
<1>6. PairInv'
  <2> SUFFICES ASSUME len > 1, room > 1 PROVE (\E p \in Nat : InRing(p)') \/ Chained'
    BY DEF PairInv
  <2>1. ASSUME NEW p \in Nat, InRing(p) PROVE InRing(p)'
    <3>1. IF pushed' < 2 THEN Len(sq') = p + pushed' ELSE Len(sq') >= p + 2
      BY <1>0, <1>1, <2>1 DEF InRing
    <3>2. ASSUME NEW i \in 1..Len(sq')
          PROVE  (sq'[i] = 1 <=> i = p + 1) /\ (sq'[i] = 2 <=> i = p + 2) /\ (i <= p => sq'[i] = 0)
      <4>1. CASE i \in 1..Len(sq) BY <1>1, <2>1, <4>1 DEF InRing
      <4>2. CASE i = Len(sq) + 1
        <5>1. CASE pushed < 2
          <6>1. Len(sq) = p + pushed BY <2>1, <5>1 DEF InRing
          <6>2. pushed = 0 \/ pushed = 1 BY <1>0, <5>1
          <6> QED BY <1>0, <1>1, <4>2, <6>1, <6>2
        <5>2. CASE pushed >= 2
          <6>1. Len(sq) >= p + 2 BY <1>0, <2>1, <5>2 DEF InRing
          <6> QED BY <1>0, <1>1, <4>2, <5>2, <6>1
        <5> QED BY <1>0, <5>1, <5>2
      <4> QED BY <1>2, <4>1, <4>2
    <3> QED BY <2>1, <3>1, <3>2 DEF InRing
  <2>2. ASSUME Chained PROVE Chained'
    <3>1. \A i \in 1..Len(sq') : sq'[i] # 1 /\ sq'[i] # 2
      BY <1>0, <1>1, <1>2, <2>2 DEF Chained
    <3> QED BY <1>0, <2>2, <3>1 DEF Chained
  <2> QED BY <2>1, <2>2 DEF LinkInv, PairInv
<1> QED BY <1>4, <1>5, <1>6 DEF LinkInv

\* The entries in the ring are taken: what an entry follows is its left neighbour.
LEMMA LinkEnter ==
  ASSUME LinkAssumption, LinkInv, Enter
  PROVE  LinkInv'
<1> DEFINE own == {i \in DOMAIN sq : sq[i] # 0}
           Leads(i) == i > 1 /\ sq[i - 1] # 0 /\ flag[sq[i - 1]] # "none"
           Place(o) == CHOOSE i \in own : sq[i] = o
           taken == {sq[i] : i \in own}
<1>0. /\ len \in Nat /\ pushed \in Nat /\ pushed <= len /\ len <= MaxLen /\ MaxLen \in Nat
      /\ sq \in Seq(Nat) /\ DOMAIN sq = 1..Len(sq) /\ Len(sq) \in Nat
      /\ pred \in [Ops -> Nat]
  BY DEF LinkInv, LinkType, LinkAssumption
<1>1. /\ pred' = [o \in Ops |->
                    IF o \in taken /\ Leads(Place(o)) THEN sq[Place(o) - 1] ELSE pred[o]]
      /\ kst' = [o \in Ops |-> IF o \notin taken THEN kst[o]
                                ELSE IF pred'[o] = 0 THEN "runs"
                                ELSE IF kst[pred'[o]] \in OpEnded THEN "runs" ELSE "waits"]
      /\ (phase = "submitted" \/ Len(sq) = SQCap)
      /\ sq' = <<>> /\ UNCHANGED <<len, flag, phase, pushed, room>>
  BY DEF Enter
<1>2. \A o \in taken : Place(o) \in 1..Len(sq) /\ sq[Place(o)] = o
  BY <1>0
<1> HIDE DEF taken, Leads, Place
<1>3. pred' \in [Ops -> Nat]
  <2> SUFFICES ASSUME NEW o \in Ops, o \in taken, Leads(Place(o)) PROVE sq[Place(o) - 1] \in Nat
    BY <1>0, <1>1
  <2>1. Place(o) \in 1..Len(sq) /\ Place(o) > 1 BY <1>2 DEF Leads
  <2> QED BY <1>0, <2>1
<1>4. LinkType'
  BY <1>0, <1>1, <1>3 DEF LinkInv, LinkType, OpEnded
<1>5. 1 \in Ops
  BY <1>0 DEF Ops, LinkInv, LinkType
<1>6. pushed = 0 => taken = {}
  BY <1>0 DEF LinkInv, LinkType, taken
<1>7. Building'
  BY <1>1, <1>5, <1>6 DEF LinkInv, Building
<1>8. PairInv'
  <2> SUFFICES ASSUME len > 1, room > 1 PROVE Chained'
    BY <1>1 DEF PairInv
  <2>0. 2 \in Ops BY <1>0 DEF Ops
  <2>1. ASSUME NEW p \in Nat, InRing(p) PROVE Chained'
    <3>1. pushed >= 2 /\ Len(sq) >= p + 2
      <4>1. /\ p + 1 < SQCap /\ SQCap \in Nat
            /\ IF pushed < 2 THEN Len(sq) = p + pushed ELSE Len(sq) >= p + 2
        BY <2>1 DEF InRing, LinkAssumption
      <4>2. phase = "submitted" => pushed = len BY DEF LinkInv, Building
      <4>3. phase = "submitted" \/ Len(sq) = SQCap BY <1>1
      <4>4. len \in Nat /\ pushed \in Nat /\ Len(sq) \in Nat BY <1>0
      <4>5. ASSUME pushed < 2 PROVE FALSE
        <5>1. Len(sq) = p + pushed BY <4>1, <4>5
        <5>2. Len(sq) # SQCap BY <4>1, <4>4, <4>5, <5>1
        <5> QED BY <4>2, <4>3, <4>4, <4>5, <5>2
      <4>6. pushed >= 2 BY <4>4, <4>5
      <4> QED BY <4>1, <4>4, <4>6
    <3>2. p + 1 \in 1..Len(sq) /\ p + 2 \in 1..Len(sq) BY <1>0, <3>1
    <3>3. sq[p + 1] = 1 /\ sq[p + 2] = 2 BY <2>1, <3>2 DEF InRing
    <3>4. 1 \in taken /\ 2 \in taken
      <4>1. p + 1 \in own /\ p + 2 \in own BY <1>0, <3>2, <3>3
      <4> HIDE DEF own
      <4> QED BY <3>3, <4>1 DEF taken
    <3>5. Place(1) = p + 1 /\ Place(2) = p + 2 BY <1>2, <2>1, <3>4 DEF InRing
    <3>6. ~Leads(p + 1)
      <4> SUFFICES ASSUME p + 1 > 1 PROVE sq[(p + 1) - 1] = 0
        BY DEF Leads
      <4>1. (p + 1) - 1 = p /\ p \in 1..Len(sq) BY <1>0, <3>1
      <4> QED BY <2>1, <4>1 DEF InRing
    <3>7. Leads(p + 2) /\ sq[(p + 2) - 1] = 1
      <4>1. (p + 2) - 1 = p + 1 /\ p + 2 > 1 OBVIOUS
      <4> QED BY <3>3, <4>1 DEF Leads, LinkInv, Building
    <3>8. pred'[1] = 0 /\ pred'[2] = 1
      BY <1>1, <1>5, <2>0, <2>1, <3>4, <3>5, <3>6, <3>7 DEF InRing
    <3>9. kst'[1] = "runs" /\ kst'[2] = "waits"
      BY <1>1, <1>5, <2>0, <2>1, <3>4, <3>8 DEF InRing, OpEnded
    <3> QED BY <1>1, <3>1, <3>8, <3>9 DEF Chained
  <2>2. ASSUME Chained PROVE Chained'
    <3>1. 1 \notin taken /\ 2 \notin taken BY <1>0, <2>2 DEF Chained, taken
    <3>2. pred'[2] = pred[2] /\ kst'[1] = kst[1] /\ kst'[2] = kst[2] BY <1>1, <1>5, <2>0, <3>1
    <3> QED BY <1>1, <2>2, <3>2 DEF Chained
  <2> QED BY <2>1, <2>2 DEF LinkInv, PairInv
<1> QED BY <1>4, <1>7, <1>8 DEF LinkInv

LEMMA LinkKEnd ==
  ASSUME LinkAssumption, LinkInv, NEW o \in Ops, NEW ok \in BOOLEAN, KEndLinked(o, ok)
  PROVE  LinkInv'
<1> DEFINE B == Behind(o)
<1>1. /\ kst[o] = "runs"
      /\ kst' = [s \in Ops |->
           CASE s = o -> (IF ok THEN "ok" ELSE "failed")
             [] s \in B /\ ~ok /\ flag[o] = "soft" -> "canceled"
             [] s \in B /\ s = o + 1 /\ (ok \/ flag[o] = "hard") -> "runs"
             [] OTHER -> kst[s]]
      /\ UNCHANGED <<len, flag, phase, pushed, sq, room, pred>>
  BY DEF KEndLinked
<1>2. o \in Nat /\ o >= 1 /\ 1 \in Ops
  BY DEF Ops, LinkAssumption
<1>3. \A s \in B : s > o
  BY DEF Behind
<1>4. \A s \in B : s # o
  BY <1>2, <1>3
<1> HIDE DEF B
<1>5. /\ kst'[o] = IF ok THEN "ok" ELSE "failed"
      /\ \A s \in Ops \ {o} :
           /\ s \notin B => kst'[s] = kst[s]
           /\ s \in B /\ ~ok /\ flag[o] = "soft" => kst'[s] = "canceled"
           /\ s \in B /\ s = o + 1 /\ (ok \/ flag[o] = "hard") => kst'[s] = "runs"
           /\ kst'[s] \in {"canceled", "runs", kst[s]}
  <2>1. kst'[o] = IF ok THEN "ok" ELSE "failed" BY <1>1, <1>4
  <2>2. ASSUME NEW s \in Ops \ {o}
        PROVE  kst'[s] = CASE s \in B /\ ~ok /\ flag[o] = "soft" -> "canceled"
                           [] s \in B /\ s = o + 1 /\ (ok \/ flag[o] = "hard") -> "runs"
                           [] OTHER -> kst[s]
    BY <1>1
  <2>3. ~("soft" = "hard") OBVIOUS
  <2> QED BY <2>1, <2>2, <2>3
<1>6. LinkType'
  BY <1>1, <1>5 DEF LinkInv, LinkType, OpEnded
<1>7. Building'
  BY <1>1 DEF LinkInv, Building
<1>8. PairInv'
  <2> SUFFICES ASSUME len > 1, room > 1 PROVE (\E p \in Nat : InRing(p)') \/ Chained'
    BY <1>1 DEF PairInv
  <2>0. 2 \in Ops BY DEF Ops, LinkInv, LinkType, LinkAssumption
  <2>1. 1 \notin B /\ (o # 1 => 2 \notin B) BY <1>2, <1>3
  <2>2. ASSUME NEW p \in Nat, InRing(p) PROVE InRing(p)'
    <3>1. o # 1 /\ o # 2 BY <1>1, <2>2 DEF InRing
    <3>2. kst'[1] = kst[1] /\ kst'[2] = kst[2] BY <1>2, <1>5, <2>0, <2>1, <3>1
    <3> QED BY <1>1, <2>2, <3>2 DEF InRing
  <2>3. ASSUME Chained PROVE Chained'
    <3>1. CASE o = 1
      <4>1. 2 \in B
        <5>1. \A j \in 1..(2 - 1) : pred[j + 1] = j BY <2>3 DEF Chained
        <5> QED BY <2>0, <3>1, <5>1 DEF B, Behind
      <4>2. flag[1] \in {"soft", "hard"} BY <1>2 DEF LinkInv, LinkType, Building
      <4>3. /\ kst'[1] = IF ok THEN "ok" ELSE "failed"
            /\ IF ok \/ flag[1] = "hard" THEN kst'[2] = "runs" ELSE kst'[2] = "canceled"
        BY <1>5, <2>0, <3>1, <4>1, <4>2
      <4> QED BY <1>1, <2>3, <4>3 DEF Chained
    <3>2. CASE o # 1
      <4>1. kst'[1] = kst[1] /\ (o # 2 => kst'[2] = kst[2]) BY <1>2, <1>5, <2>0, <2>1, <3>2
      <4>2. o = 2 => kst'[2] \in {"ok", "failed"} BY <1>5
      <4> QED BY <1>1, <2>3, <4>1, <4>2 DEF Chained
    <3> QED BY <3>1, <3>2
  <2> QED BY <2>2, <2>3 DEF LinkInv, PairInv
<1> QED BY <1>6, <1>7, <1>8 DEF LinkInv

\* The first two operations of a chain run in order if the ring had room for both,
\* whatever its size, whoever else has entries in it and whenever the thread enters
\* (Submit for Link, submit_op_2): nothing separates their entries.
THEOREM FirstPairLinked == ASSUME LinkAssumption PROVE LinkSpec => []PairLinked
<1>1. LinkInit => LinkInv
  <2> SUFFICES ASSUME LinkInit PROVE LinkInv
    OBVIOUS
  <2>1. 1 \in Ops BY DEF LinkAssumption, Ops
  <2>2. LinkType BY DEF LinkInit, LinkType, LinkAssumption
  <2> QED BY <2>1, <2>2 DEF LinkInit, LinkInv, Building, PairInv
<1>2. LinkInv /\ [LinkNext]_linkVars => LinkInv'
  BY LinkCalls, LinkSubmit, LinkPush, LinkEnter, LinkKEnd DEF LinkNext
<1>3. LinkInv => PairLinked
  <2> SUFFICES ASSUME LinkInv, len > 1, room > 1, Started(2)
               PROVE  kst[1] \in OpEnded /\ (flag[1] = "soft" => kst[1] = "ok")
    BY DEF PairLinked
  <2>1. kst[2] \in {"runs", "ok", "failed"} BY DEF Started
  <2>2. Chained BY <2>1 DEF LinkInv, PairInv, InRing
  <2> QED BY <2>1, <2>2 DEF Chained, OpEnded
<1> QED BY <1>1, <1>2, <1>3, PTL DEF LinkSpec
-----------------------------------------------------------------------------
(* create_dir_all.                                                         *)

DirType ==
  /\ fs \in [Levels -> {"none", "dir", "file"}]
  /\ world \subseteq {"removes", "files", "errors"}
  /\ recursive \in [Callers -> BOOLEAN]
  /\ lvl \in [Callers -> 1..Depth]
  /\ stage \in [Callers -> {"idle", "mkdir", "is_dir", "mkdir2", "is_dir2"} \cup Ended]
  /\ seen \in [Callers -> BOOLEAN]

\* Nobody removes directories or creates files: the levels that exist are
\* directories and go on existing.
CalmTree ==
  world = {} =>
    /\ fs[0] = "dir"
    /\ \A i \in Levels : fs[i] # "file"

\* Then a caller's second mkdir finds its parent, and is_dir is asked only of
\* what is there.
CalmCalls ==
  world = {} => \A c \in Callers : recursive[c] =>
    /\ stage[c] = "mkdir2" => fs[lvl[c] - 1] = "dir"
    /\ stage[c] \in {"is_dir", "is_dir2"} => fs[lvl[c]] = "dir"
    /\ stage[c] # "err"

DirInv == DirType /\ OkMeansDir /\ CalmTree /\ CalmCalls

-----------------------------------------------------------------------------
LEMMA DirInitInv == DirAssumption /\ DirInit => DirInv
  BY DEF DirAssumption, DirInit, DirInv, DirType, Levels, Ended, OkMeansDir, CalmTree, CalmCalls

\* Callers other than the one that moves are not disturbed by a tree that only
\* grows.
Grows == \A i \in Levels : fs[i] = "dir" => fs'[i] = "dir"

\* What the kernel's mkdir does, and what its answer tells.
LEMMA MkdirStep ==
  ASSUME DirAssumption, DirInv, NEW c \in Callers, NEW r \in Results, NEW p, MkdirAt(c, p, r)
  PROVE  /\ fs' \in [Levels -> {"none", "dir", "file"}]
         /\ Grows
         /\ r = "ok" => fs'[lvl[c]] = "dir"
         /\ world = {} =>
              /\ \A i \in Levels : fs'[i] # "file"
              /\ r = "NotFound" => fs[lvl[c] - 1] # "dir"
              /\ r = "other" => fs[lvl[c]] = "dir"
<1> USE DEF DirAssumption, DirInv, Levels
<1>1. lvl[c] \in 1..Depth /\ lvl[c] - 1 \in Levels /\ lvl[c] \in Levels
  BY DEF DirType
<1>2. r = mkdir_result(lvl[c]) \/ (Error(r) /\ r = "other")
  BY DEF MkdirAt, Error
<1>3. CASE r = mkdir_result(lvl[c])
  BY <1>1, <1>3 DEF MkdirAt, mkdir_result, mkdir_effect, DirType, CalmTree, Grows, Results
<1>4. CASE Error(r) /\ r = "other"
  BY <1>1, <1>4 DEF MkdirAt, Error, DirType, CalmTree, Grows
<1> QED BY <1>2, <1>3, <1>4

\* What a step of a caller leaves behind: another level and another position.
LEMMA MovedType ==
  ASSUME DirAssumption, DirType, NEW c \in Callers, NEW i \in 1..Depth,
         NEW p \in {"idle", "mkdir", "is_dir", "mkdir2", "is_dir2"} \cup Ended, Goto(c, i, p),
         fs' \in [Levels -> {"none", "dir", "file"}],
         Witness(fs', stage'), UNCHANGED <<world, recursive>>
  PROVE  DirType'
  BY DEF DirType, Goto, Witness

LEMMA MovedInv ==
  ASSUME DirAssumption, DirInv, NEW c \in Callers, Running(c), NEW i \in 1..Depth,
         NEW p \in {"mkdir", "is_dir", "mkdir2", "is_dir2", "ok", "err"}, Goto(c, i, p),
         fs' \in [Levels -> {"none", "dir", "file"}], Grows,
         Witness(fs', stage'), UNCHANGED <<world, recursive>>,
         p = "ok" => fs'[Depth] = "dir",
         world = {} =>
           /\ \A j \in Levels : fs'[j] # "file"
           /\ recursive[c] =>
                /\ p = "mkdir2" => fs'[i - 1] = "dir"
                /\ p \in {"is_dir", "is_dir2"} => fs'[i] = "dir"
                /\ p # "err"
  PROVE  DirInv'
<1>1. DirType'
  <2>1. p \in {"idle", "mkdir", "is_dir", "mkdir2", "is_dir2"} \cup Ended BY DEF Ended
  <2> QED BY <2>1, MovedType DEF DirInv
<1> USE DEF DirAssumption, DirInv, Levels
<1>2. OkMeansDir'
  BY DEF DirType, Goto, Witness, OkMeansDir, Running, Ended
<1>3. CalmTree' BY DEF CalmTree, Grows
<1>4. CalmCalls'
  <2> SUFFICES ASSUME world = {}, NEW d \in Callers, recursive[d]
               PROVE  /\ stage'[d] = "mkdir2" => fs'[lvl'[d] - 1] = "dir"
                      /\ stage'[d] \in {"is_dir", "is_dir2"} => fs'[lvl'[d]] = "dir"
                      /\ stage'[d] # "err"
    BY DEF CalmCalls
  <2>1. CASE d = c BY <2>1 DEF Goto, DirType
  <2>2. CASE d # c
    <3>1. lvl'[d] = lvl[d] /\ stage'[d] = stage[d] /\ lvl[d] \in Levels /\ lvl[d] - 1 \in Levels
      BY <2>2 DEF Goto, DirType
    <3> QED BY <3>1 DEF CalmCalls, Grows
  <2> QED BY <2>1, <2>2
<1> QED BY <1>1, <1>2, <1>3, <1>4

\* recurse_create_dir_all returns to its caller, one level up or at the top.
LEMMA ReturnsInv ==
  ASSUME DirAssumption, DirInv, NEW c \in Callers, Running(c), NEW ok \in BOOLEAN, Returns(c, ok),
         fs' \in [Levels -> {"none", "dir", "file"}], Grows,
         Witness(fs', stage'), UNCHANGED <<world, recursive>>,
         ok => fs'[lvl[c]] = "dir",
         world = {} => /\ \A j \in Levels : fs'[j] # "file"
                       /\ recursive[c] => ok
  PROVE  DirInv'
<1> USE DEF Returns
<1>1. lvl[c] \in 1..Depth BY DEF DirInv, DirType
<1>2. CASE ~ok BY <1>1, <1>2, MovedInv
<1>3. CASE ok /\ lvl[c] = Depth BY <1>1, <1>3, MovedInv
<1>4. CASE ok /\ lvl[c] # Depth
  <2>1. lvl[c] + 1 \in 1..Depth /\ (lvl[c] + 1) - 1 = lvl[c]
    BY <1>1, <1>4 DEF DirAssumption
  <2> QED BY <1>4, <2>1, MovedInv
<1> QED BY <1>2, <1>3, <1>4

\* Every step keeps the invariant.
LEMMA DirStepInv == DirAssumption /\ DirInv /\ [DirNext]_dirVars => DirInv'
<1> SUFFICES ASSUME DirAssumption, DirInv, [DirNext]_dirVars PROVE DirInv'
  OBVIOUS
<1>1. ASSUME NEW c \in Callers, Call(c) PROVE DirInv'
  <2>1. DirType' BY <1>1 DEF Call, Witness, DirInv, DirType
  <2>2. OkMeansDir' /\ CalmTree' BY <1>1 DEF Call, Witness, DirInv, DirType, OkMeansDir, CalmTree
  <2>3. CalmCalls' BY <1>1 DEF Call, DirInv, DirType, CalmCalls
  <2> QED BY <2>1, <2>2, <2>3 DEF DirInv
<1>2. ASSUME NEW c \in Callers, NEW r \in Results, FirstMkdir(c, r) PROVE DirInv'
  <2> USE <1>2
  <2>1. MkdirAt(c, "mkdir", r) /\ Running(c)
    BY DEF FirstMkdir, MkdirAt, Running, Ended
  <2>2. Witness(fs', stage') /\ UNCHANGED <<world, recursive>>
    BY <2>1 DEF MkdirAt
  <2>3. lvl[c] \in 1..Depth BY DEF DirInv, DirType
  <2>4. CASE r = "ok" \/ ~recursive[c]
    <3>1. Returns(c, r = "ok") BY <2>4 DEF FirstMkdir
    <3>2. world = {} /\ recursive[c] => r = "ok" BY <2>4
    <3> QED BY <2>1, <2>2, <3>1, <3>2, MkdirStep, ReturnsInv
  <2>5. CASE r = "NotFound" /\ recursive[c]
    <3>1. Descend(c) BY <2>5 DEF FirstMkdir
    <3>2. CASE lvl[c] = 1
      <4>1. Goto(c, 1, "mkdir2") BY <3>1, <3>2 DEF Descend
      <4>2. world # {} BY <2>1, <2>5, <3>2, MkdirStep DEF DirInv, CalmTree
      <4> QED BY <2>1, <2>2, <2>3, <3>2, <4>1, <4>2, MkdirStep, MovedInv
    <3>3. CASE lvl[c] # 1
      <4>1. Goto(c, lvl[c] - 1, "mkdir") /\ lvl[c] - 1 \in 1..Depth
        BY <2>3, <3>1, <3>3 DEF Descend, DirAssumption
      <4> QED BY <2>1, <2>2, <4>1, MkdirStep, MovedInv
    <3> QED BY <3>2, <3>3
  <2>6. CASE r = "other" /\ recursive[c]
    <3>1. Goto(c, lvl[c], "is_dir") BY <2>6 DEF FirstMkdir
    <3>2. world = {} => fs'[lvl[c]] = "dir"
      BY <2>1, <2>3, <2>6, MkdirStep DEF Grows, Levels, DirAssumption
    <3> QED BY <2>1, <2>2, <2>3, <3>1, <3>2, MkdirStep, MovedInv
  <2> QED BY <2>4, <2>5, <2>6 DEF Results
<1>3. ASSUME NEW c \in Callers, NEW r \in Results, SecondMkdir(c, r) PROVE DirInv'
  <2> USE <1>3
  <2>1. MkdirAt(c, "mkdir2", r) /\ Running(c)
    BY DEF SecondMkdir, MkdirAt, Running, Ended
  <2>2. Witness(fs', stage') /\ UNCHANGED <<world, recursive>>
    BY <2>1 DEF MkdirAt
  <2>3. lvl[c] \in 1..Depth BY DEF DirInv, DirType
  <2>4. CASE r = "ok"
    <3>1. Returns(c, TRUE) BY <2>4 DEF SecondMkdir
    <3> QED BY <2>1, <2>2, <2>4, <3>1, MkdirStep, ReturnsInv
  <2>5. CASE r # "ok"
    <3>1. Goto(c, lvl[c], "is_dir2") BY <2>5 DEF SecondMkdir
    <3>2. world = {} /\ recursive[c] => r = "other"
      BY <2>1, <2>5, MkdirStep DEF DirInv, CalmCalls, MkdirAt, Results
    <3>3. world = {} /\ recursive[c] => fs'[lvl[c]] = "dir"
      BY <2>1, <2>3, <3>2, MkdirStep DEF Grows, Levels, DirAssumption
    <3> QED BY <2>1, <2>2, <2>3, <3>1, <3>3, MkdirStep, MovedInv
  <2> QED BY <2>4, <2>5
<1>4. ASSUME NEW c \in Callers, NEW yes \in BOOLEAN, Answer(c, yes) PROVE DirInv'
  <2> USE <1>4 DEF Answer
  <2>1. Running(c) BY DEF Running, Ended
  <2>2. yes => fs'[lvl[c]] = "dir" BY DEF is_dir
  <2>3. world = {} /\ recursive[c] => yes BY DEF DirInv, CalmCalls, is_dir, Error
  <2>4. Grows /\ fs' \in [Levels -> {"none", "dir", "file"}] BY DEF Grows, DirInv, DirType
  <2>5. world = {} => \A j \in Levels : fs'[j] # "file" BY DEF DirInv, CalmTree
  <2> QED BY <2>1, <2>2, <2>3, <2>4, <2>5, ReturnsInv
<1>5. ASSUME NEW c \in Callers, NEW late \in BOOLEAN, Drop(c, late) PROVE DirInv'
  <2> USE <1>5 DEF Drop, DirInv, Levels, DirAssumption
  <2>1. lvl[c] \in Levels /\ lvl[c] - 1 \in Levels BY DEF DirType
  <2>2. /\ fs' \in [Levels -> {"none", "dir", "file"}] /\ Grows
        /\ world = {} => \A j \in Levels : fs'[j] # "file"
    BY <2>1 DEF mkdir_effect, mkdir_result, Grows, DirType, CalmTree
  <2>3. DirType' BY <2>2 DEF DirType, Witness, Ended
  <2>4. OkMeansDir' BY DEF DirType, Witness, OkMeansDir
  <2>5. CalmTree' BY <2>2 DEF CalmTree, Grows
  <2>6. CalmCalls'
    <3>1. \A d \in Callers : lvl[d] \in Levels /\ lvl[d] - 1 \in Levels BY DEF DirType
    <3> QED BY <2>2, <3>1 DEF CalmCalls, Grows, DirType
  <2> QED BY <2>3, <2>4, <2>5, <2>6
<1>6. ASSUME NEW i \in Levels, NEW w \in {"dir", "file"}, OtherCreates(i, w) PROVE DirInv'
  <2> USE <1>6 DEF OtherCreates, DirInv
  <2>1. DirType' BY DEF DirType, Witness
  <2>2. OkMeansDir' BY DEF DirType, Witness, OkMeansDir
  <2>3. CalmTree' BY DEF DirType, CalmTree, Levels, DirAssumption
  <2>4. CalmCalls'
    <3>1. \A d \in Callers : lvl[d] \in Levels /\ lvl[d] - 1 \in Levels
      BY DEF DirType, Levels, DirAssumption
    <3> QED BY <3>1 DEF CalmCalls, DirType
  <2> QED BY <2>1, <2>2, <2>3, <2>4
<1>7. ASSUME NEW i \in Levels, OtherRemoves(i) PROVE DirInv'
  <2> USE <1>7 DEF OtherRemoves, DirInv
  <2>1. DirType' BY DEF DirType, Witness
  <2>2. OkMeansDir' BY DEF DirType, Witness, OkMeansDir
  <2>3. CalmTree' /\ CalmCalls' BY DEF CalmTree, CalmCalls
  <2> QED BY <2>1, <2>2, <2>3
<1>8. CASE UNCHANGED dirVars
  BY <1>8 DEF dirVars, DirInv, DirType, OkMeansDir, CalmTree, CalmCalls
<1> QED
  BY <1>1, <1>2, <1>3, <1>4, <1>5, <1>6, <1>7, <1>8 DEF DirNext, Step

\* A recursive call never fails because of callers and processes that only
\* create directories, for paths of any depth (recurse_create_dir_all).
THEOREM NeverSpuriousError ==
  ASSUME DirAssumption
  PROVE  DirSpec => []NoSpuriousError
<1>1. DirInit => DirInv BY DirInitInv
<1>2. DirInv /\ [DirNext]_dirVars => DirInv' BY DirStepInv
<1>3. DirInv => NoSpuriousError BY DEF DirInv, CalmCalls, NoSpuriousError
<1> QED BY <1>1, <1>2, <1>3, PTL DEF DirSpec

\* Ok means that the whole path was a directory at some time during the call,
\* whatever other processes do (recurse_create_dir_all, is_dir).
THEOREM OkAlwaysMeansDir ==
  ASSUME DirAssumption
  PROVE  DirSpec => []OkMeansDir
<1>1. DirInit => DirInv BY DirInitInv
<1>2. DirInv /\ [DirNext]_dirVars => DirInv' BY DirStepInv
<1>3. DirInv => OkMeansDir BY DEF DirInv
<1> QED BY <1>1, <1>2, <1>3, PTL DEF DirSpec
=============================================================================
