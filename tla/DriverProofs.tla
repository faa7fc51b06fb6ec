---------------------------- MODULE DriverProofs ----------------------------
(***************************************************************************)
(* Module Driver for every number of operations, slab keys and ring        *)
(* entries, whatever the kernel and the callers do.  First type            *)
(* correctness: the state is well-formed and the rings stay within their   *)
(* capacity.  Then safety: the driver keeps the data of every request the  *)
(* kernel may still touch, routes every completion to the operation it     *)
(* belongs to although slab keys are reused, and is dropped only when the  *)
(* kernel is done.  Then three facts that rest on it: no wake-up is lost,  *)
(* a cancellation reaches only who asked for it, and completions arrive    *)
(* once and in order.  Last, the driver implements OpService.              *)
(***************************************************************************)
EXTENDS Driver, SequenceTheorems, FiniteSetTheorems, TLAPS

USE DriverAssumption

\* The initial state is well-formed.
LEMMA TypeInit == Init => TypeOK
<1> SUFFICES ASSUME Init PROVE TypeOK
  OBVIOUS
<1>1. NoSQE \in SQE /\ CancelUD \in Nat
  BY DEF NoSQE, SQE, CancelUD
<1>2. Vacant \in LifecycleType
  BY DEF LifecycleType
<1>3. <<>> \in Seq(SQE) /\ <<>> \in Seq(CQE) /\ Len(<<>>) = 0
  BY EmptySeq
<1> QED BY <1>1, <1>2, <1>3
       DEF Init, TypeOK, SlabType, FutureType, RingType, ControlType, CancelUD

\* Every lifecycle a step can store is one.
LEMMA LifecycleTypes ==
  /\ Vacant \in LifecycleType /\ Submitted \in LifecycleType
  /\ \A w \in Wakers : Waiting(w) \in LifecycleType
  /\ \A d \in Ops \cup {None} : Ignored(d) \in LifecycleType
  /\ \A c \in CQE : Completed(c) \in LifecycleType
  /\ \A s \in Seq(CQE) : s # <<>> => CompletionList(s) \in LifecycleType
<1>1. \A c \in CQE : <<c>> \in Seq(CQE) \ {<<>>}
  OBVIOUS
<1> QED BY <1>1 DEF LifecycleType, Vacant, Submitted, Waiting, Ignored, Completed, CompletionList

\* The fields of a lifecycle.
LEMMA LifecycleFields ==
  ASSUME NEW l \in LifecycleType
  PROVE  /\ l.st \in {"Vacant", "Submitted", "Waiting", "Ignored", "Completed", "CompletionList"}
         /\ l.st = "Vacant" <=> l = Vacant
         /\ l.st = "Waiting" => l.waker \in Wakers
         /\ l.st = "Ignored" => l = Ignored(l.data) /\ l.data \in Ops \cup {None}
         /\ l.cqes \in Seq(CQE)
         /\ l.st \in {"Completed", "CompletionList"} => l.cqes # <<>>
<1>1. <<>> \in Seq(CQE)
  BY EmptySeq
<1>2. CASE l = Vacant
  BY <1>1, <1>2 DEF Vacant
<1>3. CASE l = Submitted
  BY <1>1, <1>3 DEF Submitted, Vacant
<1>4. CASE l \in [st : {"Waiting"}, waker : Wakers, cqes : {<<>>}, data : {None}]
  <2>1. l.st = "Waiting" /\ l.waker \in Wakers /\ l.cqes = <<>>
    BY <1>4
  <2>2. Vacant.st = "Vacant"
    BY DEF Vacant
  <2> QED BY <1>1, <2>1, <2>2
<1>5. CASE l \in [st : {"Ignored"}, waker : {None}, cqes : {<<>>}, data : Ops \cup {None}]
  <2>1. l.st = "Ignored" /\ l.data \in Ops \cup {None} /\ l.cqes = <<>>
    BY <1>5
  <2>2. Vacant.st = "Vacant"
    BY DEF Vacant
  <2>3. l = Ignored(l.data)
    BY <1>5 DEF Ignored
  <2> QED BY <1>1, <2>1, <2>2, <2>3
<1>6. CASE l \in [st : {"Completed", "CompletionList"}, waker : {None},
                  cqes : Seq(CQE) \ {<<>>}, data : {None}]
  BY <1>1, <1>6 DEF Vacant
<1> QED BY <1>2, <1>3, <1>4, <1>5, <1>6 DEF LifecycleType

\* Consuming the oldest SQE keeps the rings well-formed.
LEMMA TakeType ==
  ASSUME RingType, Take
  PROVE  /\ sq' \in Seq(SQE) /\ Len(sq') <= SQCap
         /\ inflight' \subseteq Ops /\ cancelled' \subseteq Ops
         /\ cq' \in Seq(CQE)
         /\ ring' \in 0..CQCap /\ ring' <= Len(cq') /\ ring <= ring'
<1>1. /\ Head(sq) \in SQE /\ sq' \in Seq(SQE) /\ Len(sq') = Len(sq) - 1
      /\ Len(sq) \in Nat /\ Len(sq) <= SQCap /\ Len(sq') \in Nat
  BY HeadTailProperties DEF Take, RingType
<1>2. inflight' \subseteq Ops /\ cancelled' \subseteq Ops
  BY <1>1 DEF Take, RingType, SQE
<1>3. cq' \in Seq(CQE) /\ Len(cq') \in Nat /\ Len(cq) <= Len(cq')
  <2> DEFINE c == [op |-> None, ud |-> CancelUD, more |-> FALSE, n |-> 0]
  <2>1. c \in CQE /\ cq \in Seq(CQE) /\ Len(cq) \in Nat
    BY DEF CQE, CancelUD, RingType
  <2>2. Append(cq, c) \in Seq(CQE) /\ Len(Append(cq, c)) = Len(cq) + 1
    BY <2>1, AppendProperties
  <2> QED BY <2>1, <2>2 DEF Take
<1>4. ring' = (IF CQCap <= Len(cq') THEN CQCap ELSE Len(cq'))
  BY DEF Take, Visible, Least
<1> QED BY <1>1, <1>2, <1>3, <1>4 DEF RingType

\* Posting a completion keeps the completion queue well-formed.
LEMMA PostType ==
  ASSUME RingType, NEW c \in CQE, Post(c)
  PROVE  /\ cq' \in Seq(CQE)
         /\ ring' \in 0..CQCap /\ ring' <= Len(cq')
         /\ batch \in 0..ring'
         /\ ring' + taken <= CQCap
<1>1. cq' \in Seq(CQE) /\ Len(cq') = Len(cq) + 1 /\ Len(cq) \in Nat
  BY AppendProperties DEF Post, RingType
<1> QED BY <1>1 DEF Post, RingType

\* The completion that is dispatched next.
LEMMA HeadCQE ==
  ASSUME RingType, batch > 0
  PROVE  Head(cq) \in CQE
<1>1. cq # <<>> /\ cq \in Seq(CQE)
  BY EmptySeq DEF RingType
<1> QED BY <1>1, HeadTailProperties

\* A piece of a sequence of completions is one.
LEMMA SubSeqType ==
  ASSUME NEW s \in Seq(CQE), NEW k \in 1..Len(s)
  PROVE  /\ SubSeq(s, k + 1, Len(s)) \in Seq(CQE)
         /\ Len(SubSeq(s, k + 1, Len(s))) = Len(s) - k
         /\ \A j \in 1..(Len(s) - k) : SubSeq(s, k + 1, Len(s))[j] = s[k + j]
<1>1. Len(s) \in Nat /\ k \in Nat
  OBVIOUS
<1> QED BY <1>1, SubSeqProperties

\* Lifecycle::complete stores a lifecycle.
LEMMA CompleteType ==
  ASSUME SlabType, FutureType, NEW i, NEW c \in CQE, Complete(i, c)
  PROVE  life' \in [Slots -> LifecycleType] /\ notified' \in [Ops -> BOOLEAN]
<1>1. notified' \in [Ops -> BOOLEAN]
  <2>1. \A w : Wake(w) => notified' \in [Ops -> BOOLEAN]
    BY DEF Wake
  <2> QED BY <2>1 DEF FutureType, Complete
<1>2. CASE i \in Slots
  <2>1. <<c>> \in Seq(CQE) /\ <<c>> # <<>>
    OBVIOUS
  <2>2. life[i].cqes \in Seq(CQE)
    BY <1>2, LifecycleFields DEF SlabType
  <2>3. Append(life[i].cqes, c) \in Seq(CQE) /\ Append(life[i].cqes, c) # <<>>
    BY <2>2, AppendProperties
  <2>4. PICK l \in LifecycleType : life' = [life EXCEPT ![i] = l]
    BY <1>2, <2>1, <2>3, LifecycleTypes DEF Complete, SlabType
  <2> QED BY <1>1, <2>4 DEF SlabType
<1>3. CASE i \notin Slots
  <2>1. PICK l : life' = [life EXCEPT ![i] = l]
    BY DEF Complete
  <2> QED BY <1>1, <1>3, <2>1 DEF SlabType
<1> QED BY <1>2, <1>3

\* The last element of a nonempty sequence is one of its elements.
LEMMA LastType ==
  ASSUME NEW s \in Seq(CQE), s # <<>>
  PROVE  Last(s) \in CQE /\ Len(s) \in Nat \ {0}
<1>1. Len(s) \in Nat /\ Len(s) # 0
  BY EmptySeq
<1> QED BY <1>1 DEF Last

\* remove_op stores a lifecycle.
LEMMA RemovedType ==
  \A l \in LifecycleType, o \in Ops : Removed(l, o) \in LifecycleType
  BY LifecycleTypes DEF Removed

\* So does the marking pass of Drop for Driver.
LEMMA MarkedType == \A l \in LifecycleType : Marked(l) \in LifecycleType
<1> SUFFICES ASSUME NEW l \in LifecycleType PROVE Marked(l) \in LifecycleType
  OBVIOUS
<1>1. CASE l.st = "CompletionList"
  <2>1. Last(l.cqes) \in CQE
    BY <1>1, LifecycleFields, LastType
  <2> QED BY <1>1, <2>1, LifecycleTypes DEF Marked
<1>2. CASE l.st # "CompletionList"
  BY <1>2, LifecycleTypes DEF Marked
<1> QED BY <1>1, <1>2

\* A finished future leaves the state well-formed.
LEMMA FinishType ==
  ASSUME SlabType, FutureType, RingType, ControlType,
         NEW o \in Ops, NEW n \in Nat, Finish(o, n)
  PROVE  TypeOK'
<1>1. SlabType'
  BY LifecycleTypes DEF SlabType, Finish
<1>2. FutureType'
  BY DEF FutureType, Finish
<1>3. RingType' /\ ControlType'
  BY DEF RingType, ControlType, Finish, rings, control
<1> QED BY <1>1, <1>2, <1>3 DEF TypeOK

\* Every step keeps the state well-formed.
LEMMA TypeNext == TypeOK /\ [Next]_vars => TypeOK'
<1> SUFFICES ASSUME SlabType, FutureType, RingType, ControlType, [Next]_vars PROVE TypeOK'
  BY DEF TypeOK
<1> USE DEF futures, rings, control
<1>u. NoSQE \in SQE /\ CQCap \in Nat \ {0} /\ NSlots \in Nat /\ Len(sq) \in Nat /\ Len(cq) \in Nat
  BY DEF NoSQE, SQE, CancelUD, RingType
<1>1. CASE Push
  <2>1. SlabType'
    BY <1>1, <1>u DEF Push, SlabType
  <2>2. FutureType'
    BY <1>1, <1>u DEF Push, FutureType
  <2>3. RingType'
    <3>1. sq' = Append(sq, pend) /\ pend \in SQE /\ sq \in Seq(SQE) /\ Len(sq) \in Nat
      BY <1>1 DEF Push, RingType, ControlType
    <3>2. sq' \in Seq(SQE) /\ Len(sq') = Len(sq) + 1
      BY <3>1, AppendProperties
    <3> QED BY <1>1, <3>1, <3>2 DEF Push, RingType
  <2>4. ControlType'
    BY <1>1, <1>u DEF Push, ControlType
  <2> QED BY <2>1, <2>2, <2>3, <2>4 DEF TypeOK
<1>2. CASE PushFull
  <2>1. SlabType'
    BY <1>2, <1>u DEF PushFull, SlabType
  <2>2. FutureType'
    BY <1>2, <1>u DEF PushFull, FutureType
  <2>3. RingType'
    BY <1>2, <1>u DEF PushFull, RingType
  <2>4. ControlType'
    BY <1>2, <1>u DEF PushFull, ControlType
  <2> QED BY <2>1, <2>2, <2>3, <2>4 DEF TypeOK
<1>3. CASE SubmitEnter
  <2>1. SlabType'
    BY <1>3, <1>u DEF SubmitEnter, SlabType
  <2>2. FutureType'
    BY <1>3, <1>u DEF SubmitEnter, FutureType
  <2>3. RingType'
    BY <1>3, TakeType DEF SubmitEnter, RingType
  <2>4. ControlType'
    BY <1>3, <1>u DEF SubmitEnter, ControlType
  <2> QED BY <2>1, <2>2, <2>3, <2>4 DEF TypeOK
<1>4. CASE SubmitBusy
  <2>1. SlabType'
    BY <1>4, <1>u DEF SubmitBusy, SlabType
  <2>2. FutureType'
    BY <1>4, <1>u DEF SubmitBusy, FutureType
  <2>3. RingType'
    BY <1>4, <1>u DEF SubmitBusy, RingType
  <2>4. ControlType'
    BY <1>4, <1>u DEF SubmitBusy, ControlType
  <2> QED BY <2>1, <2>2, <2>3, <2>4 DEF TypeOK
<1>5. CASE SubmitErr
  <2>1. SlabType'
    BY <1>5, <1>u DEF SubmitErr, SlabType
  <2>2. FutureType'
    BY <1>5, <1>u DEF SubmitErr, FutureType
  <2>3. RingType'
    BY <1>5, <1>u DEF SubmitErr, RingType
  <2>4. ControlType'
    BY <1>5, <1>u DEF SubmitErr, ControlType
  <2> QED BY <2>1, <2>2, <2>3, <2>4 DEF TypeOK
<1>6. CASE EnteredTake
  <2>1. SlabType'
    BY <1>6, <1>u DEF EnteredTake, SlabType
  <2>2. FutureType'
    BY <1>6, <1>u DEF EnteredTake, FutureType
  <2>3. RingType'
    BY <1>6, TakeType DEF EnteredTake, RingType
  <2>4. ControlType'
    BY <1>6, <1>u DEF EnteredTake, ControlType
  <2> QED BY <2>1, <2>2, <2>3, <2>4 DEF TypeOK
<1>7. CASE EnteredReturn
  <2>1. SlabType'
    BY <1>7, <1>u DEF EnteredReturn, SlabType
  <2>2. FutureType'
    BY <1>7, <1>u DEF EnteredReturn, FutureType
  <2>3. RingType'
    BY <1>7, <1>u DEF EnteredReturn, RingType
  <2>4. ControlType'
    BY <1>7, <1>u DEF EnteredReturn, ControlType
  <2> QED BY <2>1, <2>2, <2>3, <2>4 DEF TypeOK
<1>8. CASE DispatchOne
  <2>1. SlabType'
    BY <1>8, HeadCQE, CompleteType DEF DispatchOne, SlabType
  <2>2. FutureType'
    <3>1. notified' \in [Ops -> BOOLEAN]
      BY <1>8, HeadCQE, CompleteType DEF DispatchOne, FutureType
    <3> QED BY <1>8, <3>1 DEF DispatchOne, FutureType
  <2>3. RingType'
    <3>1. cq # <<>> /\ cq \in Seq(CQE) /\ Len(cq) \in Nat
      BY <1>8, EmptySeq DEF DispatchOne, RingType
    <3>2. cq' \in Seq(CQE) /\ Len(cq') = Len(cq) - 1
      BY <1>8, <3>1, HeadTailProperties DEF DispatchOne
    <3>3. /\ pc = "dispatch" /\ pc' = pc /\ batch > 0
          /\ ring' = ring - 1 /\ batch' = batch - 1 /\ taken' = taken + 1
          /\ UNCHANGED <<sq, inflight, cancelled>>
      BY <1>8 DEF DispatchOne
    <3> QED BY <3>1, <3>2, <3>3 DEF RingType
  <2>4. ControlType'
    BY <1>8, <1>u DEF DispatchOne, ControlType
  <2> QED BY <2>1, <2>2, <2>3, <2>4 DEF TypeOK
<1>9. CASE DispatchEnd
  <2>1. SlabType'
    BY <1>9, <1>u DEF DispatchEnd, SlabType
  <2>2. FutureType'
    BY <1>9, <1>u DEF DispatchEnd, FutureType
  <2>3. RingType'
    BY <1>9, <1>u DEF DispatchEnd, RingType
  <2>4. ControlType'
    BY <1>9, <1>u DEF DispatchEnd, ControlType
  <2> QED BY <2>1, <2>2, <2>3, <2>4 DEF TypeOK
<1>10. CASE Park
  <2>1. SlabType'
    BY <1>10, <1>u DEF Park, SlabType
  <2>2. FutureType'
    BY <1>10, <1>u DEF Park, FutureType
  <2>3. RingType'
    BY <1>10, TakeType DEF Park, RingType
  <2>4. ControlType'
    BY <1>10, <1>u DEF Park, ControlType
  <2> QED BY <2>1, <2>2, <2>3, <2>4 DEF TypeOK
<1>11. CASE ParkFlushesOnly
  <2>1. SlabType'
    BY <1>11, <1>u DEF ParkFlushesOnly, SlabType
  <2>2. FutureType'
    BY <1>11, <1>u DEF ParkFlushesOnly, FutureType
  <2>3. RingType'
    BY <1>11, <1>u DEF ParkFlushesOnly, RingType, Visible, Least
  <2>4. ControlType'
    BY <1>11, <1>u DEF ParkFlushesOnly, ControlType
  <2> QED BY <2>1, <2>2, <2>3, <2>4 DEF TypeOK
<1>12. CASE Dispatch
  <2>1. SlabType'
    BY <1>12, <1>u DEF Dispatch, SlabType
  <2>2. FutureType'
    BY <1>12, <1>u DEF Dispatch, FutureType
  <2>3. RingType'
    BY <1>12, <1>u DEF Dispatch, RingType
  <2>4. ControlType'
    BY <1>12, <1>u DEF Dispatch, ControlType
  <2> QED BY <2>1, <2>2, <2>3, <2>4 DEF TypeOK
<1>13. CASE DropDriver
  <2>1. SlabType'
    BY <1>13, <1>u DEF DropDriver, SlabType
  <2>2. FutureType'
    BY <1>13, <1>u DEF DropDriver, FutureType
  <2>3. RingType'
    BY <1>13, <1>u DEF DropDriver, RingType
  <2>4. ControlType'
    BY <1>13, <1>u DEF DropDriver, ControlType
  <2> QED BY <2>1, <2>2, <2>3, <2>4 DEF TypeOK
<1>14. CASE FlushSome
  <2>1. SlabType'
    BY <1>14, <1>u DEF FlushSome, SlabType
  <2>2. FutureType'
    BY <1>14, <1>u DEF FlushSome, FutureType
  <2>3. RingType'
    BY <1>14, <1>u DEF FlushSome, RingType
  <2>4. ControlType'
    BY <1>14, <1>u DEF FlushSome, ControlType
  <2> QED BY <2>1, <2>2, <2>3, <2>4 DEF TypeOK
<1>15. CASE FlushDone
  <2>1. SlabType'
    BY <1>15, <1>u DEF FlushDone, SlabType
  <2>2. FutureType'
    BY <1>15, <1>u DEF FlushDone, FutureType
  <2>3. RingType'
    BY <1>15, <1>u DEF FlushDone, RingType
  <2>4. ControlType'
    BY <1>15, <1>u DEF FlushDone, ControlType
  <2> QED BY <2>1, <2>2, <2>3, <2>4 DEF TypeOK
<1>16. CASE Mark
  <2>1. SlabType'
    BY <1>16, MarkedType DEF Mark, SlabType
  <2>2. FutureType'
    BY <1>16, <1>u DEF Mark, FutureType
  <2>3. RingType'
    BY <1>16, <1>u DEF Mark, RingType
  <2>4. ControlType'
    BY <1>16, <1>u DEF Mark, ControlType
  <2> QED BY <2>1, <2>2, <2>3, <2>4 DEF TypeOK
<1>17. CASE CancelSkip
  <2>1. SlabType'
    BY <1>17, <1>u DEF CancelSkip, SlabType
  <2>2. FutureType'
    BY <1>17, <1>u DEF CancelSkip, FutureType
  <2>3. RingType'
    BY <1>17, <1>u DEF CancelSkip, RingType
  <2>4. ControlType'
    BY <1>17, <1>u DEF CancelSkip, ControlType, Slots
  <2> QED BY <2>1, <2>2, <2>3, <2>4 DEF TypeOK
<1>18. CASE CancelPush
  <2>1. SlabType'
    BY <1>18, <1>u DEF CancelPush, SlabType
  <2>2. FutureType'
    BY <1>18, <1>u DEF CancelPush, FutureType
  <2>3. RingType'
    <3> DEFINE e == [op |-> None, cancel |-> TRUE, ud |-> cur]
    <3>1. e \in SQE /\ sq' = Append(sq, e) /\ sq \in Seq(SQE) /\ Len(sq) \in Nat
      BY <1>18 DEF CancelPush, RingType, ControlType, SQE
    <3> HIDE DEF e
    <3>2. sq' \in Seq(SQE) /\ Len(sq') = Len(sq) + 1
      BY <3>1, AppendProperties
    <3> QED BY <1>18, <3>1, <3>2 DEF CancelPush, RingType
  <2>4. ControlType'
    BY <1>18, <1>u DEF CancelPush, ControlType, Slots
  <2> QED BY <2>1, <2>2, <2>3, <2>4 DEF TypeOK
<1>19. CASE CancelFull
  <2>1. SlabType'
    BY <1>19, <1>u DEF CancelFull, SlabType
  <2>2. FutureType'
    BY <1>19, <1>u DEF CancelFull, FutureType
  <2>3. RingType'
    BY <1>19, TakeType DEF CancelFull, RingType
  <2>4. ControlType'
    BY <1>19, <1>u DEF CancelFull, ControlType
  <2> QED BY <2>1, <2>2, <2>3, <2>4 DEF TypeOK
<1>20. CASE CancelFails
  <2>1. SlabType'
    BY <1>20, <1>u DEF CancelFails, SlabType
  <2>2. FutureType'
    BY <1>20, <1>u DEF CancelFails, FutureType
  <2>3. RingType'
    BY <1>20, <1>u DEF CancelFails, RingType
  <2>4. ControlType'
    BY <1>20, <1>u DEF CancelFails, ControlType
  <2> QED BY <2>1, <2>2, <2>3, <2>4 DEF TypeOK
<1>21. CASE CancelDone
  <2>1. SlabType'
    BY <1>21, <1>u DEF CancelDone, SlabType
  <2>2. FutureType'
    BY <1>21, <1>u DEF CancelDone, FutureType
  <2>3. RingType'
    BY <1>21, <1>u DEF CancelDone, RingType
  <2>4. ControlType'
    BY <1>21, <1>u DEF CancelDone, ControlType
  <2> QED BY <2>1, <2>2, <2>3, <2>4 DEF TypeOK
<1>22. CASE ReapWait
  <2>1. SlabType'
    BY <1>22, <1>u DEF ReapWait, SlabType
  <2>2. FutureType'
    BY <1>22, <1>u DEF ReapWait, FutureType
  <2>3. RingType'
    <3>1. CASE Take
      BY <1>22, <3>1, TakeType DEF ReapWait, RingType
    <3>2. CASE ~Take
      BY <1>22, <3>2, <1>u DEF ReapWait, RingType, Visible, Least
    <3> QED BY <3>1, <3>2
  <2>4. ControlType'
    BY <1>22, <1>u DEF ReapWait, ControlType
  <2> QED BY <2>1, <2>2, <2>3, <2>4 DEF TypeOK
<1>23. CASE ReapWaitFails
  <2>1. SlabType'
    BY <1>23, <1>u DEF ReapWaitFails, SlabType
  <2>2. FutureType'
    BY <1>23, <1>u DEF ReapWaitFails, FutureType
  <2>3. RingType'
    BY <1>23, <1>u DEF ReapWaitFails, RingType
  <2>4. ControlType'
    BY <1>23, <1>u DEF ReapWaitFails, ControlType
  <2> QED BY <2>1, <2>2, <2>3, <2>4 DEF TypeOK
<1>24. CASE ReapWaitErr
  <2>1. SlabType'
    BY <1>24, <1>u DEF ReapWaitErr, SlabType
  <2>2. FutureType'
    BY <1>24, <1>u DEF ReapWaitErr, FutureType
  <2>3. RingType'
    BY <1>24, <1>u DEF ReapWaitErr, RingType
  <2>4. ControlType'
    BY <1>24, <1>u DEF ReapWaitErr, ControlType
  <2> QED BY <2>1, <2>2, <2>3, <2>4 DEF TypeOK
<1>25. CASE ReapRemove
  <2>1. SlabType'
    BY <1>25, LifecycleTypes DEF ReapRemove, SlabType
  <2>2. FutureType'
    BY <1>25, <1>u DEF ReapRemove, FutureType
  <2>3. RingType'
    BY <1>25, <1>u DEF ReapRemove, RingType
  <2>4. ControlType'
    BY <1>25, <1>u DEF ReapRemove, ControlType, Slots
  <2> QED BY <2>1, <2>2, <2>3, <2>4 DEF TypeOK
<1>26. CASE ReapNext
  <2>1. SlabType'
    BY <1>26, <1>u DEF ReapNext, SlabType
  <2>2. FutureType'
    BY <1>26, <1>u DEF ReapNext, FutureType
  <2>3. RingType'
    BY <1>26, <1>u DEF ReapNext, RingType
  <2>4. ControlType'
    BY <1>26, <1>u DEF ReapNext, ControlType, Slots
  <2> QED BY <2>1, <2>2, <2>3, <2>4 DEF TypeOK
<1>27. CASE ReapDone
  <2>1. SlabType'
    BY <1>27, <1>u DEF ReapDone, SlabType
  <2>2. FutureType'
    BY <1>27, <1>u DEF ReapDone, FutureType
  <2>3. RingType'
    BY <1>27, <1>u DEF ReapDone, RingType
  <2>4. ControlType'
    BY <1>27, <1>u DEF ReapDone, ControlType
  <2> QED BY <2>1, <2>2, <2>3, <2>4 DEF TypeOK
<1>28. ASSUME NEW o \in Ops, KMore(o) PROVE TypeOK'
  <2>1. SlabType'
    BY <1>28, <1>u DEF KMore, SlabType
  <2>2. FutureType'
    BY <1>28 DEF KMore, FutureType
  <2>3. RingType'
    <3> DEFINE c == [op |-> o, ud |-> idx[o], more |-> TRUE, n |-> posted[o] + 1]
    <3>1. c \in CQE
      BY DEF FutureType, CQE
    <3>2. Post(c) /\ UNCHANGED <<sq, control>>
      BY <1>28 DEF KMore
    <3> HIDE DEF c
    <3>3. inflight' \subseteq Ops /\ cancelled' \subseteq Ops
      BY <1>28 DEF KMore, RingType
    <3> QED BY <3>1, <3>2, <3>3, PostType DEF RingType
  <2>4. ControlType'
    BY <1>28, <1>u DEF KMore, ControlType
  <2> QED BY <2>1, <2>2, <2>3, <2>4 DEF TypeOK
<1>29. ASSUME NEW o \in Ops, KFinal(o) PROVE TypeOK'
  <2>1. SlabType'
    BY <1>29, <1>u DEF KFinal, SlabType
  <2>2. FutureType'
    BY <1>29, <1>u DEF KFinal, FutureType
  <2>3. RingType'
    <3> DEFINE c == [op |-> o, ud |-> idx[o], more |-> FALSE, n |-> posted[o] + 1]
    <3>1. c \in CQE
      BY DEF FutureType, CQE
    <3>2. Post(c) /\ UNCHANGED <<sq, control>>
      BY <1>29 DEF KFinal
    <3> HIDE DEF c
    <3>3. inflight' \subseteq Ops /\ cancelled' \subseteq Ops
      BY <1>29 DEF KFinal, RingType
    <3> QED BY <3>1, <3>2, <3>3, PostType DEF RingType
  <2>4. ControlType'
    BY <1>29, <1>u DEF KFinal, ControlType
  <2> QED BY <2>1, <2>2, <2>3, <2>4 DEF TypeOK
<1>30. ASSUME NEW o \in Ops, Cancel(o) PROVE TypeOK'
  <2>1. SlabType'
    BY <1>30, <1>u DEF Cancel, SlabType
  <2>2. FutureType'
    BY <1>30, <1>u DEF Cancel, FutureType
  <2>3. RingType'
    BY <1>30, <1>u DEF Cancel, RingType
  <2>4. ControlType'
    BY <1>30 DEF Cancel, ControlType, FutureType, SQE
  <2> QED BY <2>1, <2>2, <2>3, <2>4 DEF TypeOK
<1>31. ASSUME NEW o \in Ops, PollCompleted(o) PROVE TypeOK'
  BY <1>31, FinishType DEF PollCompleted, CanPoll
<1>32. ASSUME NEW o \in Ops, PollFinal(o) PROVE TypeOK'
  <2>1. PICK k \in 1..Len(life[idx[o]].cqes) : Finish(o, k)
    BY <1>32 DEF PollFinal
  <2> QED BY <1>32, <2>1, FinishType DEF PollFinal, CanPoll
<1>33. ASSUME NEW o \in Ops, Drop(o) PROVE TypeOK'
  <2>1. SlabType'
    BY <1>33, RemovedType DEF Drop, SlabType
  <2>2. FutureType'
    BY <1>33, <1>u DEF Drop, FutureType
  <2>3. RingType'
    BY <1>33, <1>u DEF Drop, RingType
  <2>4. ControlType'
    BY <1>33, <1>u DEF Drop, ControlType
  <2> QED BY <2>1, <2>2, <2>3, <2>4 DEF TypeOK
<1>34. ASSUME NEW o \in Ops, LateDrop(o) PROVE TypeOK'
  <2>1. SlabType'
    BY <1>34, <1>u DEF LateDrop, SlabType
  <2>2. FutureType'
    BY <1>34, <1>u DEF LateDrop, FutureType
  <2>3. RingType'
    BY <1>34, <1>u DEF LateDrop, RingType
  <2>4. ControlType'
    BY <1>34, <1>u DEF LateDrop, ControlType
  <2> QED BY <2>1, <2>2, <2>3, <2>4 DEF TypeOK
<1>35. ASSUME NEW o \in Ops, NEW i \in Slots, Submit(o, i) PROVE TypeOK'
  <2>1. SlabType'
    BY <1>35, LifecycleTypes DEF Submit, SlabType
  <2>2. FutureType'
    BY <1>35 DEF Submit, FutureType, Slots
  <2>3. RingType'
    BY <1>35, <1>u DEF Submit, RingType
  <2>4. ControlType'
    BY <1>35 DEF Submit, ControlType, SQE, Slots
  <2> QED BY <2>1, <2>2, <2>3, <2>4 DEF TypeOK
<1>36. ASSUME NEW o \in Ops, NEW w \in Wakers, PollPending(o, w) PROVE TypeOK'
  <2>1. SlabType'
    BY <1>36, LifecycleTypes DEF PollPending, SlabType
  <2>2. FutureType'
    BY <1>36, <1>u DEF PollPending, FutureType
  <2>3. RingType'
    BY <1>36, <1>u DEF PollPending, RingType
  <2>4. ControlType'
    BY <1>36, <1>u DEF PollPending, ControlType
  <2> QED BY <2>1, <2>2, <2>3, <2>4 DEF TypeOK
<1>37. ASSUME NEW o \in Ops, NEW w \in Wakers, PollDrained(o, w) PROVE TypeOK'
  <2>1. SlabType'
    BY <1>37, LifecycleTypes DEF PollDrained, SlabType
  <2>2. FutureType'
    <3>1. Len(life[idx[o]].cqes) \in Nat
      BY <1>37, LifecycleFields DEF PollDrained, CanPoll, FutureType, SlabType
    <3> QED BY <1>37, <3>1 DEF PollDrained, FutureType
  <2>3. RingType'
    BY <1>37, <1>u DEF PollDrained, RingType
  <2>4. ControlType'
    BY <1>37, <1>u DEF PollDrained, ControlType
  <2> QED BY <2>1, <2>2, <2>3, <2>4 DEF TypeOK
<1>38. ASSUME NEW o \in Ops, NEW w \in Wakers, NEW k \in 1..(MaxMore + 1), PollYield(o, w, k) PROVE TypeOK'
  <2>1. SlabType'
    <3> DEFINE s == life[idx[o]].cqes
               r == SubSeq(s, k + 1, Len(s))
               l == IF r # <<>> THEN CompletionList(r) ELSE Waiting(w)
    <3>1. s \in Seq(CQE) /\ k \in 1..Len(s)
      BY <1>38, LifecycleFields DEF PollYield, CanPoll, FutureType, SlabType, Consumes
    <3>2. r \in Seq(CQE)
      BY <3>1, SubSeqType
    <3>3. l \in LifecycleType
      BY <3>2, LifecycleTypes
    <3>4. life' = [life EXCEPT ![idx[o]] = l] /\ owner' = owner
      BY <1>38 DEF PollYield
    <3> HIDE DEF l
    <3> QED BY <3>3, <3>4 DEF SlabType
  <2>2. FutureType'
    BY <1>38, <1>u DEF PollYield, FutureType
  <2>3. RingType'
    BY <1>38, <1>u DEF PollYield, RingType
  <2>4. ControlType'
    BY <1>38, <1>u DEF PollYield, ControlType
  <2> QED BY <2>1, <2>2, <2>3, <2>4 DEF TypeOK
<1>39. CASE UNCHANGED vars
  BY <1>39 DEF TypeOK, SlabType, FutureType, RingType, ControlType, vars
<1> QED
  BY <1>1, <1>2, <1>3, <1>4, <1>5, <1>6, <1>7, <1>8, <1>9, <1>10, <1>11, <1>12, <1>13, <1>14, <1>15, <1>16, <1>17, <1>18, <1>19, <1>20, <1>21, <1>22, <1>23, <1>24, <1>25, <1>26, <1>27, <1>28, <1>29, <1>30, <1>31, <1>32, <1>33, <1>34, <1>35, <1>36, <1>37, <1>38, <1>39
     DEF Next, Kernel, InCall, Poll, Shutdown, Stopped

\* The state of the driver is well-formed in every execution; in particular the
\* rings never exceed their capacity.
THEOREM DriverTypeCorrect == Spec => []TypeOK
<1>1. Init => TypeOK
  BY TypeInit
<1>2. TypeOK /\ [Next]_vars => TypeOK'
  BY TypeNext
<1> QED BY <1>1, <1>2, PTL DEF Spec

-----------------------------------------------------------------------------
(* The steps of the driver fall into five classes, with a lemma for each:  *)
(* those that only move the thread (QuietStep), those in which the kernel  *)
(* consumes an SQE (TakeStep) or posts a completion (PostStep), those in   *)
(* which a future changes its own entry (SlotStep), and the others.        *)

\* What a step that leaves the entry of o alone must respect for o to stay live.
LEMMA LiveFrame ==
  ASSUME NEW o \in Ops, Live(o),
         idx'[o] = idx[o], owner'[idx[o]] = owner[idx[o]], life'[idx[o]] = life[idx[o]],
         AfterMark => AfterMark',
         held'[o] = held[o] \/ AfterMark'
  PROVE  Live(o)'
  BY DEF Live, Expecting

\* A step that moves the thread, or lets go of a future whose operation needs
\* no data any more.
LEMMA QuietStep ==
  ASSUME IInv, TypeOK', PhaseInv',
         UNCHANGED <<life, owner, idx, sq, inflight, cq>>,
         AfterMark => AfterMark',
         \A o \in Ops : Pending(o)' => Pending(o),
         \A o \in Ops : \/ fut'[o] = fut[o] /\ held'[o] = held[o]
                        \/ /\ fut'[o] = "gone" /\ ~held'[o]
                           /\ ~Pending(o)'
                           /\ held'[o] = held[o] \/ AfterMark' \/ ~Outstanding(o)'
  PROVE  IInv'
<1>0. \A o \in Ops : (Queued(o)' <=> Queued(o)) /\ (Answered(o)' <=> Answered(o))
  BY DEF Queued, Answered
<1>1. RouteInv'
  <2> SUFFICES ASSUME NEW o \in Ops, Outstanding(o)' PROVE Live(o)'
    BY DEF RouteInv
  <2>1. Outstanding(o)
    BY <1>0 DEF Outstanding
  <2>2. Live(o)
    BY <2>1 DEF IInv, RouteInv
  <2>3. held'[o] = held[o] \/ AfterMark'
    OBVIOUS
  <2> QED BY <2>2, <2>3, LiveFrame
<1>2. PendOnce'
  BY <1>0 DEF IInv, PendOnce
<1>3. QueuedOnce'
  BY <1>0 DEF IInv, QueuedOnce
<1>4. FinalOnce'
  BY DEF IInv, FinalOnce
<1>5. FutInv'
  BY DEF IInv, FutInv
<1>6. ListInv'
  BY DEF IInv, ListInv
<1> QED BY <1>1, <1>2, <1>3, <1>4, <1>5, <1>6 DEF IInv

\* What the invariant says of the submission ring when its oldest entry goes.
LEMMA TakeFacts ==
  ASSUME RingType, Take
  PROVE  /\ Len(sq) \in Nat \ {0} /\ Len(sq') = Len(sq) - 1
         /\ Head(sq) = sq[1] /\ sq[1] \in SQE
         /\ \A k \in 1..Len(sq') : sq'[k] = sq[k + 1] /\ k + 1 \in 1..Len(sq)
  BY HeadTailProperties, EmptySeq DEF Take, RingType

\* The kernel consumes an SQE.
LEMMA TakeStep ==
  ASSUME IInv, TypeOK', PhaseInv', Take,
         UNCHANGED <<life, owner, idx, held, fut>>,
         AfterMark => AfterMark',
         \A o \in Ops : Pending(o)' => Pending(o)
  PROVE  IInv'
<1>1. /\ Len(sq) \in Nat \ {0} /\ Len(sq') = Len(sq) - 1
      /\ Head(sq) = sq[1] /\ sq[1] \in SQE
      /\ \A k \in 1..Len(sq') : sq'[k] = sq[k + 1] /\ k + 1 \in 1..Len(sq)
  BY TakeFacts DEF IInv, TypeOK
<1>2. \A o \in Ops : Queued(o)' => Queued(o)
  BY <1>1 DEF Queued
<1>3. CASE ~sq[1].cancel
  <2>0. PICK f \in Ops : f = sq[1].op
    BY <1>1, <1>3 DEF SQE
  <2>1. cq' = cq /\ inflight' = inflight \cup {f}
    BY <1>1, <1>3, <2>0 DEF Take
  <2>2. Queued(f)
    <3>1. 1 \in 1..Len(sq)
      BY <1>1
    <3> QED BY <1>3, <2>0, <3>1 DEF Queued
  <2>3. ~Queued(f)'
    <3>1. ASSUME NEW k \in 1..Len(sq'), sq'[k].op = f, ~sq'[k].cancel PROVE FALSE
      <4>1. k + 1 \in 1..Len(sq) /\ sq[k + 1].op = f /\ ~sq[k + 1].cancel
        BY <1>1, <3>1
      <4>2. 1 \in 1..Len(sq) /\ k + 1 # 1
        BY <1>1, <4>1
      <4> QED BY <1>3, <2>0, <4>1, <4>2 DEF IInv, QueuedOnce
    <3> QED BY <3>1 DEF Queued
  <2>4. RouteInv'
    <3> SUFFICES ASSUME NEW o \in Ops, Outstanding(o)' PROVE Live(o)'
      BY DEF RouteInv
    <3>1. Outstanding(o)
      BY <1>2, <2>1, <2>2 DEF Outstanding, Answered
    <3> QED BY <3>1, LiveFrame DEF IInv, RouteInv
  <2>5. PendOnce'
    BY <1>2, <2>1, <2>2 DEF IInv, PendOnce, Answered
  <2>6. QueuedOnce'
    <3>1. \A o \in Ops : Queued(o)' => o \notin inflight' /\ ~Answered(o)'
      <4> SUFFICES ASSUME NEW o \in Ops, Queued(o)' PROVE o \notin inflight' /\ ~Answered(o)'
        OBVIOUS
      <4>1. o \notin inflight /\ ~Answered(o)
        BY <1>2 DEF IInv, QueuedOnce
      <4>2. o # f
        BY <2>3
      <4> QED BY <2>1, <4>1, <4>2 DEF Answered
    <3>2. ASSUME NEW j \in 1..Len(sq'), NEW k \in 1..Len(sq'),
                 ~sq'[j].cancel, ~sq'[k].cancel, sq'[j].op = sq'[k].op
          PROVE  j = k
      <4>1. j + 1 = k + 1
        BY <1>1, <3>2 DEF IInv, QueuedOnce
      <4> QED BY <4>1, <1>1
    <3> QED BY <3>1, <3>2 DEF QueuedOnce
  <2>7. FinalOnce'
    BY <2>1, <2>2 DEF IInv, FinalOnce, QueuedOnce, Answered
  <2>8. FutInv' /\ ListInv'
    BY DEF IInv, FutInv, ListInv
  <2> QED BY <2>4, <2>5, <2>6, <2>7, <2>8 DEF IInv
<1>4. CASE sq[1].cancel
  <2> DEFINE c == [op |-> None, ud |-> CancelUD, more |-> FALSE, n |-> 0]
  <2>1. cq' = Append(cq, c) /\ inflight' = inflight
    BY <1>1, <1>4 DEF Take
  <2>2. c \in CQE /\ c.op = None /\ c.ud = CancelUD
    BY DEF CQE, CancelUD
  <2> HIDE DEF c
  <2>3. /\ Len(cq) \in Nat /\ Len(cq') = Len(cq) + 1
        /\ \A k \in 1..Len(cq) : cq'[k] = cq[k] /\ k \in 1..Len(cq')
        /\ cq'[Len(cq) + 1] = c
    BY <2>1, <2>2, AppendProperties DEF IInv, TypeOK, RingType
  <2>4. \A o \in Ops : Answered(o)' => Answered(o)
    BY <2>2, <2>3 DEF Answered
  <2>5. RouteInv'
    <3> SUFFICES ASSUME NEW o \in Ops, Outstanding(o)' PROVE Live(o)'
      BY DEF RouteInv
    <3>1. Outstanding(o)
      BY <1>2, <2>1, <2>4 DEF Outstanding
    <3> QED BY <3>1, LiveFrame DEF IInv, RouteInv
  <2>6. PendOnce'
    BY <1>2, <2>1, <2>4 DEF IInv, PendOnce
  <2>7. QueuedOnce'
    <3>1. \A o \in Ops : Queued(o)' => o \notin inflight' /\ ~Answered(o)'
      BY <1>2, <2>1, <2>4 DEF IInv, QueuedOnce
    <3>2. ASSUME NEW j \in 1..Len(sq'), NEW k \in 1..Len(sq'),
                 ~sq'[j].cancel, ~sq'[k].cancel, sq'[j].op = sq'[k].op
          PROVE  j = k
      <4>1. j + 1 = k + 1
        BY <1>1, <3>2 DEF IInv, QueuedOnce
      <4> QED BY <4>1, <1>1
    <3> QED BY <3>1, <3>2 DEF QueuedOnce
  <2>8. FinalOnce'
    <3> SUFFICES ASSUME NEW k \in 1..Len(cq')
                 PROVE  /\ cq'[k].ud = IF cq'[k].op = None THEN CancelUD ELSE idx'[cq'[k].op]
                        /\ cq'[k].op \in inflight' => cq'[k].more
                        /\ \A j \in 1..(k - 1) :
                             cq'[j].op = cq'[k].op /\ cq'[k].op # None => cq'[j].more
      BY DEF FinalOnce, CancelUD
    <3>1. CASE k \in 1..Len(cq)
      BY <2>1, <2>3, <3>1 DEF IInv, FinalOnce
    <3>2. CASE k = Len(cq) + 1
      BY <2>1, <2>2, <2>3, <3>2 DEF IInv, TypeOK, RingType
    <3> QED BY <2>3, <3>1, <3>2
  <2>9. FutInv' /\ ListInv'
    BY DEF IInv, FutInv, ListInv
  <2> QED BY <2>5, <2>6, <2>7, <2>8, <2>9 DEF IInv
<1> QED BY <1>3, <1>4

\* The kernel posts a completion of a request it has accepted.
LEMMA PostStep ==
  ASSUME IInv, TypeOK', NEW f \in inflight, NEW c \in CQE,
         c.op = f, c.ud = idx[f], Post(c),
         inflight' \subseteq inflight,
         f \in inflight' => c.more,
         UNCHANGED <<life, owner, idx, held, fut, sq, control>>
  PROVE  IInv'
<1>0. f \in Ops /\ f # None
  BY DEF IInv, TypeOK, RingType
<1>1. /\ Len(cq) \in Nat /\ Len(cq') = Len(cq) + 1
      /\ \A k \in 1..Len(cq) : cq'[k] = cq[k] /\ k \in 1..Len(cq')
      /\ cq'[Len(cq) + 1] = c
  BY AppendProperties DEF Post, IInv, TypeOK, RingType
<1>2. \A o \in Ops : Answered(o)' => Answered(o) \/ o = f
  BY <1>1 DEF Answered
<1>3. /\ \A o \in Ops : Pending(o)' <=> Pending(o)
      /\ \A o \in Ops : Queued(o)' <=> Queued(o)
      /\ AfterMark' <=> AfterMark
  BY DEF Pending, Pushing, Queued, AfterMark, Marking, control
<1>4. RouteInv'
  <2> SUFFICES ASSUME NEW o \in Ops, Outstanding(o)' PROVE Live(o)'
    BY DEF RouteInv
  <2>1. Outstanding(o)
    BY <1>2, <1>3 DEF Outstanding
  <2> QED BY <1>3, <2>1, LiveFrame DEF IInv, RouteInv
<1>5. PendOnce'
  BY <1>2, <1>3 DEF IInv, PendOnce
<1>6. QueuedOnce'
  <2>1. \A o \in Ops : Queued(o)' => o \notin inflight' /\ ~Answered(o)'
    BY <1>2, <1>3 DEF IInv, QueuedOnce
  <2> QED BY <2>1 DEF IInv, QueuedOnce
<1>7. FinalOnce'
  <2> SUFFICES ASSUME NEW k \in 1..Len(cq')
               PROVE  /\ cq'[k].ud = IF cq'[k].op = None THEN CancelUD ELSE idx'[cq'[k].op]
                      /\ cq'[k].op \in inflight' => cq'[k].more
                      /\ \A j \in 1..(k - 1) :
                           cq'[j].op = cq'[k].op /\ cq'[k].op # None => cq'[j].more
    BY DEF FinalOnce, CancelUD
  <2>1. CASE k \in 1..Len(cq)
    BY <1>1, <2>1 DEF IInv, FinalOnce
  <2>2. CASE k = Len(cq) + 1
    <3>1. cq'[k] = c
      BY <1>1, <2>2
    <3>2. \A j \in 1..(k - 1) : cq'[j].op = f => cq'[j].more
      BY <1>1, <2>2 DEF IInv, FinalOnce
    <3> QED BY <1>0, <3>1, <3>2
  <2> QED BY <1>1, <2>1, <2>2
<1>8. FutInv' /\ ListInv'
  BY <1>3 DEF IInv, FutInv, ListInv
<1>9. PhaseInv'
  BY <1>3 DEF IInv, PhaseInv, SlabEmpty, control
<1> QED BY <1>4, <1>5, <1>6, <1>7, <1>8, <1>9 DEF IInv

\* Two operations that find their own entries find different ones.
LEMMA OwnEntries ==
  ASSUME IInv, NEW o \in Ops, held[o], NEW p \in Ops, p # o, Live(p) \/ held[p]
  PROVE  idx[p] # idx[o]
  BY DEF IInv, FutInv, Live

\* A future changes the entry it owns from user code.
LEMMA SlotStep ==
  ASSUME IInv, TypeOK', pc = "run",
         NEW o \in Ops, held[o], fut[o] = "alive",
         NEW l, life' = [life EXCEPT ![idx[o]] = l],
         UNCHANGED <<owner, idx, rings, control>>,
         \A p \in Ops \ {o} : held'[p] = held[p] /\ fut'[p] = fut[p],
         fut'[o] \in {"alive", "gone"},
         held'[o] => fut'[o] = "alive" /\ l.st \notin {"Vacant", "Ignored"},
         Expecting(idx[o]) =>
           \/ l.st \in {"Submitted", "Waiting"} /\ held'[o]
           \/ l.st = "Ignored" /\ l.data = o
           \/ l.st = "CompletionList" /\ Last(l.cqes).more /\ held'[o],
         l.st = "CompletionList" => AllButLastMore(l.cqes)
  PROVE  IInv'
<1> USE DEF rings, control
<1>1. idx[o] \in Slots /\ life'[idx[o]] = l /\ \A i \in Slots \ {idx[o]} : life'[i] = life[i]
  BY DEF IInv, TypeOK, FutureType, SlabType
<1>2. /\ \A p \in Ops : Pending(p)' <=> Pending(p)
      /\ \A p \in Ops : Queued(p)' <=> Queued(p)
      /\ \A p \in Ops : Answered(p)' <=> Answered(p)
      /\ ~AfterMark' /\ ~AfterMark
  BY DEF Pending, Pushing, Queued, Answered, AfterMark, Marking
<1>3. RouteInv'
  <2> SUFFICES ASSUME NEW p \in Ops, Outstanding(p)' PROVE Live(p)'
    BY DEF RouteInv
  <2>1. Live(p)
    BY <1>2 DEF Outstanding, IInv, RouteInv
  <2>2. CASE p = o
    <3>1. Expecting(idx[o]) /\ owner[idx[o]] = o
      BY <2>1, <2>2 DEF Live
    <3>2. CASE l.st \in {"Submitted", "Waiting"} /\ held'[o]
      BY <1>1, <2>2, <3>1, <3>2 DEF Live, Expecting
    <3>3. CASE l.st = "Ignored" /\ l.data = o
      BY <1>1, <2>2, <3>1, <3>3 DEF Live, Expecting
    <3>4. CASE l.st = "CompletionList" /\ Last(l.cqes).more /\ held'[o]
      BY <1>1, <2>2, <3>1, <3>4 DEF Live, Expecting
    <3> QED BY <3>1, <3>2, <3>3, <3>4
  <2>3. CASE p # o
    <3>1. idx[p] # idx[o] /\ idx[p] \in Slots
      BY <2>1, <2>3, OwnEntries DEF Live
    <3> QED BY <1>1, <1>2, <2>1, <2>3, <3>1, LiveFrame
  <2> QED BY <2>2, <2>3
<1>4. PendOnce'
  <2> SUFFICES ASSUME NEW p \in Ops, Pending(p)'
               PROVE  fut'[p] = "submitting" /\ ~Queued(p)' /\ p \notin inflight' /\ ~Answered(p)'
    BY DEF PendOnce
  <2>1. fut[p] = "submitting" /\ ~Queued(p) /\ p \notin inflight /\ ~Answered(p)
    BY <1>2 DEF IInv, PendOnce
  <2> QED BY <1>2, <2>1
<1>5. QueuedOnce' /\ FinalOnce'
  BY <1>2 DEF IInv, QueuedOnce, FinalOnce
<1>6. FutInv'
  <2> SUFFICES ASSUME NEW p \in Ops
               PROVE  /\ fut'[p] = "new" => idx'[p] = CancelUD'
                      /\ held'[p] => /\ fut'[p] \in {"submitting", "alive"}
                                     /\ owner'[idx'[p]] = p
                                     /\ life'[idx'[p]].st \notin {"Vacant", "Ignored"}
    BY DEF FutInv
  <2>1. CASE p = o
    BY <1>1, <2>1 DEF IInv, FutInv
  <2>2. CASE p # o
    <3>1. held[p] => idx[p] # idx[o] /\ idx[p] \in Slots
      BY <2>2, OwnEntries DEF IInv, TypeOK, FutureType
    <3> QED BY <1>1, <1>2, <2>2, <3>1 DEF IInv, FutInv, CancelUD
  <2> QED BY <2>1, <2>2
<1>7. ListInv'
  BY <1>1 DEF IInv, ListInv
<1>8. PhaseInv'
  BY <1>2 DEF PhaseInv
<1> QED BY <1>3, <1>4, <1>5, <1>6, <1>7, <1>8 DEF IInv

\* An SQE is pushed: the one of the operation being submitted, or a cancellation.
LEMMA PushStep ==
  ASSUME IInv, TypeOK', PhaseInv', NEW e \in SQE,
         sq' = Append(sq, e),
         ~e.cancel => Pending(e.op),
         \A o \in Ops : ~Pending(o)',
         UNCHANGED <<life, owner, idx, held, inflight, cq>>,
         \A o \in Ops : fut'[o] = fut[o] \/ (fut'[o] = "alive" /\ fut[o] = "submitting"),
         AfterMark => AfterMark'
  PROVE  IInv'
<1>0. ~e.cancel => e.op \in Ops
  BY DEF SQE
<1>1. /\ Len(sq) \in Nat /\ Len(sq') = Len(sq) + 1
      /\ \A k \in 1..Len(sq) : sq'[k] = sq[k]
      /\ sq'[Len(sq) + 1] = e
  BY AppendProperties DEF IInv, TypeOK, RingType
<1>2. ASSUME NEW o \in Ops
      PROVE  (Queued(o)' => Queued(o) \/ (~e.cancel /\ e.op = o)) /\ (Answered(o)' <=> Answered(o))
  <2>1. ASSUME NEW k \in 1..Len(sq'), sq'[k].op = o, ~sq'[k].cancel
        PROVE  Queued(o) \/ (~e.cancel /\ e.op = o)
    <3>1. k \in 1..Len(sq) \/ k = Len(sq) + 1
      BY <1>1
    <3>2. CASE k \in 1..Len(sq)
      <4>1. sq[k].op = o /\ ~sq[k].cancel
        BY <1>1, <2>1, <3>2
      <4> QED BY <3>2, <4>1 DEF Queued
    <3>3. CASE k = Len(sq) + 1
      BY <1>1, <2>1, <3>3
    <3> QED BY <3>1, <3>2, <3>3
  <2>2. Answered(o)' <=> Answered(o)
    BY DEF Answered
  <2> QED BY <2>1, <2>2 DEF Queued
<1>3. RouteInv'
  <2> SUFFICES ASSUME NEW o \in Ops, Outstanding(o)' PROVE Live(o)'
    BY DEF RouteInv
  <2>1. Outstanding(o)
    BY <1>2 DEF Outstanding
  <2> QED BY <2>1, LiveFrame DEF IInv, RouteInv
<1>4. PendOnce'
  BY DEF PendOnce
<1>5. QueuedOnce'
  <2>1. \A o \in Ops : Queued(o)' => o \notin inflight' /\ ~Answered(o)'
    BY <1>2 DEF IInv, QueuedOnce, PendOnce
  <2>2. ASSUME NEW j \in 1..Len(sq'), NEW k \in 1..Len(sq'),
               ~sq'[j].cancel, ~sq'[k].cancel, sq'[j].op = sq'[k].op
        PROVE  j = k
    <3>1. CASE j \in 1..Len(sq) /\ k \in 1..Len(sq)
      BY <1>1, <2>2, <3>1 DEF IInv, QueuedOnce
    <3>2. ASSUME NEW m \in 1..Len(sq), ~sq[m].cancel, ~e.cancel, sq[m].op = e.op PROVE FALSE
      BY <1>0, <3>2 DEF IInv, PendOnce, Queued
    <3>3. CASE j \in 1..Len(sq) /\ k = Len(sq) + 1
      BY <1>1, <2>2, <3>2, <3>3
    <3>4. CASE j = Len(sq) + 1 /\ k \in 1..Len(sq)
      BY <1>1, <2>2, <3>2, <3>4
    <3>5. j \in 1..Len(sq) \/ j = Len(sq) + 1
      BY <1>1
    <3>6. k \in 1..Len(sq) \/ k = Len(sq) + 1
      BY <1>1
    <3> QED BY <3>1, <3>3, <3>4, <3>5, <3>6
  <2> QED BY <2>1, <2>2 DEF QueuedOnce
<1>6. FinalOnce'
  BY DEF IInv, FinalOnce
<1>7. FutInv'
  BY DEF IInv, FutInv
<1>8. ListInv'
  BY DEF IInv, ListInv
<1> QED BY <1>3, <1>4, <1>5, <1>6, <1>7, <1>8 DEF IInv

\* Submitting: the slab entry was vacant, so it is nobody else's, and the
\* operation is new, so nothing in the rings is its.
LEMMA SubmitInv ==
  ASSUME IInv, TypeOK', NEW f \in Ops, NEW i \in Slots, Submit(f, i)
  PROVE  IInv'
<1>1. /\ pc = "run" /\ pc' = "push" /\ fut[f] = "new" /\ life[i] = Vacant
      /\ life' = [life EXCEPT ![i] = Submitted]
      /\ fut' = [fut EXCEPT ![f] = "submitting"]
      /\ held' = [held EXCEPT ![f] = TRUE]
      /\ idx' = [idx EXCEPT ![f] = i]
      /\ owner' = [owner EXCEPT ![i] = f]
      /\ pend' = [op |-> f, cancel |-> FALSE, ud |-> i]
      /\ UNCHANGED <<sq, inflight, cq>>
  BY DEF Submit, rings
<1>2. ~Outstanding(f) /\ ~held[f]
  <2>1. idx[f] \notin Slots
    BY <1>1 DEF IInv, FutInv, CancelUD, Slots
  <2> QED BY <1>1, <2>1 DEF IInv, RouteInv, Live, FutInv
<1>3. ~AfterMark /\ ~AfterMark'
  BY <1>1 DEF AfterMark, Marking
<1>4. /\ life'[i] = Submitted /\ \A j \in Slots \ {i} : life'[j] = life[j]
      /\ owner'[i] = f /\ \A j \in Slots \ {i} : owner'[j] = owner[j]
      /\ idx'[f] = i /\ \A o \in Ops \ {f} : idx'[o] = idx[o]
      /\ held'[f] /\ \A o \in Ops \ {f} : held'[o] = held[o]
      /\ fut'[f] = "submitting" /\ \A o \in Ops \ {f} : fut'[o] = fut[o]
  BY <1>1 DEF IInv, TypeOK, SlabType, FutureType
<1>5. /\ \A o \in Ops : Pending(o)' => o = f
      /\ \A o \in Ops : (Queued(o)' <=> Queued(o)) /\ (Answered(o)' <=> Answered(o))
  BY <1>1 DEF Pending, Pushing, Queued, Answered
<1>6. ASSUME NEW o \in Ops \ {f}, Live(o) \/ held[o] PROVE idx[o] \in Slots /\ idx[o] # i
  BY <1>1, <1>3, <1>6 DEF Live, Expecting, Vacant, IInv, FutInv, TypeOK, FutureType
<1>7. RouteInv'
  <2> SUFFICES ASSUME NEW o \in Ops, Outstanding(o)' PROVE Live(o)'
    BY DEF RouteInv
  <2>1. CASE o = f
    BY <1>4, <2>1 DEF Live, Expecting, Submitted
  <2>2. CASE o # f
    <3>1. Live(o)
      BY <1>1, <1>5, <2>2 DEF IInv, RouteInv, Outstanding
    <3>2. idx[o] \in Slots /\ idx[o] # i
      BY <1>6, <2>2, <3>1
    <3> QED BY <1>3, <1>4, <2>2, <3>1, <3>2, LiveFrame
  <2> QED BY <2>1, <2>2
<1>8. PendOnce'
  BY <1>1, <1>2, <1>4, <1>5 DEF PendOnce, Outstanding
<1>9. QueuedOnce'
  BY <1>1, <1>5 DEF IInv, QueuedOnce
<1>10. FinalOnce'
  <2>1. \A k \in 1..Len(cq) : cq[k].op # f
    BY <1>2 DEF Outstanding, Answered
  <2>2. \A k \in 1..Len(cq) : cq[k].op # None => cq[k].op \in Ops \ {f}
    <3>1. \A k \in 1..Len(cq) : cq[k] \in CQE
      BY DEF IInv, TypeOK, RingType
    <3> QED BY <2>1, <3>1 DEF CQE
  <2> QED BY <1>1, <1>4, <2>2 DEF IInv, FinalOnce, CancelUD
<1>11. FutInv'
  <2> SUFFICES ASSUME NEW o \in Ops
               PROVE  /\ fut'[o] = "new" => idx'[o] = CancelUD'
                      /\ held'[o] => /\ fut'[o] \in {"submitting", "alive"}
                                     /\ owner'[idx'[o]] = o
                                     /\ life'[idx'[o]].st \notin {"Vacant", "Ignored"}
    BY DEF FutInv
  <2>1. CASE o = f
    BY <1>4, <2>1 DEF Submitted
  <2>2. CASE o # f
    <3>1. held[o] => idx[o] \in Slots /\ idx[o] # i
      BY <1>6, <2>2
    <3> QED BY <1>3, <1>4, <2>2, <3>1 DEF IInv, FutInv, CancelUD
  <2> QED BY <2>1, <2>2
<1>12. ListInv'
  BY <1>4 DEF IInv, ListInv, Submitted
<1>13. PhaseInv'
  BY <1>1, <1>3 DEF PhaseInv
<1> QED BY <1>7, <1>8, <1>9, <1>10, <1>11, <1>12, <1>13 DEF IInv

\* Removing a completed entry during shutdown: nothing is owed to it.
LEMMA ReapRemoveInv ==
  ASSUME IInv, TypeOK', ReapRemove
  PROVE  IInv'
<1>1. /\ pc = "reap" /\ cur \in Slots /\ life[cur].st = "Completed"
      /\ life' = [life EXCEPT ![cur] = Vacant]
      /\ UNCHANGED <<owner, idx, held, fut, sq, inflight, cq, pc, pend, submitRet, dispRet>>
  BY DEF ReapRemove, futures, rings
<1>2. AfterMark /\ AfterMark'
  BY <1>1 DEF AfterMark, Marking
<1>3. \A o \in Ops : ~Pending(o)'
  BY <1>1 DEF Pending, Pushing
<1>4. \A o \in Ops : (Queued(o)' <=> Queued(o)) /\ (Answered(o)' <=> Answered(o))
  BY <1>1 DEF Queued, Answered
<1>5. life'[cur] = Vacant /\ \A i \in Slots \ {cur} : life'[i] = life[i]
  BY <1>1 DEF IInv, TypeOK, SlabType
<1>6. RouteInv'
  <2> SUFFICES ASSUME NEW o \in Ops, Outstanding(o)' PROVE Live(o)'
    BY DEF RouteInv
  <2>1. Live(o)
    BY <1>1, <1>3, <1>4 DEF IInv, RouteInv, Outstanding
  <2>2. idx[o] \in Slots \ {cur}
    BY <1>1, <2>1 DEF Live, Expecting
  <2> QED BY <1>1, <1>2, <1>5, <2>1, <2>2, LiveFrame
<1>7. PendOnce' /\ QueuedOnce' /\ FinalOnce'
  BY <1>1, <1>3, <1>4 DEF IInv, PendOnce, QueuedOnce, FinalOnce
<1>8. FutInv'
  BY <1>1, <1>2 DEF IInv, FutInv
<1>9. ListInv'
  BY <1>5 DEF IInv, ListInv, Vacant
<1>10. PhaseInv'
  BY <1>1, <1>2, <1>5 DEF IInv, PhaseInv, Vacant
<1> QED BY <1>6, <1>7, <1>8, <1>9, <1>10 DEF IInv

\* The marking pass of Drop for Driver: an entry that expects a completion
\* becomes Ignored.
LEMMA MarkInv ==
  ASSUME IInv, TypeOK', Mark
  PROVE  IInv'
<1>1. /\ pc = "mark" /\ pc' = "cancel"
      /\ \A i \in Slots : life'[i] = Marked(life[i])
      /\ UNCHANGED <<owner, idx, held, fut, sq, inflight, cq, pend, submitRet, dispRet>>
  BY DEF Mark, futures, rings
<1>2. AfterMark'
  BY <1>1 DEF AfterMark, Marking
<1>3. \A o \in Ops : ~Pending(o)'
  BY <1>1 DEF Pending, Pushing
<1>4. \A o \in Ops : (Queued(o)' <=> Queued(o)) /\ (Answered(o)' <=> Answered(o))
  BY <1>1 DEF Queued, Answered
<1>5. \A i \in Slots : /\ Expecting(i) => life'[i].st = "Ignored"
                      /\ life'[i].st \in {"Vacant", "Ignored", "Completed"}
  <2> SUFFICES ASSUME NEW i \in Slots
               PROVE  /\ Expecting(i) => life'[i].st = "Ignored"
                      /\ life'[i].st \in {"Vacant", "Ignored", "Completed"}
    OBVIOUS
  <2>1. life[i] \in LifecycleType
    BY DEF IInv, TypeOK, SlabType
  <2>2. life[i].st \in {"Vacant", "Submitted", "Waiting", "Ignored", "Completed", "CompletionList"}
    BY <2>1, LifecycleFields
  <2>3. CASE life[i].st \in {"Vacant", "Completed"}
    BY <1>1, <2>3 DEF Marked, Expecting
  <2>4. CASE life[i].st \in {"Submitted", "Waiting", "Ignored"}
    BY <1>1, <2>4 DEF Marked, Ignored
  <2>5. CASE life[i].st = "CompletionList"
    <3>1. life'[i] = IF Last(life[i].cqes).more THEN Ignored(None) ELSE Completed(Last(life[i].cqes))
      BY <1>1, <2>5 DEF Marked
    <3> QED BY <2>5, <3>1 DEF Expecting, Ignored, Completed
  <2> QED BY <2>2, <2>3, <2>4, <2>5
<1>6. RouteInv'
  <2> SUFFICES ASSUME NEW o \in Ops, Outstanding(o)' PROVE Live(o)'
    BY DEF RouteInv
  <2>1. Live(o)
    BY <1>1, <1>3, <1>4 DEF IInv, RouteInv, Outstanding
  <2> QED BY <1>1, <1>2, <1>5, <2>1 DEF Live, Expecting
<1>7. PendOnce' /\ QueuedOnce' /\ FinalOnce'
  BY <1>1, <1>3, <1>4 DEF IInv, PendOnce, QueuedOnce, FinalOnce
<1>8. FutInv'
  BY <1>1, <1>2 DEF IInv, FutInv
<1>9. ListInv' /\ PhaseInv'
  BY <1>1, <1>5 DEF ListInv, PhaseInv
<1> QED BY <1>6, <1>7, <1>8, <1>9 DEF IInv

\* Dispatching one completion: it is its operation's, and unless more follow
\* nothing else of that operation is under way.
LEMMA DispatchOneInv ==
  ASSUME IInv, TypeOK', DispatchOne
  PROVE  IInv'
<1>1. /\ Len(cq) \in Nat \ {0} /\ Len(cq') = Len(cq) - 1
      /\ Head(cq) = cq[1] /\ cq[1] \in CQE
      /\ \A k \in 1..Len(cq') : cq'[k] = cq[k + 1] /\ k + 1 \in 1..Len(cq)
  BY HeadTailProperties, EmptySeq DEF DispatchOne, IInv, TypeOK, RingType
<1>2. /\ pc = "dispatch" /\ UNCHANGED <<owner, idx, held, fut, sq, inflight, pc, pend, submitRet, dispRet>>
      /\ \/ cq[1].ud = CancelUD /\ life' = life
         \/ cq[1].ud # CancelUD /\ Complete(cq[1].ud, cq[1])
  BY <1>1 DEF DispatchOne
<1>3. /\ \A o \in Ops : Pending(o)' <=> Pending(o)
      /\ \A o \in Ops : Queued(o)' <=> Queued(o)
      /\ \A o \in Ops : Answered(o)' => Answered(o)
      /\ AfterMark' <=> AfterMark
  BY <1>1, <1>2 DEF Pending, Pushing, Queued, Answered, AfterMark, Marking
<1>4. \A o \in Ops : Outstanding(o)' => Outstanding(o) /\ Live(o)
  BY <1>2, <1>3 DEF IInv, RouteInv, Outstanding
<1>5. PendOnce' /\ QueuedOnce'
  <2>1. PendOnce'
    BY <1>2, <1>3 DEF IInv, PendOnce
  <2>2. \A o \in Ops : Queued(o)' => o \notin inflight' /\ ~Answered(o)'
    BY <1>2, <1>3 DEF IInv, QueuedOnce
  <2> QED BY <1>2, <2>1, <2>2 DEF IInv, QueuedOnce
<1>6. FinalOnce'
  <2> SUFFICES ASSUME NEW k \in 1..Len(cq')
               PROVE  /\ cq'[k].ud = IF cq'[k].op = None THEN CancelUD ELSE idx'[cq'[k].op]
                      /\ cq'[k].op \in inflight' => cq'[k].more
                      /\ \A j \in 1..(k - 1) :
                           cq'[j].op = cq'[k].op /\ cq'[k].op # None => cq'[j].more
    BY DEF FinalOnce, CancelUD
  <2>1. cq'[k] = cq[k + 1] /\ k + 1 \in 1..Len(cq)
    BY <1>1
  <2>2. \A j \in 1..(k - 1) : cq'[j] = cq[j + 1] /\ j + 1 \in 1..((k + 1) - 1)
    BY <1>1
  <2> QED BY <1>2, <2>1, <2>2 DEF IInv, FinalOnce
<1>7. CASE cq[1].op = None
  <2>1. life' = life
    BY <1>1, <1>2, <1>7 DEF IInv, FinalOnce
  <2>2. RouteInv'
    BY <1>2, <1>3, <1>4, <2>1, LiveFrame DEF RouteInv
  <2>3. FutInv' /\ ListInv' /\ PhaseInv'
    BY <1>2, <1>3, <2>1 DEF IInv, FutInv, ListInv, PhaseInv
  <2> QED BY <1>5, <1>6, <2>2, <2>3 DEF IInv
<1>8. CASE cq[1].op # None
  <2>1. PICK f \in Ops : f = cq[1].op
    BY <1>1, <1>8 DEF CQE
  <2>2. PICK c \in CQE : c = cq[1]
    BY <1>1
  <2>3. 1 \in 1..Len(cq)
    BY <1>1
  <2>4. Answered(f) /\ Live(f)
    BY <2>1, <2>3 DEF Answered, Outstanding, IInv, RouteInv
  <2>5. PICK i \in Slots : i = idx[f] /\ owner[i] = f /\ Expecting(i)
    BY <2>4 DEF Live
  <2>6. c.ud = i /\ Complete(i, c)
    <3>1. cq[1].ud = idx[f]
      BY <1>8, <2>1, <2>3 DEF IInv, FinalOnce
    <3>2. i # CancelUD
      BY DEF Slots, CancelUD
    <3> QED BY <1>2, <2>2, <2>5, <3>1, <3>2
  <2>7. PICK l : /\ life' = [life EXCEPT ![i] = l]
                 /\ \/ /\ life[i].st \in {"Submitted", "Waiting"}
                       /\ l = IF c.more THEN CompletionList(<<c>>) ELSE Completed(c)
                    \/ /\ life[i].st = "Ignored"
                       /\ l = IF c.more THEN life[i] ELSE Vacant
                    \/ /\ life[i].st = "CompletionList"
                       /\ l = CompletionList(Append(life[i].cqes, c))
    BY <2>6 DEF Complete
  <2>8. life'[i] = l /\ \A j \in Slots \ {i} : life'[j] = life[j]
    BY <2>7 DEF IInv, TypeOK, SlabType
  <2>9. /\ l.st = "CompletionList" => AllButLastMore(l.cqes) /\ (Last(l.cqes).more <=> c.more)
        /\ c.more => \/ l.st = "CompletionList" /\ life[i].st # "Ignored"
                     \/ l.st = "Ignored" /\ l = life[i]
        /\ l.st \in {"Vacant", "Ignored"} => life[i].st = "Ignored"
        /\ life[i].st \in {"Ignored"} => l.st \in {"Vacant", "Ignored"}
    <3>1. CASE life[i].st \in {"Submitted", "Waiting"}
      <4>1. Len(<<c>>) = 1 /\ <<c>>[1] = c
        OBVIOUS
      <4>2. AllButLastMore(<<c>>) /\ Last(<<c>>) = c
        BY <4>1 DEF AllButLastMore, Last
      <4>3. l = IF c.more THEN CompletionList(<<c>>) ELSE Completed(c)
        BY <2>7, <3>1
      <4> QED BY <3>1, <4>2, <4>3 DEF CompletionList, Completed
    <3>2. CASE life[i].st = "Ignored"
      BY <2>7, <3>2 DEF Vacant
    <3>3. CASE life[i].st = "CompletionList"
      <4> DEFINE s == life[i].cqes
      <4>1. s \in Seq(CQE) /\ s # <<>>
        BY <3>3, LifecycleFields DEF IInv, TypeOK, SlabType
      <4>2. Len(s) \in Nat \ {0} /\ s[Len(s)].more /\ AllButLastMore(s)
        BY <2>5, <3>3, <4>1, LastType DEF Expecting, Last, IInv, ListInv
      <4> HIDE DEF s
      <4>3. /\ Len(Append(s, c)) = Len(s) + 1 /\ Append(s, c)[Len(s) + 1] = c
            /\ \A k \in 1..Len(s) : Append(s, c)[k] = s[k]
        BY <4>1, AppendProperties
      <4>4. \A k \in 1..Len(s) : s[k].more
        BY <4>2 DEF AllButLastMore
      <4>5. AllButLastMore(Append(s, c)) /\ Last(Append(s, c)) = c
        BY <4>2, <4>3, <4>4 DEF AllButLastMore, Last
      <4>6. l = CompletionList(Append(s, c))
        BY <2>7, <3>3 DEF s
      <4> QED BY <3>3, <4>5, <4>6 DEF CompletionList
    <3> QED BY <2>7, <3>1, <3>2, <3>3
  <2>10. Outstanding(f)' => c.more
    <3>1. f \in inflight => c.more
      BY <2>1, <2>2, <2>3 DEF IInv, FinalOnce
    <3>2. Answered(f)' => c.more
      <4>1. ASSUME NEW k \in 1..Len(cq'), cq'[k].op = f PROVE c.more
        <5>1. k + 1 \in 1..Len(cq) /\ cq[k + 1].op = f /\ 1 \in 1..((k + 1) - 1)
          BY <1>1, <4>1
        <5> QED BY <1>8, <2>1, <2>2, <5>1 DEF IInv, FinalOnce
      <4> QED BY <4>1 DEF Answered
    <3>3. ~Queued(f)' /\ ~Pending(f)'
      BY <1>3, <2>4 DEF IInv, QueuedOnce, PendOnce
    <3> QED BY <1>2, <3>1, <3>2, <3>3 DEF Outstanding
  <2>11. RouteInv'
    <3> SUFFICES ASSUME NEW o \in Ops, Outstanding(o)' PROVE Live(o)'
      BY DEF RouteInv
    <3>1. CASE o = f
      <4>1. c.more
        BY <2>10, <3>1
      <4>2. CASE l.st = "CompletionList" /\ life[i].st # "Ignored"
        BY <1>2, <1>3, <2>4, <2>5, <2>8, <2>9, <3>1, <4>1, <4>2 DEF Live, Expecting
      <4>3. CASE l.st = "Ignored" /\ l = life[i]
        BY <1>2, <1>3, <2>4, <2>5, <2>8, <3>1, <4>3, LiveFrame
      <4> QED BY <2>9, <4>1, <4>2, <4>3
    <3>2. CASE o # f
      <4>1. Live(o)
        BY <1>4
      <4>2. idx[o] \in Slots \ {i}
        BY <2>5, <3>2, <4>1 DEF Live
      <4> QED BY <1>2, <1>3, <2>8, <4>1, <4>2, LiveFrame
    <3> QED BY <3>1, <3>2
  <2>12. FutInv'
    <3> SUFFICES ASSUME NEW o \in Ops
                 PROVE  /\ fut'[o] = "new" => idx'[o] = CancelUD'
                        /\ held'[o] => /\ fut'[o] \in {"submitting", "alive"}
                                       /\ owner'[idx'[o]] = o
                                       /\ ~AfterMark' => life'[idx'[o]].st \notin {"Vacant", "Ignored"}
      BY DEF FutInv
    <3>1. ASSUME held[o], ~AfterMark PROVE life'[idx[o]].st \notin {"Vacant", "Ignored"}
      <4>1. life[idx[o]].st \notin {"Vacant", "Ignored"} /\ idx[o] \in Slots
        BY <3>1 DEF IInv, FutInv, TypeOK, FutureType
      <4>2. CASE idx[o] = i
        BY <2>8, <2>9, <4>1, <4>2
      <4>3. CASE idx[o] # i
        BY <2>8, <4>1, <4>3
      <4> QED BY <4>2, <4>3
    <3> QED BY <1>2, <1>3, <3>1 DEF IInv, FutInv, CancelUD
  <2>13. ListInv'
    BY <2>8, <2>9 DEF IInv, ListInv
  <2>14. PhaseInv'
    <3>1. AfterMark' => \A j \in Slots : life'[j].st \in {"Vacant", "Ignored", "Completed"}
      <4>1. ASSUME AfterMark', NEW j \in Slots PROVE life'[j].st \in {"Vacant", "Ignored", "Completed"}
        <5>1. \A m \in Slots : life[m].st \in {"Vacant", "Ignored", "Completed"}
          BY <1>2, <1>3, <4>1 DEF IInv, PhaseInv
        <5>2. life[i].st = "Ignored"
          BY <2>5, <5>1 DEF Expecting
        <5> QED BY <2>8, <2>9, <5>1, <5>2
      <4> QED BY <4>1
    <3> QED BY <1>2, <3>1 DEF IInv, PhaseInv
  <2> QED BY <1>5, <1>6, <2>11, <2>12, <2>13, <2>14 DEF IInv
<1> QED BY <1>7, <1>8

\* A future that finishes leaves: its entry expects nothing.
LEMMA FinishInv ==
  ASSUME IInv, TypeOK', NEW o \in Ops, CanPoll(o), NEW n, Finish(o, n), ~Expecting(idx[o])
  PROVE  IInv'
<1>1. /\ pc = "run" /\ held[o] /\ fut[o] = "alive"
      /\ life' = [life EXCEPT ![idx[o]] = Vacant]
      /\ UNCHANGED <<owner, idx, rings, control, fut>>
      /\ held' = [held EXCEPT ![o] = FALSE]
  BY DEF CanPoll, Finish
<1>2. ~held'[o] /\ \A p \in Ops \ {o} : held'[p] = held[p]
  BY <1>1 DEF IInv, TypeOK, FutureType
<1>3. Vacant.st = "Vacant"
  BY DEF Vacant
<1> QED BY <1>1, <1>2, <1>3, SlotStep

\* A poll that finds nothing final.
LEMMA PollInv ==
  ASSUME IInv, TypeOK', NEW o \in Ops, CanPoll(o),
         NEW l, life' = [life EXCEPT ![idx[o]] = l],
         UNCHANGED <<fut, held, idx, rings, control, owner>>,
         \/ l.st = "Waiting"
         \/ /\ l.st = "CompletionList" /\ AllButLastMore(l.cqes)
            /\ Last(l.cqes).more \/ ~Expecting(idx[o])
  PROVE  IInv'
<1>1. pc = "run" /\ held[o] /\ fut[o] = "alive"
  BY DEF CanPoll
<1> QED BY <1>1, SlotStep

\* An early yield keeps the rest of the list, its last completion included.
LEMMA PollYieldInv ==
  ASSUME IInv, TypeOK', NEW o \in Ops, NEW w \in Wakers, NEW k, PollYield(o, w, k)
  PROVE  IInv'
<1> DEFINE s == life[idx[o]].cqes
           r == SubSeq(s, k + 1, Len(s))
           l == IF r # <<>> THEN CompletionList(r) ELSE Waiting(w)
<1>1. /\ CanPoll(o) /\ life' = [life EXCEPT ![idx[o]] = l]
      /\ life[idx[o]].st = "CompletionList" /\ k \in 1..Len(s)
      /\ UNCHANGED <<fut, held, idx, rings, control, owner>>
  BY DEF PollYield, Consumes
<1>2. idx[o] \in Slots /\ s \in Seq(CQE) /\ AllButLastMore(s)
  BY <1>1, LifecycleFields DEF CanPoll, IInv, TypeOK, FutureType, SlabType, ListInv
<1>3. /\ Len(s) \in Nat /\ k \in Nat /\ k >= 1 /\ k <= Len(s)
      /\ r \in Seq(CQE) /\ Len(r) = Len(s) - k
      /\ \A j \in 1..(Len(s) - k) : r[j] = s[k + j]
  <2> HIDE DEF s
  <2>1. Len(s) \in Nat /\ k \in Nat /\ k >= 1 /\ k <= Len(s)
    BY <1>1, <1>2
  <2>2. /\ r \in Seq(CQE) /\ Len(r) = Len(s) - k
        /\ \A j \in 1..(Len(s) - k) : r[j] = s[k + j]
    BY <1>1, <1>2, SubSeqType
  <2> QED BY <2>1, <2>2
<1>4. CASE r = <<>>
  BY <1>1, <1>4, PollInv DEF Waiting
<1>5. CASE r # <<>>
  <2>1. l.st = "CompletionList" /\ l.cqes = r
    BY <1>5 DEF CompletionList
  <2> HIDE DEF r, s
  <2>2. Len(r) # 0
    BY <1>3, <1>5, EmptySeq
  <2>3. Last(r) = Last(s)
    BY <1>3, <2>2 DEF Last
  <2>4. AllButLastMore(r)
    <3> SUFFICES ASSUME NEW j \in 1..(Len(r) - 1) PROVE r[j].more
      BY DEF AllButLastMore
    <3>1. r[j] = s[k + j] /\ k + j \in 1..(Len(s) - 1)
      BY <1>3
    <3> QED BY <1>2, <3>1 DEF AllButLastMore
  <2>5. Last(s).more \/ ~Expecting(idx[o])
    BY <1>1 DEF Expecting, s
  <2> HIDE DEF l
  <2> QED BY <1>1, <2>1, <2>3, <2>4, <2>5, PollInv
<1> QED BY <1>4, <1>5

\* Dropping a future: its data moves to the entry when the kernel may still
\* answer.
LEMMA DropInv ==
  ASSUME IInv, TypeOK', NEW o \in Ops, Drop(o)
  PROVE  IInv'
<1>1. /\ pc = "run" /\ fut[o] = "alive"
      /\ life' = IF held[o] THEN [life EXCEPT ![idx[o]] = Removed(@, o)] ELSE life
      /\ fut' = [fut EXCEPT ![o] = "gone"]
      /\ held' = [held EXCEPT ![o] = FALSE]
      /\ UNCHANGED <<owner, idx, rings, control>>
  BY DEF Drop
<1>2. /\ ~held'[o] /\ \A p \in Ops \ {o} : held'[p] = held[p]
      /\ fut'[o] = "gone" /\ \A p \in Ops \ {o} : fut'[p] = fut[p]
  BY <1>1 DEF IInv, TypeOK, FutureType
<1>3. CASE held[o]
  <2> DEFINE l == Removed(life[idx[o]], o)
  <2>1. idx[o] \in Slots /\ life[idx[o]] \in LifecycleType
    BY <1>3 DEF IInv, TypeOK, FutureType, SlabType
  <2>2. life' = [life EXCEPT ![idx[o]] = l]
    BY <1>1, <1>3
  <2>3. l = Ignored(o) \/ l = Vacant
    BY DEF Removed
  <2>4. Expecting(idx[o]) => l = Ignored(o)
    <3>1. ~(life[idx[o]].st = "Ignored")
      BY <1>1, <1>3 DEF IInv, FutInv, AfterMark, Marking
    <3> QED BY <3>1 DEF Expecting, Removed
  <2>5. /\ l.st # "CompletionList"
        /\ Expecting(idx[o]) => l.st = "Ignored" /\ l.data = o
    BY <2>3, <2>4 DEF Ignored, Vacant
  <2> HIDE DEF l
  <2>6. /\ pc = "run" /\ fut[o] = "alive" /\ UNCHANGED <<owner, idx, rings, control>>
        /\ fut'[o] \in {"alive", "gone"}
        /\ \A p \in Ops \ {o} : held'[p] = held[p] /\ fut'[p] = fut[p]
    BY <1>1, <1>2
  <2> QED BY <1>2, <1>3, <2>2, <2>5, <2>6, SlotStep
<1>4. CASE ~held[o]
  <2>1. ~AfterMark' /\ ~AfterMark /\ pc' = "run"
    BY <1>1 DEF AfterMark, Marking, control
  <2>2. \A p \in Ops : ~Pending(p)'
    BY <2>1 DEF Pending, Pushing
  <2>3. PhaseInv'
    BY <2>1 DEF PhaseInv
  <2>4. life' = life /\ UNCHANGED <<owner, idx, sq, inflight, cq>> /\ held'[o] = held[o]
    <3>1. held[o] = FALSE /\ held'[o] = FALSE
      BY <1>1, <1>4 DEF IInv, TypeOK, FutureType
    <3> QED BY <1>1, <1>4, <3>1 DEF rings
  <2> QED BY <1>2, <1>4, <2>1, <2>2, <2>3, <2>4, QuietStep
<1> QED BY <1>3, <1>4

\* A failed submission: the operation that is given up is nowhere in the rings.
LEMMA SubmitErrInv ==
  ASSUME IInv, TypeOK', SubmitErr
  PROVE  IInv'
<1>1. /\ pc = "submit" /\ UNCHANGED <<life, owner, idx, sq, inflight, cq>>
      /\ pc' \in {"run", "panic"} /\ submitRet' = "run"
  BY DEF SubmitErr, rings
<1>2. \A p \in Ops : ~Pending(p)'
  BY <1>1 DEF Pending, Pushing
<1>3. ~AfterMark
  BY <1>1 DEF AfterMark, Marking
<1>4. PhaseInv'
  <2>1. pc' = "run" => ~AfterMark'
    BY <1>1 DEF AfterMark, Marking
  <2> QED BY <1>1, <2>1 DEF PhaseInv
<1>5. \A o \in Ops : \/ fut'[o] = fut[o] /\ held'[o] = held[o]
                     \/ fut'[o] = "gone" /\ ~held'[o] /\ ~Outstanding(o)'
  <2>1. CASE UNCHANGED <<fut, held>>
    BY <2>1
  <2>2. CASE /\ submitRet = "push" /\ ~pend.cancel
             /\ fut' = [fut EXCEPT ![pend.op] = "gone"]
             /\ held' = [held EXCEPT ![pend.op] = FALSE]
    <3>1. PICK f \in Ops : f = pend.op
      BY <2>2 DEF IInv, TypeOK, ControlType, SQE
    <3>2. Pending(f)
      BY <1>1, <2>2, <3>1 DEF Pending, Pushing
    <3>3. ~Queued(f) /\ f \notin inflight /\ ~Answered(f)
      BY <3>2 DEF IInv, PendOnce
    <3>4. ~Outstanding(f)'
      BY <1>1, <1>2, <3>3 DEF Outstanding, Queued, Answered
    <3>5. /\ ~held'[f] /\ \A p \in Ops \ {f} : held'[p] = held[p]
          /\ fut'[f] = "gone" /\ \A p \in Ops \ {f} : fut'[p] = fut[p]
      BY <2>2, <3>1 DEF IInv, TypeOK, FutureType
    <3> QED BY <3>4, <3>5
  <2> QED BY <2>1, <2>2 DEF SubmitErr
<1> QED BY <1>1, <1>2, <1>3, <1>4, <1>5, QuietStep

\* A future dropped after the driver.
LEMMA LateDropInv ==
  ASSUME IInv, TypeOK', NEW o \in Ops, LateDrop(o)
  PROVE  IInv'
<1>1. /\ pc = "gone" /\ pc' \in {"gone", "panic"}
      /\ fut' = [fut EXCEPT ![o] = "gone"] /\ held' = [held EXCEPT ![o] = FALSE]
      /\ UNCHANGED <<life, owner, idx, sq, inflight, cq>>
  BY DEF LateDrop, rings
<1>2. AfterMark /\ AfterMark'
  BY <1>1 DEF AfterMark, Marking
<1>3. \A p \in Ops : ~Pending(p)'
  BY <1>1 DEF Pending, Pushing
<1>4. /\ ~held'[o] /\ \A p \in Ops \ {o} : held'[p] = held[p]
      /\ fut'[o] = "gone" /\ \A p \in Ops \ {o} : fut'[p] = fut[p]
  BY <1>1 DEF IInv, TypeOK, FutureType
<1>5. PhaseInv'
  BY <1>1, <1>2 DEF IInv, PhaseInv, SlabEmpty
<1> QED BY <1>1, <1>2, <1>3, <1>4, <1>5, QuietStep

\* Every step preserves the invariant.
LEMMA SafetyNext == IInv /\ [Next]_vars => IInv'
<1> SUFFICES ASSUME IInv, [Next]_vars PROVE IInv'
  OBVIOUS
<1>t. TypeOK'
  BY TypeNext DEF IInv
<1>c. /\ submitRet \in {"run", "push", "flush", "cancel", "reap"}
      /\ dispRet \in {"run", "submit", "reap"}
  BY DEF IInv, TypeOK, ControlType
<1> USE DEF futures, rings, control
<1>1. CASE PushFull
  <2>1. /\ UNCHANGED <<life, owner, idx, held, fut, sq, inflight, cq>>
        /\ AfterMark => AfterMark'
        /\ \A o \in Ops : Pending(o)' => Pending(o)
    BY <1>1 DEF PushFull, AfterMark, Marking, Pending, Pushing
  <2>2. PhaseInv'
    BY <1>1 DEF PushFull, IInv, PhaseInv, SlabEmpty, AfterMark, Marking
  <2> QED BY <1>t, <2>1, <2>2, QuietStep
<1>2. CASE SubmitBusy
  <2>1. /\ UNCHANGED <<life, owner, idx, held, fut, sq, inflight, cq>>
        /\ AfterMark => AfterMark'
        /\ \A o \in Ops : Pending(o)' => Pending(o)
    BY <1>2 DEF SubmitBusy, AfterMark, Marking, Pending, Pushing
  <2>2. PhaseInv'
    BY <1>2 DEF SubmitBusy, IInv, PhaseInv, SlabEmpty, AfterMark, Marking
  <2> QED BY <1>t, <2>1, <2>2, QuietStep
<1>3. CASE EnteredReturn
  <2>1. /\ UNCHANGED <<life, owner, idx, held, fut, sq, inflight, cq>>
        /\ AfterMark => AfterMark'
        /\ \A o \in Ops : Pending(o)' => Pending(o)
    BY <1>3, <1>c DEF EnteredReturn, AfterMark, Marking, Pending, Pushing
  <2>2. PhaseInv'
    BY <1>3, <1>c DEF EnteredReturn, IInv, PhaseInv, SlabEmpty, AfterMark, Marking
  <2> QED BY <1>t, <2>1, <2>2, QuietStep
<1>4. CASE DispatchEnd
  <2>1. /\ UNCHANGED <<life, owner, idx, held, fut, sq, inflight, cq>>
        /\ AfterMark => AfterMark'
        /\ \A o \in Ops : Pending(o)' => Pending(o)
    BY <1>4, <1>c DEF DispatchEnd, AfterMark, Marking, Pending, Pushing
  <2>2. PhaseInv'
    BY <1>4, <1>c DEF DispatchEnd, IInv, PhaseInv, SlabEmpty, AfterMark, Marking
  <2> QED BY <1>t, <2>1, <2>2, QuietStep
<1>5. CASE ParkFlushesOnly
  <2>1. /\ UNCHANGED <<life, owner, idx, held, fut, sq, inflight, cq>>
        /\ AfterMark => AfterMark'
        /\ \A o \in Ops : Pending(o)' => Pending(o)
    BY <1>5 DEF ParkFlushesOnly, AfterMark, Marking, Pending, Pushing
  <2>2. PhaseInv'
    BY <1>5 DEF ParkFlushesOnly, IInv, PhaseInv, SlabEmpty, AfterMark, Marking
  <2> QED BY <1>t, <2>1, <2>2, QuietStep
<1>6. CASE Dispatch
  <2>1. /\ UNCHANGED <<life, owner, idx, held, fut, sq, inflight, cq>>
        /\ AfterMark => AfterMark'
        /\ \A o \in Ops : Pending(o)' => Pending(o)
    BY <1>6 DEF Dispatch, AfterMark, Marking, Pending, Pushing
  <2>2. PhaseInv'
    BY <1>6 DEF Dispatch, IInv, PhaseInv, SlabEmpty, AfterMark, Marking
  <2> QED BY <1>t, <2>1, <2>2, QuietStep
<1>7. CASE DropDriver
  <2>1. /\ UNCHANGED <<life, owner, idx, held, fut, sq, inflight, cq>>
        /\ AfterMark => AfterMark'
        /\ \A o \in Ops : Pending(o)' => Pending(o)
    BY <1>7 DEF DropDriver, AfterMark, Marking, Pending, Pushing
  <2>2. PhaseInv'
    BY <1>7 DEF DropDriver, IInv, PhaseInv, SlabEmpty, AfterMark, Marking
  <2> QED BY <1>t, <2>1, <2>2, QuietStep
<1>8. CASE FlushSome
  <2>1. /\ UNCHANGED <<life, owner, idx, held, fut, sq, inflight, cq>>
        /\ AfterMark => AfterMark'
        /\ \A o \in Ops : Pending(o)' => Pending(o)
    BY <1>8 DEF FlushSome, AfterMark, Marking, Pending, Pushing
  <2>2. PhaseInv'
    BY <1>8 DEF FlushSome, IInv, PhaseInv, SlabEmpty, AfterMark, Marking
  <2> QED BY <1>t, <2>1, <2>2, QuietStep
<1>9. CASE FlushDone
  <2>1. /\ UNCHANGED <<life, owner, idx, held, fut, sq, inflight, cq>>
        /\ AfterMark => AfterMark'
        /\ \A o \in Ops : Pending(o)' => Pending(o)
    BY <1>9 DEF FlushDone, AfterMark, Marking, Pending, Pushing
  <2>2. PhaseInv'
    BY <1>9 DEF FlushDone, IInv, PhaseInv, SlabEmpty, AfterMark, Marking
  <2> QED BY <1>t, <2>1, <2>2, QuietStep
<1>10. CASE CancelSkip
  <2>1. /\ UNCHANGED <<life, owner, idx, held, fut, sq, inflight, cq>>
        /\ AfterMark => AfterMark'
        /\ \A o \in Ops : Pending(o)' => Pending(o)
    BY <1>10 DEF CancelSkip, AfterMark, Marking, Pending, Pushing
  <2>2. PhaseInv'
    BY <1>10 DEF CancelSkip, IInv, PhaseInv, SlabEmpty, AfterMark, Marking
  <2> QED BY <1>t, <2>1, <2>2, QuietStep
<1>11. CASE CancelFails
  <2>1. /\ UNCHANGED <<life, owner, idx, held, fut, sq, inflight, cq>>
        /\ AfterMark => AfterMark'
        /\ \A o \in Ops : Pending(o)' => Pending(o)
    BY <1>11 DEF CancelFails, AfterMark, Marking, Pending, Pushing
  <2>2. PhaseInv'
    BY <1>11 DEF CancelFails, IInv, PhaseInv, SlabEmpty, AfterMark, Marking
  <2> QED BY <1>t, <2>1, <2>2, QuietStep
<1>12. CASE CancelDone
  <2>1. /\ UNCHANGED <<life, owner, idx, held, fut, sq, inflight, cq>>
        /\ AfterMark => AfterMark'
        /\ \A o \in Ops : Pending(o)' => Pending(o)
    BY <1>12 DEF CancelDone, AfterMark, Marking, Pending, Pushing
  <2>2. PhaseInv'
    BY <1>12 DEF CancelDone, IInv, PhaseInv, SlabEmpty, AfterMark, Marking
  <2> QED BY <1>t, <2>1, <2>2, QuietStep
<1>13. CASE ReapWaitFails
  <2>1. /\ UNCHANGED <<life, owner, idx, held, fut, sq, inflight, cq>>
        /\ AfterMark => AfterMark'
        /\ \A o \in Ops : Pending(o)' => Pending(o)
    BY <1>13 DEF ReapWaitFails, AfterMark, Marking, Pending, Pushing
  <2>2. PhaseInv'
    BY <1>13 DEF ReapWaitFails, IInv, PhaseInv, SlabEmpty, AfterMark, Marking
  <2> QED BY <1>t, <2>1, <2>2, QuietStep
<1>14. CASE ReapWaitErr
  <2>1. /\ UNCHANGED <<life, owner, idx, held, fut, sq, inflight, cq>>
        /\ AfterMark => AfterMark'
        /\ \A o \in Ops : Pending(o)' => Pending(o)
    BY <1>14 DEF ReapWaitErr, AfterMark, Marking, Pending, Pushing
  <2>2. PhaseInv'
    BY <1>14 DEF ReapWaitErr, IInv, PhaseInv, SlabEmpty, AfterMark, Marking
  <2> QED BY <1>t, <2>1, <2>2, QuietStep
<1>15. CASE ReapNext
  <2>1. /\ UNCHANGED <<life, owner, idx, held, fut, sq, inflight, cq>>
        /\ AfterMark => AfterMark'
        /\ \A o \in Ops : Pending(o)' => Pending(o)
    BY <1>15 DEF ReapNext, AfterMark, Marking, Pending, Pushing
  <2>2. PhaseInv'
    BY <1>15 DEF ReapNext, IInv, PhaseInv, SlabEmpty, AfterMark, Marking
  <2> QED BY <1>t, <2>1, <2>2, QuietStep
<1>16. CASE ReapDone
  <2>1. /\ UNCHANGED <<life, owner, idx, held, fut, sq, inflight, cq>>
        /\ AfterMark => AfterMark'
        /\ \A o \in Ops : Pending(o)' => Pending(o)
    BY <1>16 DEF ReapDone, AfterMark, Marking, Pending, Pushing
  <2>2. PhaseInv'
    BY <1>16 DEF ReapDone, IInv, PhaseInv, SlabEmpty, AfterMark, Marking
  <2> QED BY <1>t, <2>1, <2>2, QuietStep
<1>17. CASE SubmitEnter
  <2>1. /\ Take /\ UNCHANGED <<life, owner, idx, held, fut>>
        /\ AfterMark => AfterMark'
        /\ \A o \in Ops : Pending(o)' => Pending(o)
    BY <1>17 DEF SubmitEnter, AfterMark, Marking, Pending, Pushing
  <2>2. PhaseInv'
    BY <1>17 DEF SubmitEnter, IInv, PhaseInv, SlabEmpty, AfterMark, Marking
  <2> QED BY <1>t, <2>1, <2>2, TakeStep
<1>18. CASE EnteredTake
  <2>1. /\ Take /\ UNCHANGED <<life, owner, idx, held, fut>>
        /\ AfterMark => AfterMark'
        /\ \A o \in Ops : Pending(o)' => Pending(o)
    BY <1>18 DEF EnteredTake, AfterMark, Marking, Pending, Pushing
  <2>2. PhaseInv'
    BY <1>18 DEF EnteredTake, IInv, PhaseInv, SlabEmpty, AfterMark, Marking
  <2> QED BY <1>t, <2>1, <2>2, TakeStep
<1>19. CASE Park
  <2>1. /\ Take /\ UNCHANGED <<life, owner, idx, held, fut>>
        /\ AfterMark => AfterMark'
        /\ \A o \in Ops : Pending(o)' => Pending(o)
    BY <1>19 DEF Park, AfterMark, Marking, Pending, Pushing
  <2>2. PhaseInv'
    BY <1>19 DEF Park, IInv, PhaseInv, SlabEmpty, AfterMark, Marking
  <2> QED BY <1>t, <2>1, <2>2, TakeStep
<1>20. CASE CancelFull
  <2>1. /\ Take /\ UNCHANGED <<life, owner, idx, held, fut>>
        /\ AfterMark => AfterMark'
        /\ \A o \in Ops : Pending(o)' => Pending(o)
    BY <1>20 DEF CancelFull, AfterMark, Marking, Pending, Pushing
  <2>2. PhaseInv'
    BY <1>20 DEF CancelFull, IInv, PhaseInv, SlabEmpty, AfterMark, Marking
  <2> QED BY <1>t, <2>1, <2>2, TakeStep
<1>21. CASE ReapWait
  <2>1. /\ UNCHANGED <<life, owner, idx, held, fut>>
        /\ Take \/ UNCHANGED <<sq, inflight, cq>>
        /\ AfterMark => AfterMark'
        /\ \A o \in Ops : Pending(o)' => Pending(o)
    BY <1>21 DEF ReapWait, AfterMark, Marking, Pending, Pushing
  <2>2. PhaseInv'
    BY <1>21 DEF ReapWait, IInv, PhaseInv, SlabEmpty, AfterMark, Marking
  <2> QED BY <1>t, <2>1, <2>2, TakeStep, QuietStep
<1>22. CASE Push
  <2>1. /\ sq' = Append(sq, pend) /\ pend \in SQE
        /\ ~pend.cancel => Pending(pend.op)
        /\ \A o \in Ops : ~Pending(o)'
        /\ UNCHANGED <<life, owner, idx, held, inflight, cq>>
        /\ ~AfterMark
    BY <1>22 DEF Push, AfterMark, Marking, Pending, Pushing, IInv, TypeOK, ControlType
  <2>2. PhaseInv'
    BY <1>22 DEF Push, PhaseInv, AfterMark, Marking
  <2>3. \A o \in Ops : fut'[o] = fut[o] \/ (fut'[o] = "alive" /\ fut[o] = "submitting")
    <3> SUFFICES ASSUME NEW o \in Ops PROVE fut'[o] = fut[o] \/ (fut'[o] = "alive" /\ fut[o] = "submitting")
      OBVIOUS
    <3>1. CASE ~pend.cancel /\ pend.op = o
      <4>1. fut[o] = "submitting"
        BY <2>1, <3>1 DEF IInv, PendOnce
      <4> QED BY <1>22, <3>1, <4>1 DEF Push, IInv, TypeOK, FutureType
    <3>2. CASE ~(~pend.cancel /\ pend.op = o)
      BY <1>22, <3>2 DEF Push, IInv, TypeOK, FutureType
    <3> QED BY <3>1, <3>2
  <2> QED BY <1>t, <2>1, <2>2, <2>3, PushStep
<1>23. CASE CancelPush
  <2> DEFINE e == [op |-> None, cancel |-> TRUE, ud |-> cur]
  <2>1. e \in SQE /\ e.cancel
    BY <1>23 DEF CancelPush, SQE, IInv, TypeOK, ControlType
  <2>2. /\ sq' = Append(sq, e)
        /\ \A o \in Ops : ~Pending(o)'
        /\ UNCHANGED <<life, owner, idx, held, fut, inflight, cq>>
        /\ AfterMark'
    BY <1>23 DEF CancelPush, AfterMark, Marking, Pending, Pushing
  <2>3. PhaseInv'
    BY <1>23 DEF CancelPush, IInv, PhaseInv, SlabEmpty, AfterMark, Marking
  <2> HIDE DEF e
  <2> QED BY <1>t, <2>1, <2>2, <2>3, PushStep
<1>24. CASE SubmitErr
  BY <1>t, <1>24, SubmitErrInv
<1>25. CASE DispatchOne
  BY <1>t, <1>25, DispatchOneInv
<1>26. CASE Mark
  BY <1>t, <1>26, MarkInv
<1>27. CASE ReapRemove
  BY <1>t, <1>27, ReapRemoveInv
<1>28. ASSUME NEW o \in Ops, NEW i \in Slots, Submit(o, i) PROVE IInv'
  BY <1>t, <1>28, SubmitInv
<1>29. ASSUME NEW o \in Ops, KMore(o) PROVE IInv'
  <2> DEFINE c == [op |-> o, ud |-> idx[o], more |-> TRUE, n |-> posted[o] + 1]
  <2>1. c \in CQE /\ c.op = o /\ c.ud = idx[o] /\ c.more = TRUE
    BY DEF CQE, IInv, TypeOK, FutureType
  <2>2. /\ Post(c) /\ o \in inflight
        /\ inflight' \subseteq inflight /\ (o \in inflight' => TRUE)
        /\ UNCHANGED <<life, owner, idx, held, fut, sq, control>>
    BY <1>29 DEF KMore
  <2> HIDE DEF c
  <2> QED BY <1>t, <2>1, <2>2, PostStep
<1>30. ASSUME NEW o \in Ops, KFinal(o) PROVE IInv'
  <2> DEFINE c == [op |-> o, ud |-> idx[o], more |-> FALSE, n |-> posted[o] + 1]
  <2>1. c \in CQE /\ c.op = o /\ c.ud = idx[o] /\ c.more = FALSE
    BY DEF CQE, IInv, TypeOK, FutureType
  <2>2. /\ Post(c) /\ o \in inflight
        /\ inflight' \subseteq inflight /\ (o \in inflight' => FALSE)
        /\ UNCHANGED <<life, owner, idx, held, fut, sq, control>>
    BY <1>30 DEF KFinal
  <2> HIDE DEF c
  <2> QED BY <1>t, <2>1, <2>2, PostStep
<1>31. ASSUME NEW o \in Ops, Cancel(o) PROVE IInv'
  <2>1. /\ UNCHANGED <<life, owner, idx, held, fut, sq, inflight, cq>>
        /\ ~AfterMark /\ pend'.cancel
    BY <1>31 DEF Cancel, AfterMark, Marking
  <2>2. \A p \in Ops : ~Pending(p)'
    BY <2>1 DEF Pending
  <2>3. PhaseInv'
    BY <1>31 DEF Cancel, PhaseInv, AfterMark, Marking
  <2> QED BY <1>t, <2>1, <2>2, <2>3, QuietStep
<1>32. ASSUME NEW o \in Ops, PollCompleted(o) PROVE IInv'
  BY <1>t, <1>32, FinishInv DEF PollCompleted, Expecting
<1>33. ASSUME NEW o \in Ops, PollFinal(o) PROVE IInv'
  <2> DEFINE s == life[idx[o]].cqes
  <2>1. PICK k \in 1..Len(s) : ~s[k].more /\ Finish(o, k)
    BY <1>33 DEF PollFinal
  <2>2. CanPoll(o) /\ life[idx[o]].st = "CompletionList"
    BY <1>33 DEF PollFinal
  <2>3. s \in Seq(CQE) /\ AllButLastMore(s)
    BY <2>2, LifecycleFields DEF CanPoll, IInv, TypeOK, FutureType, SlabType, ListInv
  <2>4. ~Last(s).more
    <3>1. k = Len(s)
      BY <2>1, <2>3 DEF AllButLastMore
    <3> QED BY <2>1, <3>1 DEF Last
  <2>5. ~Expecting(idx[o])
    BY <2>2, <2>4 DEF Expecting
  <2> QED BY <1>t, <2>1, <2>2, <2>5, FinishInv
<1>34. ASSUME NEW o \in Ops, Drop(o) PROVE IInv'
  BY <1>t, <1>34, DropInv
<1>35. ASSUME NEW o \in Ops, LateDrop(o) PROVE IInv'
  BY <1>t, <1>35, LateDropInv
<1>36. ASSUME NEW o \in Ops, NEW w \in Wakers, PollPending(o, w) PROVE IInv'
  <2>1. /\ CanPoll(o) /\ life' = [life EXCEPT ![idx[o]] = Waiting(w)]
        /\ UNCHANGED <<fut, held, idx, rings, control, owner>>
    BY <1>36 DEF PollPending
  <2>2. Waiting(w).st = "Waiting"
    BY DEF Waiting
  <2> QED BY <1>t, <2>1, <2>2, PollInv
<1>37. ASSUME NEW o \in Ops, NEW w \in Wakers, PollDrained(o, w) PROVE IInv'
  <2>1. /\ CanPoll(o) /\ life' = [life EXCEPT ![idx[o]] = Waiting(w)]
        /\ UNCHANGED <<fut, held, idx, rings, control, owner>>
    BY <1>37 DEF PollDrained
  <2>2. Waiting(w).st = "Waiting"
    BY DEF Waiting
  <2> QED BY <1>t, <2>1, <2>2, PollInv
<1>38. ASSUME NEW o \in Ops, NEW w \in Wakers, NEW k \in 1..(MaxMore + 1), PollYield(o, w, k) PROVE IInv'
  BY <1>t, <1>38, PollYieldInv
<1>39. CASE UNCHANGED vars
  <2>1. /\ UNCHANGED <<life, owner, idx, held, fut, sq, inflight, cq>>
        /\ AfterMark <=> AfterMark'
        /\ \A o \in Ops : Pending(o)' <=> Pending(o)
    BY <1>39 DEF vars, AfterMark, Marking, Pending, Pushing
  <2>2. PhaseInv'
    BY <1>39 DEF vars, IInv, PhaseInv, SlabEmpty, AfterMark, Marking
  <2> QED BY <1>t, <2>1, <2>2, QuietStep
<1> QED
  BY <1>1, <1>2, <1>3, <1>4, <1>5, <1>6, <1>7, <1>8, <1>9, <1>10, <1>11, <1>12, <1>13,
     <1>14, <1>15, <1>16, <1>17, <1>18, <1>19, <1>20, <1>21, <1>22, <1>23, <1>24, <1>25,
     <1>26, <1>27, <1>28, <1>29, <1>30, <1>31, <1>32, <1>33, <1>34, <1>35, <1>36, <1>37,
     <1>38, <1>39
     DEF Next, Kernel, InCall, Poll, Shutdown, Stopped

\* The initial state satisfies the invariant.
LEMMA SafetyInit == Init => IInv
<1> SUFFICES ASSUME Init PROVE IInv
  OBVIOUS
<1>1. TypeOK
  BY TypeInit
<1>2. Len(sq) = 0 /\ Len(cq) = 0
  BY EmptySeq DEF Init
<1>3. \A o \in Ops : ~Outstanding(o)
  BY <1>2 DEF Init, Outstanding, Pending, Pushing, Queued, Answered
<1>4. RouteInv /\ PendOnce
  BY <1>3 DEF RouteInv, PendOnce, Outstanding
<1>5. QueuedOnce /\ FinalOnce
  BY <1>2, <1>3 DEF QueuedOnce, FinalOnce, Outstanding
<1>6. FutInv
  BY DEF Init, FutInv
<1>7. ListInv /\ PhaseInv
  BY DEF Init, ListInv, PhaseInv, AfterMark, Marking, Vacant
<1> QED BY <1>1, <1>4, <1>5, <1>6, <1>7 DEF IInv

\* What the invariant means for the callers of the driver.
LEMMA SafetyFollows == IInv => DataHeld /\ FutureOwnsSlot /\ CompletionsRouted /\ ShutdownDrains
<1> SUFFICES ASSUME IInv PROVE DataHeld /\ FutureOwnsSlot /\ CompletionsRouted /\ ShutdownDrains
  OBVIOUS
<1>1. \A o \in Ops : InKernel(o) => Live(o)
  BY DEF InKernel, IInv, RouteInv, Outstanding
<1>2. DataHeld
  <2> SUFFICES ASSUME NEW o \in Ops, InKernel(o), ~AfterMark, ~held[o]
               PROVE  \E i \in Slots : life[i] = Ignored(o)
    BY DEF DataHeld
  <2>1. idx[o] \in Slots /\ life[idx[o]].st = "Ignored" /\ life[idx[o]].data = o
    BY <1>1 DEF Live
  <2>2. life[idx[o]] = Ignored(o)
    BY <2>1, LifecycleFields DEF IInv, TypeOK, SlabType
  <2> QED BY <2>1, <2>2
<1>3. FutureOwnsSlot
  BY DEF IInv, FutInv, FutureOwnsSlot
<1>4. CompletionsRouted
  <2> SUFFICES ASSUME NEW k \in 1..Len(cq), cq[k].op # None
               PROVE  /\ cq[k].ud \in Slots
                      /\ owner[cq[k].ud] = cq[k].op
                      /\ Expecting(cq[k].ud)
                      /\ \A j \in 1..(k - 1) : cq[j].op = cq[k].op => cq[j].more
    BY DEF CompletionsRouted
  <2>1. cq[k] \in CQE
    BY DEF IInv, TypeOK, RingType
  <2>2. PICK f \in Ops : f = cq[k].op
    BY <2>1 DEF CQE
  <2>3. Live(f)
    BY <2>2 DEF IInv, RouteInv, Outstanding, Answered
  <2> QED BY <2>2, <2>3 DEF IInv, FinalOnce, Live
<1>5. ShutdownDrains
  <2> SUFFICES ASSUME pc = "gone", NEW o \in Ops, InKernel(o) PROVE FALSE
    BY DEF ShutdownDrains
  <2> QED BY <1>1 DEF IInv, PhaseInv, SlabEmpty, Live, Expecting, Vacant
<1> QED BY <1>2, <1>3, <1>4, <1>5

(***************************************************************************)
(* In every execution, with any number of operations, slab keys and ring   *)
(* entries and any failures of io_uring_enter:                             *)
(***************************************************************************)

\* The invariant holds throughout.
LEMMA DriverInvariant == Spec => []IInv
<1>1. Init => IInv
  BY SafetyInit
<1>2. IInv /\ [Next]_vars => IInv'
  BY SafetyNext
<1> QED BY <1>1, <1>2, PTL DEF Spec

\* The kernel never works on freed data while the runtime is up (Drop for Op,
\* Lifecycle::Ignored).
THEOREM DriverSafe == Spec => []DataHeld
<1>1. IInv => DataHeld
  BY SafetyFollows
<1> QED BY <1>1, DriverInvariant, PTL

\* A live future always finds its own entry in the slab (Op::poll, poll_op).
THEOREM FuturesOwnSlots == Spec => []FutureOwnsSlot
<1>1. IInv => FutureOwnsSlot
  BY SafetyFollows
<1> QED BY <1>1, DriverInvariant, PTL

\* A completion in the ring always meets the entry of its operation, which still
\* expects it (Driver::dispatch_completions, Lifecycle::complete).
THEOREM CompletionsMeetTheirOps == Spec => []CompletionsRouted
<1>1. IInv => CompletionsRouted
  BY SafetyFollows
<1> QED BY <1>1, DriverInvariant, PTL

\* The driver is gone only when the kernel is done (Drop for Driver).
THEOREM DroppedDriverIsDrained == Spec => []ShutdownDrains
<1>1. IInv => ShutdownDrains
  BY SafetyFollows
<1> QED BY <1>1, DriverInvariant, PTL

-----------------------------------------------------------------------------
(* Wake-ups.                                                               *)

\* A stored waker is that of the last poll; a result that is waiting was
\* announced to it.
WakeInv ==
  ~AfterMark => \A o \in Ops :
    /\ fut[o] = "new" => waker[o] = None
    /\ held[o] =>
         /\ life[idx[o]].st = "Waiting" => life[idx[o]].waker = waker[o]
         /\ life[idx[o]].st = "Submitted" => waker[o] = None
         /\ life[idx[o]].st \in {"Completed", "CompletionList"} /\ waker[o] # None => notified[o]

\* The steps that are not past the marking pass of Drop for Driver: those that only
\* move the thread, and those that touch the rings, the slab or a future.
Moves ==
  /\ UNCHANGED <<life, futures, sq, inflight, cancelled, cq, posted, asked, pend>>
  /\ Pushing' => Pushing

Takes ==
  /\ Take
  /\ UNCHANGED <<life, futures, posted, asked, pend>>
  /\ Pushing' => Pushing

LEMMA BeforeMark ==
  ASSUME IInv, [Next]_vars, ~AfterMark'
  PROVE  /\ ~AfterMark
         /\ \/ Moves \/ Kernel \/ Takes
            \/ Push \/ SubmitErr \/ DispatchOne
            \/ \E o \in Ops : (\E i \in Slots : Submit(o, i)) \/ Cancel(o) \/ Poll(o) \/ Drop(o)
<1> USE DEF AfterMark, Marking, Pushing, rings, control
<1>c. /\ submitRet \in {"run", "push", "flush", "cancel", "reap"}
      /\ dispRet \in {"run", "submit", "reap"}
      /\ pc = "submit" => submitRet \in {"push", "flush"}
  BY DEF IInv, TypeOK, ControlType, PhaseInv
<1>1. ASSUME Kernel PROVE ~AfterMark
  BY <1>1 DEF Kernel, KMore, KFinal
<1>2. CASE Push
  BY <1>2 DEF Push
<1>3. ASSUME PushFull \/ SubmitBusy \/ EnteredReturn \/ DispatchEnd PROVE ~AfterMark /\ Moves
  BY <1>3, <1>c DEF PushFull, SubmitBusy, EnteredReturn, DispatchEnd, Moves
<1>4. ASSUME SubmitEnter \/ EnteredTake \/ Park PROVE ~AfterMark /\ Takes
  BY <1>4, <1>c DEF SubmitEnter, EnteredTake, Park, Takes
<1>5. CASE SubmitErr
  BY <1>5 DEF SubmitErr
<1>6. CASE DispatchOne
  BY <1>6 DEF DispatchOne
<1>7. ASSUME ParkFlushesOnly \/ Dispatch \/ DropDriver PROVE ~AfterMark /\ Moves
  BY <1>7 DEF ParkFlushesOnly, Dispatch, DropDriver, Moves
<1>8. ASSUME NEW o \in Ops, NEW i \in Slots, Submit(o, i) PROVE ~AfterMark
  BY <1>8 DEF Submit
<1>9. ASSUME NEW o \in Ops, Cancel(o) PROVE ~AfterMark
  BY <1>9 DEF Cancel
<1>10. ASSUME NEW o \in Ops, Poll(o) PROVE ~AfterMark
  BY <1>10 DEF Poll, PollPending, PollDrained, PollYield, PollCompleted, PollFinal, CanPoll
<1>11. ASSUME NEW o \in Ops, Drop(o) PROVE ~AfterMark
  BY <1>11 DEF Drop
<1>12. ASSUME NEW o \in Ops, LateDrop(o) PROVE FALSE
  BY <1>12 DEF LateDrop
<1>13. ASSUME FlushSome \/ FlushDone PROVE ~AfterMark /\ Moves
  BY <1>13 DEF FlushSome, FlushDone, Moves
<1>14. ASSUME Mark \/ CancelSkip \/ CancelPush \/ CancelFull \/ CancelFails \/ CancelDone PROVE FALSE
  BY <1>14 DEF Mark, CancelSkip, CancelPush, CancelFull, CancelFails, CancelDone
<1>15. ASSUME ReapWait \/ ReapWaitFails \/ ReapWaitErr \/ ReapRemove \/ ReapNext \/ ReapDone PROVE FALSE
  BY <1>15 DEF ReapWait, ReapWaitFails, ReapWaitErr, ReapRemove, ReapNext, ReapDone
<1>16. ASSUME UNCHANGED vars PROVE ~AfterMark /\ Moves
  BY <1>16 DEF vars, Moves
<1> QED
  BY <1>1, <1>2, <1>3, <1>4, <1>5, <1>6, <1>7, <1>8, <1>9, <1>10, <1>11, <1>12, <1>13, <1>14,
     <1>15, <1>16
     DEF Next, InCall, Shutdown, Stopped

\* A poll or a drop touches its own entry, and not the data of the others.
LEMMA OwnSlotOnly ==
  ASSUME IInv, NEW o \in Ops, held[o], NEW l, life' = [life EXCEPT ![idx[o]] = l]
  PROVE  /\ life'[idx[o]] = l
         /\ \A p \in Ops \ {o} : held[p] => life'[idx[p]] = life[idx[p]]
<1>1. idx[o] \in Slots /\ life \in [Slots -> LifecycleType]
      /\ \A p \in Ops : held[p] => idx[p] \in Slots
  BY DEF IInv, TypeOK, FutureType, SlabType
<1>2. \A p \in Ops \ {o} : held[p] => idx[p] # idx[o]
  BY OwnEntries
<1> QED BY <1>1, <1>2

\* A future that polls or is dropped leaves a stored waker, an announced result or
\* nothing.
LEMMA WakeSlot ==
  ASSUME IInv, WakeInv, ~AfterMark, NEW o \in Ops, held[o],
         NEW l, life' = [life EXCEPT ![idx[o]] = l], idx' = idx,
         \A p \in Ops \ {o} : /\ fut'[p] = fut[p] /\ held'[p] = held[p]
                              /\ waker'[p] = waker[p] /\ notified'[p] = notified[p],
         fut'[o] # "new",
         held'[o] => /\ l.st = "Waiting" => l.waker = waker'[o]
                     /\ l.st # "Submitted"
                     /\ l.st \in {"Completed", "CompletionList"} => notified'[o]
  PROVE  WakeInv'
<1>1. /\ life'[idx[o]] = l
      /\ \A p \in Ops \ {o} : held[p] => life'[idx[p]] = life[idx[p]]
  BY OwnSlotOnly
<1> QED BY <1>1 DEF WakeInv

\* Every step keeps it.
LEMMA WakeNext == IInv /\ WakeInv /\ [Next]_vars => WakeInv'
<1> SUFFICES ASSUME IInv, WakeInv, [Next]_vars, ~AfterMark' PROVE WakeInv'
  BY DEF WakeInv
<1>0. ~AfterMark
  BY BeforeMark
<1> USE DEF futures
<1>1. CASE Moves \/ Kernel \/ Takes \/ \E o \in Ops : Cancel(o)
  <2>1. UNCHANGED <<life, futures>>
    BY <1>1 DEF Moves, Takes, Kernel, KMore, KFinal, Cancel
  <2> QED BY <1>0, <2>1 DEF WakeInv
<1>2. CASE Push
  <2>1. \A o \in Ops : fut'[o] = "new" => fut[o] = "new"
    BY <1>2 DEF Push, IInv, TypeOK, FutureType
  <2> QED BY <1>0, <1>2, <2>1 DEF Push, WakeInv
<1>3. CASE SubmitErr
  <2>1. \A o \in Ops : (fut'[o] = "new" => fut[o] = "new") /\ (held'[o] => held[o])
    BY <1>3 DEF SubmitErr, IInv, TypeOK, FutureType
  <2> QED BY <1>0, <1>3, <2>1 DEF SubmitErr, WakeInv
<1>4. CASE DispatchOne
  <2>1. UNCHANGED <<fut, held, idx, waker>>
    BY <1>4 DEF DispatchOne
  <2>2. CASE UNCHANGED <<life, notified>>
    BY <1>0, <2>1, <2>2 DEF WakeInv
  <2>3. CASE Head(cq).ud # CancelUD /\ Complete(Head(cq).ud, Head(cq))
    <3> DEFINE i == Head(cq).ud  c == Head(cq)
    <3>1. \A o \in Ops : notified[o] => notified'[o]
      BY <2>3 DEF Complete, Wake
    <3> SUFFICES ASSUME NEW o \in Ops
                 PROVE  /\ fut'[o] = "new" => waker'[o] = None
                        /\ held'[o] =>
                             /\ life'[idx'[o]].st = "Waiting" => life'[idx'[o]].waker = waker'[o]
                             /\ life'[idx'[o]].st = "Submitted" => waker'[o] = None
                             /\ (life'[idx'[o]].st \in {"Completed", "CompletionList"} /\ waker'[o] # None)
                                  => notified'[o]
      BY DEF WakeInv
    <3>2. life \in [Slots -> LifecycleType] /\ (held[o] => idx[o] \in Slots)
      BY DEF IInv, TypeOK, SlabType, FutureType
    <3>3. CASE held[o] /\ idx[o] = i /\ life[i].st = "Submitted"
      BY <1>0, <2>1, <2>3, <3>2, <3>3 DEF WakeInv, Complete, Completed, CompletionList
    <3>4. CASE held[o] /\ idx[o] = i /\ life[i].st = "Waiting"
      <4>1. Wake(life[i].waker) /\ life[i].waker = waker[o]
        BY <1>0, <2>3, <3>4 DEF WakeInv, Complete
      <4>2. notified'[o]
        BY <4>1 DEF Wake
      <4>3. life'[i].st \in {"Completed", "CompletionList"}
        BY <2>3, <3>2, <3>4 DEF Complete, Completed, CompletionList
      <4> QED BY <1>0, <2>1, <3>4, <4>2, <4>3 DEF WakeInv
    <3>5. CASE held[o] /\ idx[o] = i /\ life[i].st = "CompletionList"
      <4>1. life'[i].st = "CompletionList"
        BY <2>3, <3>2, <3>5 DEF Complete, CompletionList
      <4> QED BY <1>0, <2>1, <3>1, <3>5, <4>1 DEF WakeInv
    <3>6. CASE held[o] /\ idx[o] = i /\ life[i].st = "Ignored"
      BY <1>0, <3>6 DEF IInv, FutInv
    <3>7. CASE held[o] /\ idx[o] # i
      <4>1. life'[idx[o]] = life[idx[o]]
        BY <2>3, <3>2, <3>7 DEF Complete
      <4> QED BY <1>0, <2>1, <3>1, <3>7, <4>1 DEF WakeInv
    <3>8. CASE ~held[o]
      BY <1>0, <2>1, <3>8 DEF WakeInv
    <3> QED BY <2>3, <3>3, <3>4, <3>5, <3>6, <3>7, <3>8 DEF Complete
  <2> QED BY <1>4, <2>2, <2>3 DEF DispatchOne
<1>5. ASSUME NEW o \in Ops, NEW i \in Slots, Submit(o, i) PROVE WakeInv'
  <2>1. /\ fut[o] = "new" /\ life[i] = Vacant /\ UNCHANGED <<waker, notified>>
        /\ life' = [life EXCEPT ![i] = Submitted] /\ fut' = [fut EXCEPT ![o] = "submitting"]
        /\ held' = [held EXCEPT ![o] = TRUE] /\ idx' = [idx EXCEPT ![o] = i]
    BY <1>5 DEF Submit
  <2>2. /\ life \in [Slots -> LifecycleType] /\ fut \in [Ops -> {"new", "submitting", "alive", "gone"}]
        /\ held \in [Ops -> BOOLEAN] /\ idx \in [Ops -> Nat]
        /\ \A p \in Ops : held[p] => idx[p] \in Slots
    BY DEF IInv, TypeOK, SlabType, FutureType
  <2>3. \A p \in Ops : held[p] => idx[p] # i
    BY <1>0, <2>1 DEF IInv, FutInv, Vacant
  <2>4. waker[o] = None
    BY <1>0, <2>1 DEF WakeInv
  <2>5. life'[i].st = "Submitted" /\ idx'[o] = i /\ fut'[o] # "new"
    BY <2>1, <2>2 DEF Submitted
  <2>6. \A p \in Ops \ {o} : /\ fut'[p] = fut[p] /\ held'[p] = held[p] /\ idx'[p] = idx[p]
                             /\ held[p] => life'[idx[p]] = life[idx[p]]
    BY <2>1, <2>2, <2>3
  <2> QED BY <1>0, <2>1, <2>4, <2>5, <2>6 DEF WakeInv
<1>6. ASSUME NEW o \in Ops, Poll(o) PROVE WakeInv'
  <2>0. held[o] /\ fut[o] = "alive"
    BY <1>6 DEF Poll, PollPending, PollDrained, PollYield, PollCompleted, PollFinal, CanPoll
  <2>t. /\ waker \in [Ops -> Wakers \cup {None}] /\ notified \in [Ops -> BOOLEAN]
        /\ held \in [Ops -> BOOLEAN]
    BY DEF IInv, TypeOK, FutureType
  <2>1. ASSUME NEW w \in Wakers, PollPending(o, w) \/ PollDrained(o, w) PROVE WakeInv'
    <3>1. /\ life' = [life EXCEPT ![idx[o]] = Waiting(w)] /\ UNCHANGED <<fut, held, idx>>
          /\ waker' = [waker EXCEPT ![o] = w] /\ notified' = [notified EXCEPT ![o] = FALSE]
      BY <2>1 DEF PollPending, PollDrained
    <3>2. Waiting(w).st = "Waiting" /\ Waiting(w).waker = w
      BY DEF Waiting
    <3>3. /\ waker'[o] = w
          /\ \A p \in Ops \ {o} : waker'[p] = waker[p] /\ notified'[p] = notified[p]
      BY <3>1, <2>t
    <3> QED BY <1>0, <2>0, <3>1, <3>2, <3>3, WakeSlot
  <2>2. ASSUME NEW w \in Wakers, NEW k \in 1..(MaxMore + 1), PollYield(o, w, k) PROVE WakeInv'
    <3> DEFINE rest == SubSeq(life[idx[o]].cqes, k + 1, Len(life[idx[o]].cqes))
               l == IF rest # <<>> THEN CompletionList(rest) ELSE Waiting(w)
    <3>1. /\ life' = [life EXCEPT ![idx[o]] = l] /\ UNCHANGED <<fut, held, idx>>
          /\ waker' = [waker EXCEPT ![o] = w] /\ notified' = [notified EXCEPT ![o] = rest # <<>>]
      BY <2>2 DEF PollYield
    <3>2. /\ l.st = "Waiting" => l.waker = w
          /\ l.st # "Submitted" /\ l.st # "Completed"
          /\ l.st = "CompletionList" => rest # <<>>
      BY DEF Waiting, CompletionList
    <3> HIDE DEF rest, l
    <3>3. /\ waker'[o] = w /\ (notified'[o] <=> rest # <<>>)
          /\ \A p \in Ops \ {o} : waker'[p] = waker[p] /\ notified'[p] = notified[p]
      BY <3>1, <2>t
    <3> QED BY <1>0, <2>0, <3>1, <3>2, <3>3, WakeSlot
  <2>3. ASSUME NEW n, Finish(o, n) PROVE WakeInv'
    <3>1. /\ life' = [life EXCEPT ![idx[o]] = Vacant] /\ UNCHANGED <<fut, idx>>
          /\ waker' = [waker EXCEPT ![o] = None] /\ notified' = [notified EXCEPT ![o] = FALSE]
          /\ held' = [held EXCEPT ![o] = FALSE]
      BY <2>3 DEF Finish
    <3>3. /\ ~held'[o]
          /\ \A p \in Ops \ {o} : waker'[p] = waker[p] /\ notified'[p] = notified[p] /\ held'[p] = held[p]
      BY <3>1, <2>t
    <3> QED BY <1>0, <2>0, <3>1, <3>3, WakeSlot
  <2> QED BY <1>6, <2>1, <2>2, <2>3 DEF Poll, PollCompleted, PollFinal
<1>7. ASSUME NEW o \in Ops, Drop(o) PROVE WakeInv'
  <2>1. /\ life' = IF held[o] THEN [life EXCEPT ![idx[o]] = Removed(@, o)] ELSE life
        /\ waker' = [waker EXCEPT ![o] = None] /\ notified' = [notified EXCEPT ![o] = FALSE]
        /\ held' = [held EXCEPT ![o] = FALSE] /\ fut' = [fut EXCEPT ![o] = "gone"] /\ idx' = idx
    BY <1>7 DEF Drop
  <2>2. /\ ~held'[o] /\ fut'[o] = "gone"
        /\ \A p \in Ops \ {o} : waker'[p] = waker[p] /\ notified'[p] = notified[p] /\ held'[p] = held[p]
                                /\ fut'[p] = fut[p]
    BY <2>1 DEF IInv, TypeOK, FutureType
  <2>3. CASE held[o]
    <3>1. life' = [life EXCEPT ![idx[o]] = Removed(life[idx[o]], o)]
      BY <2>1, <2>3
    <3> QED BY <1>0, <2>1, <2>2, <2>3, <3>1, WakeSlot
  <2>4. CASE ~held[o]
    BY <1>0, <2>1, <2>2, <2>4 DEF WakeInv
  <2> QED BY <2>3, <2>4
<1> QED BY <1>1, <1>2, <1>3, <1>4, <1>5, <1>6, <1>7, BeforeMark

\* A result that waits for a polled future was announced to the waker of its last
\* poll (Op::poll, Lifecycle::complete).
THEOREM NoWakeupIsLost == Spec => []NoLostWakeup
<1>1. Init => WakeInv
  BY DEF Init, WakeInv
<1>2. IInv /\ WakeInv /\ [Next]_vars => WakeInv'
  BY WakeNext
<1>3. WakeInv => NoLostWakeup
  BY DEF WakeInv, NoLostWakeup
<1> QED BY <1>1, <1>2, <1>3, DriverInvariant, PTL DEF Spec

-----------------------------------------------------------------------------
(* Cancellations.                                                          *)

\* No operation but e.op that the kernel takes before position k of the ring uses
\* the slab key that e names.
Sole(e, k) ==
  \A p \in Ops :
    /\ p # e.op
    /\ p \in inflight \/ \E j \in 1..(k - 1) : sq[j].op = p /\ ~sq[j].cancel
    => idx[p] # e.ud

Aims(e, k) == e.op \in asked /\ Sole(e, k)

\* A cancellation on its way aims at an operation whose owner asked for it.
CancelInv ==
  ~AfterMark =>
    /\ cancelled \subseteq asked
    /\ \A o \in asked : fut[o] # "new"
    /\ \A k \in 1..Len(sq) : sq[k].cancel => Aims(sq[k], k)
    /\ Pushing /\ pend.cancel => Aims(pend, Len(sq) + 1)

\* Every step keeps it.
LEMMA CancelNext == IInv /\ CancelInv /\ [Next]_vars => CancelInv'
<1> SUFFICES ASSUME IInv, CancelInv, [Next]_vars, ~AfterMark' PROVE CancelInv'
  BY DEF CancelInv
<1>0. /\ cancelled \subseteq asked
      /\ \A o \in asked : fut[o] # "new"
      /\ \A k \in 1..Len(sq) : sq[k].cancel => Aims(sq[k], k)
      /\ Pushing /\ pend.cancel => Aims(pend, Len(sq) + 1)
  BY BeforeMark DEF CancelInv
<1>l. sq \in Seq(SQE) /\ Len(sq) \in Nat /\ asked \subseteq Ops /\ pend \in SQE
  BY DEF IInv, TypeOK, RingType, FutureType, ControlType
<1>1. CASE Moves \/ Kernel \/ DispatchOne \/ \E o \in Ops : Poll(o) \/ Drop(o)
  <2> DEFINE Q == /\ UNCHANGED <<sq, idx, asked, pend>> /\ (Pushing' => Pushing)
                  /\ inflight' \subseteq inflight /\ cancelled' \subseteq cancelled
                  /\ \A o \in Ops : fut'[o] = "new" => fut[o] = "new"
  <2> USE DEF futures, rings, control, Pushing
  <2>1. ASSUME Moves \/ Kernel \/ DispatchOne PROVE Q
    BY <2>1 DEF Moves, Kernel, KMore, KFinal, DispatchOne
  <2>2. ASSUME NEW o \in Ops, Poll(o) PROVE Q
    BY <2>2 DEF Poll, PollPending, PollDrained, PollYield, PollCompleted, PollFinal, Finish
  <2>3. ASSUME NEW o \in Ops, Drop(o) PROVE Q
    BY <2>3 DEF Drop, IInv, TypeOK, FutureType
  <2>4. Q
    BY <1>1, <2>1, <2>2, <2>3
  <2> HIDE DEF Pushing
  <2>5. \A e, k : Sole(e, k) => Sole(e, k)'
    BY <2>4 DEF Sole
  <2> QED BY <1>0, <1>l, <2>4, <2>5 DEF CancelInv, Aims
<1>2. ASSUME Takes PROVE CancelInv'
  <2>0. Take /\ UNCHANGED <<idx, asked, pend, fut>> /\ (Pushing' => Pushing)
    BY <1>2 DEF Takes, futures
  <2>1. /\ Len(sq) \in Nat \ {0} /\ Len(sq') = Len(sq) - 1
        /\ Head(sq) = sq[1] /\ sq[1] \in SQE
        /\ \A k \in 1..Len(sq') : sq'[k] = sq[k + 1] /\ k + 1 \in 1..Len(sq)
    BY <2>0, TakeFacts DEF IInv, TypeOK
  <2>2. \A p \in inflight' : p \in inflight \/ (sq[1].op = p /\ ~sq[1].cancel)
    BY <2>0, <2>1 DEF Take
  <2>3. ASSUME NEW e, NEW k \in 1..Len(sq), Sole(e, k + 1) PROVE Sole(e, k)'
    <3> SUFFICES ASSUME NEW p \in Ops, p # e.op,
                        p \in inflight' \/ \E j \in 1..(k - 1) : sq'[j].op = p /\ ~sq'[j].cancel
                 PROVE  idx[p] # e.ud
      BY <2>0 DEF Sole
    <3>1. CASE p \in inflight
      BY <2>3, <3>1 DEF Sole
    <3>2. CASE sq[1].op = p /\ ~sq[1].cancel
      <4>1. 1 \in 1..((k + 1) - 1)
        OBVIOUS
      <4> QED BY <2>3, <3>2, <4>1 DEF Sole
    <3>3. ASSUME NEW j \in 1..(k - 1), sq'[j].op = p /\ ~sq'[j].cancel PROVE idx[p] # e.ud
      <4>1. j \in 1..Len(sq') /\ j + 1 \in 1..((k + 1) - 1)
        BY <2>1
      <4>2. sq'[j] = sq[j + 1]
        BY <2>1, <4>1
      <4> QED BY <2>3, <3>3, <4>1, <4>2 DEF Sole
    <3> QED BY <2>2, <3>1, <3>2, <3>3
  <2>4. cancelled' \subseteq asked
    <3>1. CASE sq[1].cancel
      <4>0. 1 \in 1..Len(sq)
        BY <2>1
      <4>1. sq[1].op \in asked /\ Sole(sq[1], 1)
        BY <1>0, <3>1, <4>0 DEF Aims
      <4>2. \A p \in inflight : idx[p] = sq[1].ud => p = sq[1].op
        BY <4>1 DEF Sole, IInv, TypeOK, RingType
      <4> QED BY <1>0, <2>0, <2>1, <3>1, <4>1, <4>2 DEF Take
    <3>2. CASE ~sq[1].cancel
      BY <1>0, <2>0, <2>1, <3>2 DEF Take
    <3> QED BY <3>1, <3>2
  <2>5. ASSUME NEW k \in 1..Len(sq'), sq'[k].cancel PROVE Aims(sq[k], k)'
    <3>1. sq'[k] = sq[k + 1] /\ k + 1 \in 1..Len(sq) /\ k \in 1..Len(sq)
      BY <2>1
    <3>2. Aims(sq[k + 1], k + 1)
      BY <1>0, <2>5, <3>1
    <3> DEFINE e == sq[k + 1]
    <3>3. PICK f : f = e
      OBVIOUS
    <3>4. Sole(f, k)' /\ sq'[k] = f /\ f.op \in asked
      BY <2>3, <3>1, <3>2, <3>3 DEF Aims
    <3> QED BY <2>0, <3>4 DEF Aims, Sole
  <2>6. Pushing' /\ pend'.cancel => Aims(pend, Len(sq) + 1)'
    <3> SUFFICES ASSUME Pushing', pend.cancel PROVE Aims(pend, Len(sq) + 1)'
      BY <2>0
    <3>1. Aims(pend, Len(sq) + 1)
      BY <1>0, <2>0
    <3>2. Len(sq) \in 1..Len(sq) /\ Len(sq') + 1 = Len(sq)
      BY <2>1
    <3> QED BY <2>0, <2>3, <3>1, <3>2 DEF Aims, Sole
  <2> QED BY <1>0, <2>0, <2>4, <2>5, <2>6 DEF CancelInv
<1>3. CASE Push
  <2>1. /\ UNCHANGED <<idx, asked, inflight, cancelled>> /\ sq' = Append(sq, pend) /\ pc = "push" /\ pc' = "run"
        /\ \A o \in Ops : fut'[o] = "new" => fut[o] = "new"
    BY <1>3 DEF Push, IInv, TypeOK, FutureType
  <2>2. /\ Len(sq') = Len(sq) + 1 /\ sq'[Len(sq) + 1] = pend
        /\ \A k \in 1..Len(sq) : sq'[k] = sq[k]
    BY <2>1, <1>l, AppendProperties
  <2>3. ~Pushing' /\ Pushing
    BY <2>1 DEF Pushing
  <2>4. ASSUME NEW e, NEW k \in 1..(Len(sq) + 1), Sole(e, k) PROVE Sole(e, k)'
    <3>1. \A j \in 1..(k - 1) : sq'[j] = sq[j]
      BY <1>l, <2>2
    <3> QED BY <2>1, <2>4, <3>1 DEF Sole
  <2>5. ASSUME NEW k \in 1..Len(sq'), sq'[k].cancel PROVE Aims(sq[k], k)'
    <3>1. CASE k = Len(sq) + 1
      <4>1. Aims(pend, k) /\ sq'[k] = pend
        BY <1>0, <2>2, <2>3, <2>5, <3>1
      <4>2. k \in 1..(Len(sq) + 1)
        BY <1>l, <3>1
      <4> QED BY <2>1, <2>4, <4>1, <4>2 DEF Aims, Sole
    <3>2. CASE k \in 1..Len(sq)
      <4>1. Aims(sq[k], k) /\ sq'[k] = sq[k]
        BY <1>0, <2>2, <2>5, <3>2
      <4>2. k \in 1..(Len(sq) + 1)
        BY <1>l, <3>2
      <4> QED BY <2>1, <2>4, <4>1, <4>2 DEF Aims, Sole
    <3> QED BY <1>l, <2>2, <3>1, <3>2
  <2> QED BY <1>0, <1>l, <2>1, <2>3, <2>5 DEF CancelInv
<1>4. CASE SubmitErr
  <2>1. /\ UNCHANGED <<sq, idx, asked, inflight, cancelled>> /\ ~Pushing'
        /\ \A o \in Ops : fut'[o] = "new" => fut[o] = "new"
    BY <1>4 DEF SubmitErr, Pushing, rings, IInv, TypeOK, FutureType
  <2>2. \A e, k : Sole(e, k) => Sole(e, k)'
    BY <2>1 DEF Sole
  <2> QED BY <1>0, <1>l, <2>1, <2>2 DEF CancelInv, Aims
<1>5. ASSUME NEW o \in Ops, NEW i \in Slots, Submit(o, i) PROVE CancelInv'
  <2>1. /\ fut[o] = "new" /\ UNCHANGED <<sq, asked, inflight, cancelled>>
        /\ fut' = [fut EXCEPT ![o] = "submitting"] /\ idx' = [idx EXCEPT ![o] = i]
        /\ ~pend'.cancel
    BY <1>5 DEF Submit, rings
  <2>2. /\ \A p \in Ops \ {o} : idx'[p] = idx[p]
        /\ \A p \in Ops : fut'[p] = "new" => fut[p] = "new"
    BY <2>1 DEF IInv, TypeOK, FutureType
  <2>3. ~Outstanding(o)
    BY <2>1 DEF IInv, RouteInv, Live, FutInv, CancelUD, Slots
  <2>4. o \notin inflight /\ ~\E j \in 1..Len(sq) : sq[j].op = o /\ ~sq[j].cancel
    BY <2>3 DEF Outstanding, Queued
  <2>5. ASSUME NEW e, NEW k \in 1..Len(sq), Sole(e, k) PROVE Sole(e, k)'
    <3>1. \A j \in 1..(k - 1) : j \in 1..Len(sq)
      BY <1>l
    <3> QED BY <2>1, <2>2, <2>4, <2>5, <3>1 DEF Sole
  <2> QED BY <1>0, <1>l, <2>1, <2>2, <2>5 DEF CancelInv, Aims
<1>6. ASSUME NEW o \in Ops, Cancel(o) PROVE CancelInv'
  <2>1. /\ UNCHANGED <<sq, inflight, cancelled, idx, fut>> /\ fut[o] = "alive" /\ held[o]
        /\ asked' = asked \cup {o} /\ pend' = [op |-> o, cancel |-> TRUE, ud |-> idx[o]]
    BY <1>6 DEF Cancel, rings, futures
  <2>2. pend'.op = o /\ pend'.ud = idx[o]
    BY <2>1
  <2>3. ASSUME NEW p \in Ops, p # o, p \in inflight \/ \E j \in 1..Len(sq) : sq[j].op = p /\ ~sq[j].cancel
        PROVE  idx[p] # idx[o]
    <3>1. Live(p)
      BY <2>3 DEF IInv, RouteInv, Outstanding, Queued
    <3> QED BY <2>1, <2>3, <3>1, OwnEntries
  <2>4. \A j \in 1..((Len(sq) + 1) - 1) : j \in 1..Len(sq)
    BY <1>l
  <2>5. Aims(pend, Len(sq) + 1)'
    BY <2>1, <2>2, <2>3, <2>4 DEF Aims, Sole
  <2>6. \A e, k : Sole(e, k) => Sole(e, k)'
    BY <2>1 DEF Sole
  <2> QED BY <1>0, <1>l, <2>1, <2>5, <2>6 DEF CancelInv, Aims
<1> QED BY <1>1, <1>2, <1>3, <1>4, <1>5, <1>6, BeforeMark

\* A cancellation never reaches an operation whose owner did not ask for it, also
\* when the key it names has been reused (Op::cancel, Driver::cancel_op).
THEOREM OnlyAskedAreCancelled == Spec => []CancelOnlyAsked
<1>1. Init => CancelInv
  <2>1. Init => Len(sq) = 0
    BY EmptySeq DEF Init
  <2> QED BY <2>1 DEF Init, CancelInv, Pushing
<1>2. IInv /\ CancelInv /\ [Next]_vars => CancelInv'
  BY CancelNext
<1>3. CancelInv => CancelOnlyAsked
  BY DEF CancelInv, CancelOnlyAsked
<1> QED BY <1>1, <1>2, <1>3, DriverInvariant, PTL DEF Spec

-----------------------------------------------------------------------------
(* Delivery in order.                                                      *)

\* OfOp for any sequence of completions.
Count(q, o, k) == Cardinality({j \in 1..k : q[j].op = o})

LEMMA CountType ==
  ASSUME NEW q, NEW o, NEW k \in Nat
  PROVE  /\ Count(q, o, k) \in Nat
         /\ IsFiniteSet({j \in 1..k : q[j].op = o})
         /\ (\A j \in 1..k : q[j].op # o) => Count(q, o, k) = 0
<1> DEFINE S == {j \in 1..k : q[j].op = o}
<1>1. IsFiniteSet(1..k)
  BY FS_Interval
<1>2. IsFiniteSet(S)
  BY <1>1, FS_Subset
<1>3. (\A j \in 1..k : q[j].op # o) => S = {}
  OBVIOUS
<1> QED BY <1>2, <1>3, FS_CardinalityType, FS_EmptySet DEF Count

\* Appending a completion counts it, and it alone.
LEMMA CountAppend ==
  ASSUME NEW q \in Seq(CQE), NEW c \in CQE, NEW o
  PROVE  /\ \A k \in 0..Len(q) : Count(Append(q, c), o, k) = Count(q, o, k)
         /\ Count(Append(q, c), o, Len(q) + 1)
              = Count(q, o, Len(q)) + (IF c.op = o THEN 1 ELSE 0)
<1> DEFINE r == Append(q, c)  n == Len(q)
<1>1. n \in Nat /\ Len(r) = n + 1 /\ r[n + 1] = c /\ \A j \in 1..n : r[j] = q[j]
  BY AppendProperties
<1> HIDE DEF r, n
<1>2. ASSUME NEW k \in 0..n PROVE Count(r, o, k) = Count(q, o, k)
  <2>1. {j \in 1..k : r[j].op = o} = {j \in 1..k : q[j].op = o}
    BY <1>1
  <2> QED BY <2>1 DEF Count
<1>3. CASE c.op = o
  <2> DEFINE S == {j \in 1..n : q[j].op = o}
  <2>1. {j \in 1..(n + 1) : r[j].op = o} = S \cup {n + 1}
    BY <1>1, <1>3
  <2>2. n + 1 \notin S
    BY <1>1
  <2>5. IsFiniteSet(S)
    BY <1>1, CountType
  <2> HIDE DEF S
  <2>3. Cardinality(S \cup {n + 1}) = Cardinality(S) + 1
    BY <2>2, <2>5, FS_AddElement
  <2>4. Count(q, o, n) = Cardinality(S) /\ Count(r, o, n + 1) = Cardinality(S \cup {n + 1})
    BY <2>1 DEF Count, S
  <2> QED BY <1>2, <1>3, <2>3, <2>4 DEF r, n
<1>4. CASE c.op # o
  <2>1. {j \in 1..(n + 1) : r[j].op = o} = {j \in 1..n : q[j].op = o}
    BY <1>1, <1>4
  <2>2. Count(r, o, n + 1) = Count(q, o, n)
    BY <2>1 DEF Count
  <2>3. Count(q, o, n) \in Nat
    BY <1>1, CountType
  <2> QED BY <1>2, <1>4, <2>2, <2>3 DEF r, n
<1> QED BY <1>3, <1>4

\* Taking the first completion counts it off.
LEMMA CountTail ==
  ASSUME NEW q \in Seq(CQE), q # <<>>, NEW o, NEW k \in 0..(Len(q) - 1)
  PROVE  Count(q, o, k + 1) = Count(Tail(q), o, k) + (IF q[1].op = o THEN 1 ELSE 0)
<1> DEFINE r == Tail(q)
           S == {j \in 1..k : r[j].op = o}
           T == {j \in 2..(k + 1) : q[j].op = o}
           f == [j \in S |-> j + 1]
<1>1. Len(q) \in Nat \ {0} /\ \A j \in 1..(Len(q) - 1) : r[j] = q[j + 1]
  BY HeadTailProperties, EmptySeq
<1>2. k \in Nat /\ \A j \in 1..k : r[j] = q[j + 1]
  BY <1>1
<1> HIDE DEF r
<1>3. f \in Bijection(S, T)
  <2>1. f \in [S -> T]
    BY <1>2
  <2>2. \A a, b \in S : f[a] = f[b] => a = b
    OBVIOUS
  <2>3. ASSUME NEW t \in T PROVE \E a \in S : f[a] = t
    <3>1. t - 1 \in 1..k /\ (t - 1) + 1 = t /\ q[t].op = o
      BY <1>2
    <3>2. t - 1 \in S
      BY <1>2, <3>1
    <3> QED BY <3>1, <3>2
  <2> HIDE DEF f, S, T
  <2> QED BY <2>1, <2>2, <2>3 DEF Bijection, Injection, Surjection, IsInjective
<1>4. IsFiniteSet(S) /\ Count(r, o, k) = Cardinality(S) /\ Count(r, o, k) \in Nat
  BY <1>2, CountType DEF Count
<1>5. ExistsBijection(S, T)
  BY <1>3 DEF ExistsBijection
<1>6. IsFiniteSet(T) /\ Cardinality(T) = Cardinality(S)
  BY <1>4, <1>5, FS_Bijection
<1>7. CASE q[1].op = o
  <2>1. {j \in 1..(k + 1) : q[j].op = o} = T \cup {1}
    BY <1>2, <1>7
  <2>2. 1 \notin T
    OBVIOUS
  <2> HIDE DEF T
  <2>3. Cardinality(T \cup {1}) = Cardinality(T) + 1
    BY <1>6, <2>2, FS_AddElement
  <2> QED BY <1>4, <1>6, <1>7, <2>1, <2>3 DEF Count, r
<1>8. CASE q[1].op # o
  <2>1. {j \in 1..(k + 1) : q[j].op = o} = T
    BY <1>2, <1>8
  <2>2. Count(q, o, k + 1) = Cardinality(T)
    BY <2>1 DEF Count
  <2> HIDE DEF S, T
  <2> QED BY <1>4, <1>6, <1>8, <2>2 DEF r
<1> QED BY <1>7, <1>8

\* An operation consumed g completions, s waits on its list, q is in the completion
\* queue, and n have been posted: they are numbered without gaps.
Ordered(o, s, g, q, n) ==
  /\ \A k \in 1..Len(s) : s[k].op = o /\ s[k].n = g + k
  /\ \A k \in 1..Len(q) : q[k].op = o => q[k].n = g + Len(s) + Count(q, o, k)
  /\ n = g + Len(s) + Count(q, o, Len(q))

\* The kernel posts a completion, of this operation or of another one.
LEMMA OrderedPost ==
  ASSUME NEW o, NEW s \in Seq(CQE), NEW g \in Nat, NEW q \in Seq(CQE), NEW n \in Nat,
         NEW c \in CQE, Ordered(o, s, g, q, n), c.op = o => c.n = n + 1
  PROVE  Ordered(o, s, g, Append(q, c), IF c.op = o THEN n + 1 ELSE n)
<1> DEFINE r == Append(q, c)
<1>1. /\ Len(q) \in Nat /\ Len(s) \in Nat /\ Len(r) = Len(q) + 1
      /\ r[Len(q) + 1] = c /\ \A j \in 1..Len(q) : r[j] = q[j]
  BY AppendProperties
<1>2. /\ \A k \in 0..Len(q) : Count(r, o, k) = Count(q, o, k)
      /\ Count(r, o, Len(q) + 1) = Count(q, o, Len(q)) + (IF c.op = o THEN 1 ELSE 0)
  BY CountAppend
<1>3. Count(q, o, Len(q)) \in Nat
  BY <1>1, CountType
<1> HIDE DEF r
<1>4. ASSUME NEW k \in 1..Len(r), r[k].op = o
      PROVE  r[k].n = g + Len(s) + Count(r, o, k)
  <2>1. CASE k = Len(q) + 1
    <3>1. c.op = o /\ r[k].n = n + 1
      BY <1>1, <1>4, <2>1
    <3>2. n = g + Len(s) + Count(q, o, Len(q))
      BY DEF Ordered
    <3> QED BY <1>1, <1>2, <1>3, <2>1, <3>1, <3>2
  <2>2. CASE k \in 1..Len(q)
    <3>1. Count(r, o, k) = Count(q, o, k) /\ r[k] = q[k]
      BY <1>1, <1>2, <2>2
    <3> QED BY <1>4, <2>2, <3>1 DEF Ordered
  <2> QED BY <1>1, <2>1, <2>2
<1>5. (IF c.op = o THEN n + 1 ELSE n) = g + Len(s) + Count(r, o, Len(r))
  <2>1. n = g + Len(s) + Count(q, o, Len(q))
    BY DEF Ordered
  <2> QED BY <1>1, <1>2, <1>3, <2>1
<1> QED BY <1>4, <1>5 DEF Ordered, r

\* The oldest completion goes to the list of its operation.
LEMMA OrderedDispatch ==
  ASSUME NEW o, NEW s \in Seq(CQE), NEW g \in Nat, NEW q \in Seq(CQE), q # <<>>, NEW n \in Nat,
         Ordered(o, s, g, q, n)
  PROVE  /\ q[1].op # o => Ordered(o, s, g, Tail(q), n)
         /\ q[1].op = o => Ordered(o, Append(s, q[1]), g, Tail(q), n)
<1> DEFINE r == Tail(q)  t == Append(s, q[1])
<1>1. /\ Len(q) \in Nat \ {0} /\ Len(s) \in Nat /\ Len(r) = Len(q) - 1 /\ q[1] \in CQE
      /\ \A j \in 1..Len(r) : r[j] = q[j + 1]
  BY HeadTailProperties, EmptySeq
<1>2. /\ Len(t) = Len(s) + 1 /\ t[Len(s) + 1] = q[1]
      /\ \A j \in 1..Len(s) : t[j] = s[j]
  BY <1>1, AppendProperties
<1>3. \A k \in 0..Len(r) : /\ Count(r, o, k) \in Nat
                           /\ Count(q, o, k + 1) = Count(r, o, k) + (IF q[1].op = o THEN 1 ELSE 0)
  <2> SUFFICES ASSUME NEW k \in 0..Len(r)
               PROVE  /\ Count(r, o, k) \in Nat
                      /\ Count(q, o, k + 1) = Count(r, o, k) + (IF q[1].op = o THEN 1 ELSE 0)
    OBVIOUS
  <2>1. k \in Nat /\ k \in 0..(Len(q) - 1)
    BY <1>1
  <2>2. Count(r, o, k) \in Nat
    BY <2>1, CountType
  <2>3. Count(q, o, k + 1) = Count(Tail(q), o, k) + (IF q[1].op = o THEN 1 ELSE 0)
    BY <2>1, CountTail
  <2> QED BY <2>2, <2>3
<1>4. n = g + Len(s) + Count(q, o, Len(r) + 1)
  BY <1>1 DEF Ordered
<1>5. ASSUME NEW k \in 1..Len(r), r[k].op = o
      PROVE  r[k].n = g + Len(s) + Count(q, o, k + 1)
  <2>1. k + 1 \in 1..Len(q) /\ r[k] = q[k + 1]
    BY <1>1
  <2> QED BY <1>5, <2>1 DEF Ordered
<1> HIDE DEF r, t
<1>6. CASE q[1].op # o
  <2>1. Ordered(o, s, g, r, n)
    BY <1>1, <1>3, <1>4, <1>5, <1>6 DEF Ordered
  <2> QED BY <1>6, <2>1 DEF r
<1>7. CASE q[1].op = o
  <2>1. Count(q, o, 1) = 1
    <3>1. 0 \in 0..Len(r)
      BY <1>1
    <3>2. Count(r, o, 0) = 0
      <4>1. 0 \in Nat /\ \A j \in 1..0 : r[j].op # o
        OBVIOUS
      <4> QED BY <4>1, CountType
    <3>3. Count(q, o, 0 + 1) = Count(r, o, 0) + 1
      BY <1>3, <1>7, <3>1
    <3> QED BY <3>2, <3>3
  <2>2. q[1].n = g + Len(s) + 1
    BY <1>1, <1>7, <2>1 DEF Ordered
  <2>3. \A k \in 1..Len(t) : t[k].op = o /\ t[k].n = g + k
    <3> SUFFICES ASSUME NEW k \in 1..Len(t) PROVE t[k].op = o /\ t[k].n = g + k
      OBVIOUS
    <3>1. CASE k \in 1..Len(s)
      BY <1>2, <3>1 DEF Ordered
    <3>2. CASE k = Len(s) + 1
      BY <1>1, <1>2, <1>7, <2>2, <3>2
    <3> QED BY <1>1, <1>2, <3>1, <3>2
  <2>4. \A k \in 1..Len(r) : r[k].op = o => r[k].n = g + Len(t) + Count(r, o, k)
    <3> SUFFICES ASSUME NEW k \in 1..Len(r), r[k].op = o PROVE r[k].n = g + Len(t) + Count(r, o, k)
      OBVIOUS
    <3>1. k \in 0..Len(r)
      OBVIOUS
    <3>2. Count(q, o, k + 1) = Count(r, o, k) + 1 /\ Count(r, o, k) \in Nat
      BY <1>3, <1>7, <3>1
    <3>3. r[k].n = g + Len(s) + Count(q, o, k + 1)
      BY <1>5
    <3>4. Len(t) = Len(s) + 1 /\ Len(s) \in Nat
      BY <1>1, <1>2
    <3>5. g + Len(s) + Count(q, o, k + 1) = g + Len(t) + Count(r, o, k)
      BY <3>2, <3>4
    <3> QED BY <3>3, <3>5
  <2>5. n = g + Len(t) + Count(r, o, Len(r))
    <3>1. Len(r) \in 0..Len(r)
      BY <1>1
    <3>2. Count(q, o, Len(r) + 1) = Count(r, o, Len(r)) + 1 /\ Count(r, o, Len(r)) \in Nat
      BY <1>3, <1>7, <3>1
    <3> QED BY <1>1, <1>2, <1>4, <3>2
  <2>6. Ordered(o, t, g, r, n)
    BY <2>3, <2>4, <2>5 DEF Ordered
  <2> QED BY <1>7, <2>6 DEF r, t
<1> QED BY <1>6, <1>7

\* A poll consumes the first k completions of the list.
LEMMA OrderedConsume ==
  ASSUME NEW o, NEW s \in Seq(CQE), NEW g \in Nat, NEW q \in Seq(CQE), NEW n \in Nat,
         Ordered(o, s, g, q, n), NEW k \in 1..Len(s)
  PROVE  Ordered(o, SubSeq(s, k + 1, Len(s)), g + k, q, n)
<1> DEFINE t == SubSeq(s, k + 1, Len(s))
<1>1. Len(t) = Len(s) - k /\ \A j \in 1..(Len(s) - k) : t[j] = s[k + j]
  BY SubSeqType
<1>2. Len(s) \in Nat /\ Len(q) \in Nat
  OBVIOUS
<1> HIDE DEF t
<1>3. ASSUME NEW j \in 1..Len(t) PROVE t[j].op = o /\ t[j].n = (g + k) + j
  <2>1. k + j \in 1..Len(s) /\ t[j] = s[k + j]
    BY <1>1, <1>2
  <2>2. s[k + j].op = o /\ s[k + j].n = g + (k + j)
    BY <2>1 DEF Ordered
  <2> QED BY <2>1, <2>2
<1>4. (g + k) + Len(t) = g + Len(s)
  BY <1>1, <1>2
<1> QED BY <1>3, <1>4 DEF Ordered, t

\* What is known of the completions of o: all of them while its future waits, none
\* is left when it has finished.
Delivering(o) ==
  /\ held[o] =>
       /\ Ordered(o, life[idx[o]].cqes, got[o], cq, posted[o])
       /\ life[idx[o]].st = "Completed" => Len(life[idx[o]].cqes) = 1
  /\ fut[o] = "alive" /\ ~held[o] => got[o] = posted[o] /\ ~InKernel(o)
  /\ fut[o] = "new" => got[o] = 0 /\ posted[o] = 0
  /\ fut[o] = "submitting" => held[o]

DeliveryInv == ~AfterMark => \A o \in Ops : Delivering(o)

\* The types the lemmas on Ordered ask for.
LEMMA DeliveryTypes ==
  ASSUME IInv, NEW o \in Ops
  PROVE  /\ got[o] \in Nat /\ posted[o] \in Nat /\ cq \in Seq(CQE)
         /\ held[o] => /\ idx[o] \in Slots /\ life[idx[o]] \in LifecycleType
                       /\ life[idx[o]].cqes \in Seq(CQE)
  BY LifecycleFields DEF IInv, TypeOK, SlabType, FutureType, RingType

\* An operation that a step is not about keeps what is known of it, whatever
\* happens to the completions of the others.
LEMMA OthersDeliver ==
  ASSUME IInv, NEW o \in Ops, Delivering(o),
         fut'[o] = fut[o], held'[o] = held[o], idx'[o] = idx[o], got'[o] = got[o],
         posted'[o] = posted[o], held[o] => life'[idx[o]] = life[idx[o]],
         InKernel(o)' => InKernel(o),
         \/ cq' = cq
         \/ \E c \in CQE : c.op # o /\ cq' = Append(cq, c)
         \/ cq # <<>> /\ cq[1].op # o /\ cq' = Tail(cq)
  PROVE  Delivering(o)'
<1>1. ASSUME held[o] PROVE Ordered(o, life[idx[o]].cqes, got[o], cq', posted[o])
  <2>0. Ordered(o, life[idx[o]].cqes, got[o], cq, posted[o])
    BY <1>1 DEF Delivering
  <2>t. got[o] \in Nat /\ posted[o] \in Nat /\ cq \in Seq(CQE) /\ life[idx[o]].cqes \in Seq(CQE)
    BY <1>1, DeliveryTypes
  <2>1. CASE cq' = cq
    BY <2>0, <2>1
  <2>2. ASSUME NEW c \in CQE, c.op # o, cq' = Append(cq, c)
        PROVE  Ordered(o, life[idx[o]].cqes, got[o], cq', posted[o])
    <3> DEFINE s == life[idx[o]].cqes  g == got[o]  n == posted[o]  q == cq
    <3> HIDE DEF s, g, n, q
    <3>1. Ordered(o, s, g, Append(q, c), IF c.op = o THEN n + 1 ELSE n)
      BY <2>0, <2>t, <2>2, OrderedPost DEF s, g, n, q
    <3> QED BY <2>2, <3>1 DEF s, g, n, q
  <2>3. CASE cq # <<>> /\ cq[1].op # o /\ cq' = Tail(cq)
    BY <2>0, <2>t, <2>3, OrderedDispatch
  <2> QED BY <2>1, <2>2, <2>3
<1> QED BY <1>1 DEF Delivering

\* A future changes the entry it owns by a poll or by being dropped.
LEMMA DeliverSlot ==
  ASSUME IInv, DeliveryInv, ~AfterMark, NEW o \in Ops, held[o],
         NEW l, life' = [life EXCEPT ![idx[o]] = l],
         UNCHANGED <<idx, rings, posted>>,
         \A p \in Ops \ {o} : fut'[p] = fut[p] /\ held'[p] = held[p] /\ got'[p] = got[p],
         fut'[o] \in {"alive", "gone"},
         held'[o] => Ordered(o, l.cqes, got'[o], cq, posted[o]) /\ l.st # "Completed",
         fut'[o] = "alive" /\ ~held'[o] => got'[o] = posted[o] /\ ~InKernel(o)
  PROVE  DeliveryInv'
<1>1. /\ life'[idx[o]] = l
      /\ \A p \in Ops \ {o} : held[p] => life'[idx[p]] = life[idx[p]]
  BY OwnSlotOnly
<1>2. \A p \in Ops : InKernel(p)' <=> InKernel(p)
  BY DEF InKernel, Queued, rings
<1>3. cq' = cq
  BY DEF rings
<1> SUFFICES ASSUME NEW p \in Ops PROVE Delivering(p)'
  BY DEF DeliveryInv
<1>4. Delivering(p)
  BY DEF DeliveryInv
<1>5. CASE p # o
  BY <1>1, <1>2, <1>3, <1>4, <1>5, OthersDeliver
<1>6. CASE p = o
  BY <1>1, <1>2, <1>3, <1>6 DEF Delivering
<1> QED BY <1>5, <1>6

\* A finished operation has consumed all that was posted.
LEMMA DeliverFinish ==
  ASSUME IInv, DeliveryInv, NEW o \in Ops, CanPoll(o), ~Expecting(idx[o]),
         NEW n, n = Len(life[idx[o]].cqes), Finish(o, n)
  PROVE  DeliveryInv'
<1>0. ~AfterMark /\ held[o] /\ fut[o] = "alive"
  BY DEF CanPoll, AfterMark, Marking
<1>1. /\ life' = [life EXCEPT ![idx[o]] = Vacant] /\ UNCHANGED <<fut, idx, rings, posted>>
      /\ held' = [held EXCEPT ![o] = FALSE] /\ got' = [got EXCEPT ![o] = @ + n]
  BY DEF Finish
<1>2. /\ ~held'[o] /\ got'[o] = got[o] + n
      /\ \A p \in Ops \ {o} : held'[p] = held[p] /\ got'[p] = got[p]
  BY <1>1 DEF IInv, TypeOK, FutureType
<1>3. ~Outstanding(o)
  BY DEF IInv, RouteInv, Live
<1>4. ~InKernel(o) /\ \A j \in 1..Len(cq) : cq[j].op # o
  BY <1>3 DEF Outstanding, InKernel, Answered
<1>t. got[o] \in Nat /\ posted[o] \in Nat /\ cq \in Seq(CQE) /\ life[idx[o]].cqes \in Seq(CQE)
  BY <1>0, DeliveryTypes
<1>5. Len(cq) \in Nat /\ n \in Nat
  BY <1>t
<1>6. Count(cq, o, Len(cq)) = 0
  BY <1>4, <1>5, CountType
<1>7. posted[o] = got[o] + n + Count(cq, o, Len(cq))
  BY <1>0 DEF DeliveryInv, Delivering, Ordered
<1>8. got'[o] = posted[o]
  BY <1>2, <1>5, <1>6, <1>7, <1>t
<1> QED BY <1>0, <1>1, <1>2, <1>4, <1>8, DeliverSlot

\* The kernel posts a completion of o.
LEMMA DeliverPost ==
  ASSUME IInv, DeliveryInv, ~AfterMark, NEW o \in Ops, KMore(o) \/ KFinal(o)
  PROVE  DeliveryInv'
<1>1. PICK m \in BOOLEAN : Post([op |-> o, ud |-> idx[o], more |-> m, n |-> posted[o] + 1])
  BY DEF KMore, KFinal
<1> DEFINE c == [op |-> o, ud |-> idx[o], more |-> m, n |-> posted[o] + 1]
<1>2. c \in CQE /\ c.op = o /\ c.n = posted[o] + 1
  BY DEF CQE, IInv, TypeOK, FutureType
<1>3. cq' = Append(cq, c)
  BY <1>1 DEF Post
<1> HIDE DEF c
<1>4. /\ o \in inflight /\ inflight' \subseteq inflight /\ UNCHANGED <<life, fut, held, idx, got, sq>>
      /\ posted' = [posted EXCEPT ![o] = @ + 1]
  BY DEF KMore, KFinal, futures
<1>5. /\ \A p \in Ops : InKernel(p)' => InKernel(p)
      /\ posted'[o] = posted[o] + 1 /\ \A p \in Ops \ {o} : posted'[p] = posted[p]
  BY <1>4 DEF InKernel, Queued, IInv, TypeOK, FutureType
<1> SUFFICES ASSUME NEW p \in Ops PROVE Delivering(p)'
  BY DEF DeliveryInv
<1>6. Delivering(p)
  BY DEF DeliveryInv
<1>7. CASE p # o
  BY <1>2, <1>3, <1>4, <1>5, <1>6, <1>7, OthersDeliver
<1>8. CASE p = o
  <2>1. Live(o) /\ InKernel(o)
    BY <1>4 DEF IInv, RouteInv, Outstanding, InKernel
  <2>2. fut[o] # "new"
    BY <2>1 DEF IInv, FutInv, Live, Slots, CancelUD
  <2>3. fut[o] = "alive" => held[o]
    BY <1>6, <1>8, <2>1 DEF Delivering
  <2>4. ASSUME held[o] PROVE Ordered(o, life[idx[o]].cqes, got[o], cq', posted[o] + 1)
    <3> DEFINE s == life[idx[o]].cqes  g == got[o]  n == posted[o]  q == cq
    <3>1. Ordered(o, s, g, q, n)
      BY <1>6, <1>8, <2>4 DEF Delivering
    <3>2. g \in Nat /\ n \in Nat /\ q \in Seq(CQE) /\ s \in Seq(CQE)
      BY <2>4, DeliveryTypes
    <3> HIDE DEF s, g, n, q
    <3>3. c.n = n + 1
      BY <1>2 DEF n
    <3>4. Ordered(o, s, g, Append(q, c), IF c.op = o THEN n + 1 ELSE n)
      BY <1>2, <3>1, <3>2, <3>3, OrderedPost
    <3> QED BY <1>2, <1>3, <3>4 DEF s, g, n, q
  <2> QED BY <1>4, <1>5, <1>6, <1>8, <2>2, <2>3, <2>4 DEF Delivering
<1> QED BY <1>7, <1>8

\* A completion is dispatched to its operation.
LEMMA DeliverDispatch ==
  ASSUME IInv, DeliveryInv, ~AfterMark, DispatchOne
  PROVE  DeliveryInv'
<1>1. cq \in Seq(CQE) /\ cq # <<>> /\ cq' = Tail(cq) /\ Head(cq) = cq[1] /\ cq[1] \in CQE
  BY HeadTailProperties, EmptySeq DEF DispatchOne, IInv, TypeOK, RingType
<1>2. /\ UNCHANGED <<fut, held, idx, got, posted, sq, inflight>>
      /\ \/ cq[1].ud = CancelUD /\ life' = life
         \/ cq[1].ud # CancelUD /\ Complete(cq[1].ud, cq[1])
  BY <1>1 DEF DispatchOne
<1>3. \A p \in Ops : InKernel(p)' <=> InKernel(p)
  BY <1>2 DEF InKernel, Queued
<1>4. 1 \in 1..Len(cq)
  BY <1>1, EmptySeq
<1>5. cq[1].ud = IF cq[1].op = None THEN CancelUD ELSE idx[cq[1].op]
  BY <1>4 DEF IInv, FinalOnce
<1> SUFFICES ASSUME NEW p \in Ops PROVE Delivering(p)'
  BY DEF DeliveryInv
<1>6. Delivering(p)
  BY DEF DeliveryInv
<1>7. CASE p # cq[1].op
  <2>1. ASSUME held[p] PROVE life'[idx[p]] = life[idx[p]]
    <3>1. CASE cq[1].op = None
      BY <1>2, <1>5, <3>1 DEF Complete
    <3>2. CASE cq[1].op # None
      <4>1. PICK f \in Ops : f = cq[1].op
        BY <1>1, <3>2 DEF CQE
      <4>2. Live(f)
        BY <1>4, <4>1 DEF IInv, RouteInv, Outstanding, Answered
      <4>3. idx[p] # cq[1].ud /\ idx[p] \in Slots
        BY <1>5, <1>7, <2>1, <3>2, <4>1, <4>2, OwnEntries, DeliveryTypes
      <4> QED BY <1>2, <4>3 DEF Complete, IInv, TypeOK, SlabType
    <3> QED BY <3>1, <3>2
  <2> QED BY <1>1, <1>2, <1>3, <1>6, <1>7, <2>1, OthersDeliver
<1>8. CASE p = cq[1].op
  <2>0. cq[1].ud = idx[p]
    <3>1. p # None
      OBVIOUS
    <3> QED BY <1>5, <1>8, <3>1
  <2>1. Live(p) /\ cq[1].ud = idx[p]
    <3>1. Answered(p)
      BY <1>4, <1>8 DEF Answered
    <3> QED BY <2>0, <3>1 DEF IInv, RouteInv, Outstanding
  <2>2. idx[p] \in Slots /\ idx[p] # CancelUD
    BY <2>1 DEF Live, Slots, CancelUD
  <2>3. Complete(idx[p], cq[1])
    BY <1>2, <2>1, <2>2
  <2>4. ASSUME held[p]
        PROVE  /\ Ordered(p, life'[idx[p]].cqes, got[p], Tail(cq), posted[p])
               /\ life'[idx[p]].st = "Completed" => Len(life'[idx[p]].cqes) = 1
    <3> DEFINE s == life[idx[p]].cqes  g == got[p]  n == posted[p]  q == cq
    <3>1. Ordered(p, s, g, q, n)
      BY <1>6, <2>4 DEF Delivering
    <3>2. g \in Nat /\ n \in Nat /\ q \in Seq(CQE) /\ s \in Seq(CQE)
      BY <2>4, DeliveryTypes
    <3>3. life \in [Slots -> LifecycleType] /\ life[idx[p]] \in LifecycleType
      BY <2>2 DEF IInv, TypeOK, SlabType
    <3>4. life[idx[p]].st # "Ignored"
      BY <2>4 DEF IInv, FutInv
    <3>5. Ordered(p, Append(s, cq[1]), g, Tail(q), n)
      <4> HIDE DEF s, g, n
      <4> QED BY <1>1, <1>8, <3>1, <3>2, OrderedDispatch
    <3>6. CASE life[idx[p]].st = "CompletionList"
      <4>1. life'[idx[p]] = CompletionList(Append(s, cq[1]))
        BY <2>2, <2>3, <3>3, <3>6 DEF Complete
      <4>2. life'[idx[p]].cqes = Append(s, cq[1]) /\ life'[idx[p]].st = "CompletionList"
        BY <4>1 DEF CompletionList
      <4> QED BY <3>5, <4>2
    <3>7. CASE life[idx[p]].st \in {"Submitted", "Waiting"}
      <4>1. s = <<>>
        BY <3>3, <3>7 DEF LifecycleType, Vacant, Submitted
      <4>2. life'[idx[p]] = IF cq[1].more THEN CompletionList(<<cq[1]>>) ELSE Completed(cq[1])
        BY <2>2, <2>3, <3>3, <3>7 DEF Complete
      <4>3. life'[idx[p]].cqes = <<cq[1]>>
        BY <4>2 DEF CompletionList, Completed
      <4>4. Append(s, cq[1]) = <<cq[1]>> /\ Len(<<cq[1]>>) = 1
        BY <1>1, <4>1
      <4> QED BY <3>5, <4>3, <4>4
    <3> QED BY <2>3, <3>4, <3>6, <3>7 DEF Complete
  <2> QED BY <1>1, <1>2, <1>3, <1>6, <2>4 DEF Delivering
<1> QED BY <1>7, <1>8

\* An operation is submitted under a vacant key, and nothing was posted for it.
LEMMA DeliverSubmit ==
  ASSUME IInv, DeliveryInv, ~AfterMark, NEW o \in Ops, NEW i \in Slots, Submit(o, i)
  PROVE  DeliveryInv'
<1>1. /\ fut[o] = "new" /\ life[i] = Vacant /\ UNCHANGED <<got, posted, rings>>
      /\ life' = [life EXCEPT ![i] = Submitted] /\ fut' = [fut EXCEPT ![o] = "submitting"]
      /\ held' = [held EXCEPT ![o] = TRUE] /\ idx' = [idx EXCEPT ![o] = i]
  BY DEF Submit
<1>2. /\ life \in [Slots -> LifecycleType] /\ fut \in [Ops -> {"new", "submitting", "alive", "gone"}]
      /\ held \in [Ops -> BOOLEAN] /\ idx \in [Ops -> Nat] /\ cq \in Seq(CQE)
      /\ \A p \in Ops : held[p] => idx[p] \in Slots
  BY DEF IInv, TypeOK, SlabType, FutureType, RingType
<1>3. \A p \in Ops : held[p] => idx[p] # i
  BY <1>1 DEF IInv, FutInv, Vacant
<1>4. /\ life'[i] = Submitted /\ idx'[o] = i /\ fut'[o] = "submitting" /\ held'[o]
      /\ \A p \in Ops \ {o} : /\ fut'[p] = fut[p] /\ held'[p] = held[p] /\ idx'[p] = idx[p]
                              /\ held[p] => life'[idx[p]] = life[idx[p]]
  BY <1>1, <1>2, <1>3
<1>5. cq' = cq /\ \A p \in Ops : InKernel(p)' <=> InKernel(p)
  BY <1>1 DEF InKernel, Queued, rings
<1> SUFFICES ASSUME NEW p \in Ops PROVE Delivering(p)'
  BY DEF DeliveryInv
<1>6. Delivering(p)
  BY DEF DeliveryInv
<1>7. CASE p # o
  BY <1>1, <1>4, <1>5, <1>6, <1>7, OthersDeliver
<1>8. CASE p = o
  <2>1. ~Outstanding(o)
    BY <1>1 DEF IInv, RouteInv, Live, FutInv, CancelUD, Slots
  <2>2. (\A j \in 1..Len(cq) : cq[j].op # o) /\ Len(cq) \in Nat
    BY <1>2, <2>1 DEF Outstanding, Answered
  <2>3. Count(cq, o, Len(cq)) = 0
    BY <2>2, CountType
  <2>4. got[o] = 0 /\ posted[o] = 0
    BY <1>1, <1>6, <1>8 DEF Delivering
  <2>5. Submitted.cqes = <<>> /\ Submitted.st = "Submitted" /\ Len(<<>>) = 0
    BY EmptySeq DEF Submitted
  <2>6. Ordered(o, <<>>, 0, cq, 0)
    BY <2>2, <2>3, <2>5 DEF Ordered
  <2> QED BY <1>1, <1>4, <1>5, <1>8, <2>4, <2>5, <2>6 DEF Delivering
<1> QED BY <1>7, <1>8

\* A poll takes a prefix of the list.
LEMMA DeliverPoll ==
  ASSUME IInv, DeliveryInv, NEW o \in Ops, Poll(o)
  PROVE  DeliveryInv'
<1> DEFINE l == life[idx[o]]
<1>0. CanPoll(o)
  BY DEF Poll, PollPending, PollDrained, PollYield, PollCompleted, PollFinal
<1>1. ~AfterMark /\ held[o] /\ fut[o] = "alive"
  BY <1>0 DEF CanPoll, AfterMark, Marking
<1>2. /\ got \in [Ops -> Nat] /\ got[o] \in Nat /\ posted[o] \in Nat /\ cq \in Seq(CQE)
      /\ idx[o] \in Slots /\ l \in LifecycleType /\ l.cqes \in Seq(CQE)
  BY <1>1, DeliveryTypes DEF IInv, TypeOK, FutureType
<1>3. /\ Ordered(o, l.cqes, got[o], cq, posted[o])
      /\ l.st = "Completed" => Len(l.cqes) = 1
  BY <1>1 DEF DeliveryInv, Delivering
<1>4. \A w : Waiting(w).cqes = <<>> /\ Waiting(w).st = "Waiting"
  BY DEF Waiting
<1>5. ASSUME NEW k \in 1..Len(l.cqes)
      PROVE  Ordered(o, SubSeq(l.cqes, k + 1, Len(l.cqes)), got[o] + k, cq, posted[o])
  BY <1>2, <1>3, OrderedConsume
<1>6. ASSUME NEW w \in Wakers, PollPending(o, w) PROVE DeliveryInv'
  <2>1. /\ life' = [life EXCEPT ![idx[o]] = Waiting(w)] /\ UNCHANGED <<fut, held, idx, got, rings, posted>>
        /\ l.st \in {"Submitted", "Waiting"}
    BY <1>6 DEF PollPending
  <2>2. l.cqes = <<>>
    BY <1>2, <2>1 DEF LifecycleType, Vacant, Submitted
  <2> QED BY <1>1, <1>3, <1>4, <2>1, <2>2, DeliverSlot
<1>7. ASSUME NEW w \in Wakers, PollDrained(o, w) PROVE DeliveryInv'
  <2>1. /\ life' = [life EXCEPT ![idx[o]] = Waiting(w)] /\ UNCHANGED <<fut, held, idx, rings, posted>>
        /\ got' = [got EXCEPT ![o] = @ + Len(l.cqes)] /\ l.st = "CompletionList"
    BY <1>7 DEF PollDrained
  <2>2. l.cqes # <<>>
    BY <1>2, <2>1, LifecycleFields
  <2>3. Len(l.cqes) \in 1..Len(l.cqes)
    BY <1>2, <2>2, EmptySeq
  <2>4. SubSeq(l.cqes, Len(l.cqes) + 1, Len(l.cqes)) = <<>>
    BY <1>2
  <2>5. Ordered(o, <<>>, got[o] + Len(l.cqes), cq, posted[o])
    BY <1>5, <2>3, <2>4
  <2>6. got'[o] = got[o] + Len(l.cqes) /\ \A p \in Ops \ {o} : got'[p] = got[p]
    BY <1>2, <2>1
  <2> QED BY <1>1, <1>4, <2>1, <2>5, <2>6, DeliverSlot
<1>8. ASSUME NEW w \in Wakers, NEW k \in 1..(MaxMore + 1), PollYield(o, w, k) PROVE DeliveryInv'
  <2> DEFINE rest == SubSeq(l.cqes, k + 1, Len(l.cqes))
             m == IF rest # <<>> THEN CompletionList(rest) ELSE Waiting(w)
  <2>1. /\ life' = [life EXCEPT ![idx[o]] = m] /\ UNCHANGED <<fut, held, idx, rings, posted>>
        /\ got' = [got EXCEPT ![o] = @ + k] /\ k \in 1..Len(l.cqes)
    BY <1>8 DEF PollYield, Consumes
  <2>2. m.cqes = rest /\ m.st # "Completed"
    BY <1>4 DEF CompletionList
  <2>3. Ordered(o, rest, got[o] + k, cq, posted[o])
    BY <1>5, <2>1
  <2>4. got'[o] = got[o] + k /\ \A p \in Ops \ {o} : got'[p] = got[p]
    BY <1>2, <2>1
  <2> HIDE DEF rest, m
  <2> QED BY <1>1, <2>1, <2>2, <2>3, <2>4, DeliverSlot
<1>9. CASE PollCompleted(o)
  <2>1. l.st = "Completed" /\ Finish(o, 1)
    BY <1>9 DEF PollCompleted
  <2>2. ~Expecting(idx[o])
    BY <2>1 DEF Expecting
  <2> QED BY <1>0, <1>3, <2>1, <2>2, DeliverFinish
<1>10. CASE PollFinal(o)
  <2> DEFINE s == life[idx[o]].cqes
  <2>1. PICK k \in 1..Len(s) : ~s[k].more /\ Finish(o, k)
    BY <1>10 DEF PollFinal
  <2>2. life[idx[o]].st = "CompletionList"
    BY <1>10 DEF PollFinal
  <2>3. s \in Seq(CQE) /\ AllButLastMore(s)
    BY <1>2, <2>2 DEF IInv, ListInv
  <2>4. k = Len(s)
    BY <2>1, <2>3 DEF AllButLastMore
  <2>5. ~Expecting(idx[o])
    BY <2>1, <2>2, <2>4 DEF Expecting, Last
  <2> QED BY <1>0, <2>1, <2>4, <2>5, DeliverFinish
<1> QED BY <1>6, <1>7, <1>8, <1>9, <1>10 DEF Poll

\* Every step keeps it.
LEMMA DeliveryNext == IInv /\ DeliveryInv /\ [Next]_vars => DeliveryInv'
<1> SUFFICES ASSUME IInv, DeliveryInv, [Next]_vars, ~AfterMark' PROVE DeliveryInv'
  BY DEF DeliveryInv
<1>0. ~AfterMark /\ \A o \in Ops : Delivering(o)
  BY BeforeMark DEF DeliveryInv
<1>1. CASE Moves \/ \E o \in Ops : Cancel(o)
  <2>1. UNCHANGED <<life, fut, held, idx, got, posted, cq, sq, inflight>>
    BY <1>1 DEF Moves, Cancel, futures, rings
  <2>2. \A p \in Ops : InKernel(p)' <=> InKernel(p)
    BY <2>1 DEF InKernel, Queued
  <2> QED BY <1>0, <2>1, <2>2, OthersDeliver DEF DeliveryInv
<1>2. ASSUME Takes PROVE DeliveryInv'
  <2>1. Take /\ UNCHANGED <<life, fut, held, idx, got, posted>>
    BY <1>2 DEF Takes, futures
  <2>2. /\ Len(sq) \in Nat \ {0} /\ Head(sq) = sq[1]
        /\ \A k \in 1..Len(sq') : sq'[k] = sq[k + 1] /\ k + 1 \in 1..Len(sq)
    BY <2>1, TakeFacts DEF IInv, TypeOK
  <2>3. \A p \in Ops : Queued(p)' => Queued(p)
    BY <2>2 DEF Queued
  <2>4. \A p \in inflight' : p \in inflight \/ Queued(p)
    <3>1. 1 \in 1..Len(sq)
      BY <2>2
    <3> QED BY <2>1, <2>2, <3>1 DEF Take, Queued
  <2>5. \A p \in Ops : InKernel(p)' => InKernel(p)
    BY <2>3, <2>4 DEF InKernel
  <2> DEFINE c == [op |-> None, ud |-> CancelUD, more |-> FALSE, n |-> 0]
  <2>6. c \in CQE /\ c.op = None
    BY DEF CQE, CancelUD
  <2>7. cq' = cq \/ cq' = Append(cq, c)
    BY <2>1 DEF Take
  <2> HIDE DEF c
  <2> SUFFICES ASSUME NEW p \in Ops PROVE Delivering(p)'
    BY DEF DeliveryInv
  <2>8. cq' = cq \/ \E d \in CQE : d.op # p /\ cq' = Append(cq, d)
    BY <2>6, <2>7
  <2> QED BY <1>0, <2>1, <2>5, <2>8, OthersDeliver
<1>3. ASSUME Kernel PROVE DeliveryInv'
  BY <1>0, <1>3, DeliverPost DEF Kernel
<1>4. CASE Push
  <2>1. /\ UNCHANGED <<life, held, idx, got, posted, cq, inflight>>
        /\ sq' = Append(sq, pend) /\ pc = "push"
        /\ fut' = IF pend.cancel THEN fut ELSE [fut EXCEPT ![pend.op] = "alive"]
    BY <1>4 DEF Push
  <2>2. sq \in Seq(SQE) /\ pend \in SQE
    BY DEF IInv, TypeOK, RingType, ControlType
  <2>3. /\ Len(sq) \in Nat /\ Len(sq') = Len(sq) + 1 /\ sq'[Len(sq) + 1] = pend
        /\ \A k \in 1..Len(sq) : sq'[k] = sq[k]
    BY <2>1, <2>2, AppendProperties
  <2> SUFFICES ASSUME NEW p \in Ops PROVE Delivering(p)'
    BY DEF DeliveryInv
  <2>4. CASE ~pend.cancel /\ pend.op = p
    <3>1. Pending(p)
      BY <2>1, <2>4 DEF Pending, Pushing
    <3>2. fut[p] = "submitting"
      BY <3>1 DEF IInv, PendOnce
    <3>3. held[p] /\ fut'[p] = "alive"
      BY <1>0, <2>1, <2>4, <3>2 DEF Delivering, IInv, TypeOK, FutureType
    <3> QED BY <1>0, <2>1, <3>3 DEF Delivering
  <2>5. CASE pend.cancel \/ pend.op # p
    <3>1. fut'[p] = fut[p]
      BY <2>1, <2>5 DEF IInv, TypeOK, FutureType
    <3>2. Queued(p)' => Queued(p)
      <4> SUFFICES ASSUME NEW k \in 1..Len(sq'), sq'[k].op = p, ~sq'[k].cancel PROVE Queued(p)
        BY DEF Queued
      <4>1. k \in 1..Len(sq)
        BY <2>3, <2>5
      <4> QED BY <2>3, <4>1 DEF Queued
    <3>3. InKernel(p)' => InKernel(p)
      BY <2>1, <3>2 DEF InKernel
    <3> QED BY <1>0, <2>1, <3>1, <3>3, OthersDeliver
  <2> QED BY <2>4, <2>5
<1>5. CASE SubmitErr
  <2>1. UNCHANGED <<life, idx, got, posted, cq, sq, inflight>>
    BY <1>5 DEF SubmitErr, rings
  <2>2. \A p \in Ops : InKernel(p)' <=> InKernel(p)
    BY <2>1 DEF InKernel, Queued
  <2> SUFFICES ASSUME NEW p \in Ops PROVE Delivering(p)'
    BY DEF DeliveryInv
  <2>3. (fut'[p] = fut[p] /\ held'[p] = held[p]) \/ (fut'[p] = "gone" /\ ~held'[p])
    BY <1>5 DEF SubmitErr, IInv, TypeOK, FutureType
  <2>4. CASE fut'[p] = fut[p] /\ held'[p] = held[p]
    BY <1>0, <2>1, <2>2, <2>4, OthersDeliver
  <2>5. CASE fut'[p] = "gone" /\ ~held'[p]
    BY <2>5 DEF Delivering
  <2> QED BY <2>3, <2>4, <2>5
<1>6. CASE DispatchOne
  BY <1>0, <1>6, DeliverDispatch
<1>7. ASSUME NEW o \in Ops, NEW i \in Slots, Submit(o, i) PROVE DeliveryInv'
  BY <1>0, <1>7, DeliverSubmit
<1>8. ASSUME NEW o \in Ops, Poll(o) PROVE DeliveryInv'
  BY <1>8, DeliverPoll
<1>9. ASSUME NEW o \in Ops, Drop(o) PROVE DeliveryInv'
  <2>1. /\ life' = IF held[o] THEN [life EXCEPT ![idx[o]] = Removed(@, o)] ELSE life
        /\ held' = [held EXCEPT ![o] = FALSE] /\ fut' = [fut EXCEPT ![o] = "gone"]
        /\ UNCHANGED <<idx, rings, posted, got>>
    BY <1>9 DEF Drop
  <2>2. /\ ~held'[o] /\ fut'[o] = "gone"
        /\ \A p \in Ops \ {o} : held'[p] = held[p] /\ fut'[p] = fut[p]
    BY <2>1 DEF IInv, TypeOK, FutureType
  <2>3. CASE held[o]
    <3>1. life' = [life EXCEPT ![idx[o]] = Removed(life[idx[o]], o)]
      BY <2>1, <2>3
    <3> QED BY <1>0, <2>1, <2>2, <2>3, <3>1, DeliverSlot
  <2>4. CASE ~held[o]
    <3>1. cq' = cq /\ \A p \in Ops : InKernel(p)' <=> InKernel(p)
      BY <2>1 DEF InKernel, Queued, rings
    <3>2. \A p \in Ops \ {o} : Delivering(p)'
      BY <1>0, <2>1, <2>2, <2>4, <3>1, OthersDeliver
    <3>3. Delivering(o)'
      BY <2>2 DEF Delivering
    <3> QED BY <3>2, <3>3 DEF DeliveryInv
  <2> QED BY <2>3, <2>4
<1> QED BY <1>1, <1>2, <1>3, <1>4, <1>5, <1>6, <1>7, <1>8, <1>9, BeforeMark

\* No completion of a future that waits is lost, duplicated or reordered between
\* the kernel and the future, and a finished one consumed them all
\* (Driver::dispatch_completions, Lifecycle::complete, poll_multishot_op).
THEOREM CompletionsInOrder == Spec => []InOrderDelivery
<1>1. Init => DeliveryInv
  BY DEF Init, DeliveryInv, Delivering
<1>2. IInv /\ DeliveryInv /\ [Next]_vars => DeliveryInv'
  BY DeliveryNext
<1>3. DeliveryInv => InOrderDelivery
  BY DEF DeliveryInv, Delivering, Ordered, Count, InOrderDelivery, OfOp
<1> QED BY <1>1, <1>2, <1>3, DriverInvariant, PTL DEF Spec

-----------------------------------------------------------------------------
(* The view of the owner: OpService.                                       *)

\* An operation that has not been pushed is unknown to the kernel.
Unsent ==
  \A o \in Ops : fut[o] \in {"new", "submitting"} => posted[o] = 0 /\ ~InKernel(o)

\* The steps that no owner and no ring entry of an operation takes part in.
Hidden == UNCHANGED <<fut, held, posted, got, sq, inflight>>

TakesHidden == Take /\ UNCHANGED <<fut, held, posted, got>>

LEMMA StepKinds ==
  ASSUME [Next]_vars
  PROVE  \/ Hidden \/ TakesHidden \/ Kernel
         \/ Push \/ CancelPush \/ SubmitErr
         \/ \E o \in Ops : (\E i \in Slots : Submit(o, i)) \/ Poll(o) \/ Drop(o) \/ LateDrop(o)
<1> USE DEF rings, control, futures
<1>1. ASSUME PushFull \/ SubmitBusy \/ EnteredReturn \/ DispatchOne \/ DispatchEnd PROVE Hidden
  BY <1>1 DEF PushFull, SubmitBusy, EnteredReturn, DispatchOne, DispatchEnd, Hidden
<1>2. ASSUME SubmitEnter \/ EnteredTake \/ Park \/ CancelFull PROVE TakesHidden
  BY <1>2 DEF SubmitEnter, EnteredTake, Park, CancelFull, TakesHidden
<1>3. ASSUME ParkFlushesOnly \/ Dispatch \/ DropDriver \/ FlushSome \/ FlushDone PROVE Hidden
  BY <1>3 DEF ParkFlushesOnly, Dispatch, DropDriver, FlushSome, FlushDone, Hidden
<1>4. ASSUME NEW o \in Ops, Cancel(o) PROVE Hidden
  BY <1>4 DEF Cancel, Hidden
<1>5. ASSUME Mark \/ CancelSkip \/ CancelFails \/ CancelDone PROVE Hidden
  BY <1>5 DEF Mark, CancelSkip, CancelFails, CancelDone, Hidden
<1>6. ASSUME ReapWait PROVE Hidden \/ TakesHidden
  BY <1>6 DEF ReapWait, Hidden, TakesHidden
<1>7. ASSUME ReapWaitFails \/ ReapWaitErr \/ ReapRemove \/ ReapNext \/ ReapDone PROVE Hidden
  BY <1>7 DEF ReapWaitFails, ReapWaitErr, ReapRemove, ReapNext, ReapDone, Hidden
<1>8. ASSUME UNCHANGED vars PROVE Hidden
  BY <1>8 DEF vars, Hidden
<1> QED
  BY <1>1, <1>2, <1>3, <1>4, <1>5, <1>6, <1>7, <1>8 DEF Next, InCall, Shutdown, Stopped

\* What the steps that move submission entries do to what the kernel holds.
LEMMA TakeKeepsKernel ==
  ASSUME IInv, Take, NEW o \in Ops
  PROVE  InKernel(o)' <=> InKernel(o)
<1>1. /\ Len(sq) \in Nat \ {0} /\ Len(sq') = Len(sq) - 1 /\ Head(sq) = sq[1]
      /\ \A k \in 1..Len(sq') : sq'[k] = sq[k + 1] /\ k + 1 \in 1..Len(sq)
  BY TakeFacts DEF IInv, TypeOK
<1>2. Queued(o) <=> Queued(o)' \/ (sq[1].op = o /\ ~sq[1].cancel)
  <2>1. ASSUME NEW k \in 1..Len(sq), sq[k].op = o, ~sq[k].cancel, k # 1 PROVE Queued(o)'
    <3>1. k - 1 \in 1..Len(sq') /\ (k - 1) + 1 = k
      BY <1>1, <2>1
    <3>2. sq'[k - 1] = sq[k]
      BY <1>1, <3>1
    <3> QED BY <2>1, <3>1, <3>2 DEF Queued
  <2>2. Queued(o)' => Queued(o)
    BY <1>1 DEF Queued
  <2>3. 1 \in 1..Len(sq)
    BY <1>1
  <2> QED BY <2>1, <2>2, <2>3 DEF Queued
<1>3. o \in inflight' <=> o \in inflight \/ (sq[1].op = o /\ ~sq[1].cancel)
  BY <1>1 DEF Take
<1> QED BY <1>2, <1>3 DEF InKernel

LEMMA AppendsToKernel ==
  ASSUME IInv, NEW e \in SQE, sq' = Append(sq, e), UNCHANGED inflight, NEW o \in Ops
  PROVE  InKernel(o)' <=> InKernel(o) \/ (e.op = o /\ ~e.cancel)
<1>1. sq \in Seq(SQE)
  BY DEF IInv, TypeOK, RingType
<1>2. /\ Len(sq) \in Nat /\ Len(sq') = Len(sq) + 1 /\ sq'[Len(sq) + 1] = e
      /\ \A k \in 1..Len(sq) : sq'[k] = sq[k]
  BY <1>1, AppendProperties
<1>3. \A k : k \in 1..Len(sq') <=> k \in 1..Len(sq) \/ k = Len(sq) + 1
  BY <1>2
<1> QED BY <1>2, <1>3 DEF InKernel, Queued

\* The kernel posts for o: o was not over, and the last completion makes it so.
LEMMA PostsView ==
  ASSUME IInv, NEW o \in Ops, KMore(o) \/ KFinal(o)
  PROVE  /\ fut[o] # "new" /\ InKernel(o)
         /\ posted'[o] = posted[o] + 1 /\ \A p \in Ops \ {o} : posted'[p] = posted[p]
         /\ \A p \in Ops \ {o} : InKernel(p)' <=> InKernel(p)
         /\ posted' = [posted EXCEPT ![o] = @ + 1] /\ UNCHANGED <<fut, held, got>>
<1>1. /\ o \in inflight /\ posted' = [posted EXCEPT ![o] = @ + 1]
      /\ UNCHANGED <<fut, held, got, sq>>
      /\ \A p \in Ops \ {o} : p \in inflight' <=> p \in inflight
  BY DEF KMore, KFinal, futures
<1>2. idx[o] \in Slots
  BY <1>1 DEF IInv, RouteInv, Outstanding, Live
<1>3. fut[o] # "new"
  BY <1>2 DEF IInv, FutInv, CancelUD, Slots
<1>4. \A p \in Ops : Queued(p)' <=> Queued(p)
  BY <1>1 DEF Queued
<1> QED BY <1>1, <1>3, <1>4 DEF InKernel, IInv, TypeOK, FutureType

\* Pushing the entry of an operation: its future is still being submitted.
LEMMA PushView ==
  ASSUME IInv, Push, NEW o \in Ops
  PROVE  \/ /\ fut'[o] = fut[o]
            /\ InKernel(o)' <=> InKernel(o)
         \/ fut[o] = "submitting" /\ fut'[o] = "alive"
<1>1. /\ sq' = Append(sq, pend) /\ UNCHANGED inflight /\ pc = "push"
      /\ fut' = IF pend.cancel THEN fut ELSE [fut EXCEPT ![pend.op] = "alive"]
  BY DEF Push
<1>2. pend \in SQE
  BY DEF IInv, TypeOK, ControlType
<1>3. InKernel(o)' <=> InKernel(o) \/ (pend.op = o /\ ~pend.cancel)
  BY <1>1, <1>2, AppendsToKernel
<1>4. CASE pend.op = o /\ ~pend.cancel
  BY <1>1, <1>4 DEF IInv, PendOnce, Pending, Pushing, TypeOK, FutureType
<1>5. CASE ~(pend.op = o /\ ~pend.cancel)
  BY <1>1, <1>3, <1>5 DEF IInv, TypeOK, FutureType
<1> QED BY <1>4, <1>5

LEMMA CancelPushView ==
  ASSUME IInv, CancelPush, NEW o \in Ops
  PROVE  InKernel(o)' <=> InKernel(o)
<1> DEFINE e == [op |-> None, cancel |-> TRUE, ud |-> cur]
<1>1. sq' = Append(sq, e) /\ UNCHANGED inflight
  BY DEF CancelPush
<1>2. e \in SQE /\ e.cancel
  BY DEF SQE, IInv, TypeOK, ControlType
<1> HIDE DEF e
<1> QED BY <1>1, <1>2, AppendsToKernel

\* The step of an owner moves no request.
LEMMA OwnerSteps ==
  ASSUME NEW o \in Ops, (\E i \in Slots : Submit(o, i)) \/ Poll(o) \/ Drop(o) \/ LateDrop(o)
  PROVE  UNCHANGED <<sq, inflight, posted>>
  BY DEF Submit, Poll, PollPending, PollDrained, PollYield, PollCompleted, PollFinal, Finish,
         Drop, LateDrop, rings

\* Every step keeps it.
LEMMA UnsentNext == IInv /\ Unsent /\ [Next]_vars => Unsent'
<1> SUFFICES ASSUME IInv, Unsent, [Next]_vars, NEW o \in Ops, fut'[o] \in {"new", "submitting"}
             PROVE  posted'[o] = 0 /\ ~InKernel(o)'
  BY DEF Unsent
<1>f. fut \in [Ops -> {"new", "submitting", "alive", "gone"}]
  BY DEF IInv, TypeOK, FutureType
<1>1. CASE Hidden
  BY <1>1 DEF Hidden, Unsent, InKernel, Queued
<1>2. CASE TakesHidden
  BY <1>2, TakeKeepsKernel DEF TakesHidden, Unsent
<1>3. CASE Kernel
  <2>1. PICK p \in Ops : KMore(p) \/ KFinal(p)
    BY <1>3 DEF Kernel
  <2>2. o # p
    BY <2>1, PostsView DEF Unsent
  <2> QED BY <2>1, <2>2, PostsView DEF Unsent
<1>4. CASE Push
  <2>1. UNCHANGED posted
    BY <1>4 DEF Push
  <2> QED BY <1>4, <2>1, PushView DEF Unsent
<1>5. CASE CancelPush
  BY <1>5, CancelPushView DEF CancelPush, futures, Unsent
<1>6. CASE SubmitErr
  <2>1. UNCHANGED <<sq, inflight, posted>> /\ fut'[o] \in {fut[o], "gone"}
    BY <1>6, <1>f DEF SubmitErr, rings
  <2> QED BY <2>1 DEF Unsent, InKernel, Queued
<1>7. ASSUME NEW p \in Ops, (\E i \in Slots : Submit(p, i)) \/ Poll(p) \/ Drop(p) \/ LateDrop(p)
      PROVE  posted'[o] = 0 /\ ~InKernel(o)'
  <2>1. UNCHANGED <<sq, inflight, posted>>
    BY <1>7, OwnerSteps
  <2>2. fut[o] \in {"new", "submitting"}
    BY <1>7, <1>f DEF Submit, Poll, PollPending, PollDrained, PollYield, PollCompleted, PollFinal,
                      Finish, Drop, LateDrop
  <2> QED BY <2>1, <2>2 DEF Unsent, InKernel, Queued
<1> QED BY <1>1, <1>2, <1>3, <1>4, <1>5, <1>6, <1>7, StepKinds

\* A step that leaves the futures, the counters and the kernel's requests as they
\* are is a stutter.
LEMMA SameView ==
  ASSUME UNCHANGED <<posted, got>>, \A o \in Ops : Phase(o)' = Phase(o),
         \A o \in Ops : Over(o)' <=> Over(o)
  PROVE  UNCHANGED Svc!vars
<1>1. {o \in Ops : Over(o)}' = {o \in Ops : Over(o)}
  OBVIOUS
<1>2. [o \in Ops |-> Phase(o)]' = [o \in Ops |-> Phase(o)]
  OBVIOUS
<1> QED BY <1>1, <1>2 DEF Svc!vars

\* A step of one owner: the phases of the others do not change.
LEMMA PhaseStep ==
  ASSUME NEW o \in Ops, NEW v, Phase(o)' = v, \A p \in Ops \ {o} : Phase(p)' = Phase(p)
  PROVE  [p \in Ops |-> Phase(p)]' = [[p \in Ops |-> Phase(p)] EXCEPT ![o] = v]
  OBVIOUS

LEMMA PostSimulates ==
  ASSUME IInv, NEW o \in Ops, KMore(o) \/ KFinal(o)
  PROVE  Svc!Answer(o)
<1> DEFINE over == {p \in Ops : Over(p)}
<1>1. posted \in [Ops -> Nat] /\ got \in [Ops -> Nat]
  BY DEF IInv, TypeOK, FutureType
<1>2. \A p \in Ops : Phase(p)' = Phase(p)
  BY PostsView DEF Phase
<1>3. [p \in Ops |-> Phase(p)]' = [p \in Ops |-> Phase(p)]
  BY <1>2
<1>4. o \notin over /\ Phase(o) # "new"
  BY PostsView DEF Over, Phase
<1>5. \A p \in Ops \ {o} : Over(p)' <=> Over(p)
  BY PostsView DEF Over
<1>6. over' \in {over, over \cup {o}}
  <2>1. CASE Over(o)'
    BY <1>5, <2>1
  <2>2. CASE ~Over(o)'
    BY <1>4, <1>5, <2>2
  <2> QED BY <2>1, <2>2
<1>7. posted' = [posted EXCEPT ![o] = @ + 1] /\ got' = got
  BY PostsView
<1>8. [p \in Ops |-> Phase(p)][o] # "new"
  BY <1>4
<1> QED BY <1>3, <1>4, <1>6, <1>7, <1>8 DEF Svc!Answer

LEMMA SubmitSimulates ==
  ASSUME IInv, NEW o \in Ops, NEW i \in Slots, Submit(o, i)
  PROVE  Svc!Open(o)
<1>1. /\ fut[o] = "new" /\ UNCHANGED <<posted, got, sq, inflight>>
      /\ fut' = [fut EXCEPT ![o] = "submitting"] /\ held' = [held EXCEPT ![o] = TRUE]
  BY DEF Submit, rings
<1>2. /\ fut'[o] = "submitting" /\ held'[o]
      /\ \A p \in Ops \ {o} : fut'[p] = fut[p] /\ held'[p] = held[p]
  BY <1>1 DEF IInv, TypeOK, FutureType
<1>3. Phase(o) = "new" /\ Phase(o)' = "open" /\ \A p \in Ops \ {o} : Phase(p)' = Phase(p)
  BY <1>1, <1>2 DEF Phase
<1>4. \A p \in Ops : Over(p)' <=> Over(p)
  BY <1>1 DEF Over, InKernel, Queued
<1>5. {p \in Ops : Over(p)}' = {p \in Ops : Over(p)}
  BY <1>4
<1>6. [p \in Ops |-> Phase(p)][o] = "new"
  BY <1>3
<1>7. [p \in Ops |-> Phase(p)]' = [[p \in Ops |-> Phase(p)] EXCEPT ![o] = "open"]
  BY <1>3, PhaseStep
<1> QED BY <1>1, <1>5, <1>6, <1>7 DEF Svc!Open

\* An owner that loses its future: the operation is given up if it was open.
LEMMA LosesFuture ==
  ASSUME IInv, NEW o \in Ops, UNCHANGED <<posted, got, sq, inflight>>, fut[o] # "new",
         fut' = [fut EXCEPT ![o] = "gone"], held' = [held EXCEPT ![o] = FALSE]
  PROVE  Svc!GiveUp(o) \/ UNCHANGED Svc!vars
<1>1. /\ fut'[o] = "gone" /\ ~held'[o]
      /\ \A p \in Ops \ {o} : fut'[p] = fut[p] /\ held'[p] = held[p]
  BY DEF IInv, TypeOK, FutureType
<1>2. \A p \in Ops : Over(p)' <=> Over(p)
  BY DEF Over, InKernel, Queued
<1>3. Phase(o)' = "closed" /\ \A p \in Ops \ {o} : Phase(p)' = Phase(p)
  BY <1>1 DEF Phase
<1>4. CASE held[o]
  <2>1. Phase(o) = "open"
    BY <1>4 DEF Phase
  <2>2. [p \in Ops |-> Phase(p)][o] = "open"
    BY <2>1
  <2>3. [p \in Ops |-> Phase(p)]' = [[p \in Ops |-> Phase(p)] EXCEPT ![o] = "closed"]
    BY <1>3, PhaseStep
  <2>4. {p \in Ops : Over(p)}' = {p \in Ops : Over(p)}
    BY <1>2
  <2> QED BY <2>2, <2>3, <2>4 DEF Svc!GiveUp
<1>5. CASE ~held[o]
  <2>1. Phase(o) = "closed"
    BY <1>5 DEF Phase
  <2>2. \A p \in Ops : Phase(p)' = Phase(p)
    BY <1>3, <2>1
  <2> QED BY <1>2, <2>2, SameView
<1> QED BY <1>4, <1>5

\* A poll that consumes k completions and does not finish.
LEMMA YieldSimulates ==
  ASSUME IInv, DeliveryInv', ~AfterMark', NEW o \in Ops, fut[o] = "alive", held[o],
         NEW k \in Nat \ {0}, UNCHANGED <<fut, held, sq, inflight, posted>>, idx' = idx,
         got' = [got EXCEPT ![o] = @ + k], life'[idx[o]].cqes \in Seq(CQE), cq \in Seq(CQE), cq' = cq
  PROVE  Svc!Receive(o, k) /\ k \in 1..posted[o]
<1>1. got \in [Ops -> Nat] /\ posted \in [Ops -> Nat]
  BY DEF IInv, TypeOK, FutureType
<1>2. got'[o] = got[o] + k
  BY <1>1
<1>3. posted[o] = got'[o] + Len(life'[idx[o]].cqes) + Count(cq, o, Len(cq))
  BY DEF DeliveryInv, Delivering, Ordered
<1>4. Len(life'[idx[o]].cqes) \in Nat /\ Count(cq, o, Len(cq)) \in Nat
  <2>1. Len(cq) \in Nat /\ Len(life'[idx[o]].cqes) \in Nat
    OBVIOUS
  <2> DEFINE q == cq  m == Len(cq)
  <2> HIDE DEF q, m
  <2>2. Count(q, o, m) \in Nat
    BY <2>1, CountType DEF m
  <2> QED BY <2>1, <2>2 DEF q, m
<1>5. got[o] + k <= posted[o] /\ k \in 1..posted[o]
  BY <1>1, <1>2, <1>3, <1>4
<1>6. \A p \in Ops : Over(p)' <=> Over(p)
  BY DEF Over, InKernel, Queued
<1>7. \A p \in Ops : Phase(p)' = Phase(p)
  BY DEF Phase
<1>8. /\ {p \in Ops : Over(p)}' = {p \in Ops : Over(p)}
      /\ [p \in Ops |-> Phase(p)]' = [p \in Ops |-> Phase(p)]
  BY <1>6, <1>7
<1>9. [p \in Ops |-> Phase(p)][o] = "open"
  BY DEF Phase
<1> QED BY <1>5, <1>8, <1>9 DEF Svc!Receive

\* A poll that finishes: all has been posted and consumed.
LEMMA FinishSimulates ==
  ASSUME IInv, DeliveryInv', ~AfterMark', NEW o \in Ops, fut[o] = "alive", held[o],
         NEW n \in Nat \ {0}, Finish(o, n)
  PROVE  Svc!Complete(o)
<1>1. /\ UNCHANGED <<fut, sq, inflight, posted>>
      /\ held' = [held EXCEPT ![o] = FALSE] /\ got' = [got EXCEPT ![o] = @ + n]
  BY DEF Finish, rings
<1>2. got \in [Ops -> Nat] /\ posted \in [Ops -> Nat] /\ held \in [Ops -> BOOLEAN]
  BY DEF IInv, TypeOK, FutureType
<1>3. /\ ~held'[o] /\ \A p \in Ops \ {o} : held'[p] = held[p]
      /\ got'[o] = got[o] + n
  BY <1>1, <1>2
<1>4. got'[o] = posted[o] /\ ~InKernel(o)'
  BY <1>1, <1>3 DEF DeliveryInv, Delivering
<1>5. \A p \in Ops : InKernel(p)' <=> InKernel(p)
  BY <1>1 DEF InKernel, Queued
<1>6. got[o] < posted[o] /\ posted[o] > 0 /\ got' = [got EXCEPT ![o] = posted[o]]
  <2>1. got[o] + n = posted[o]
    BY <1>3, <1>4
  <2>2. got[o] \in Nat /\ posted[o] \in Nat
    BY <1>2
  <2>3. got' = [got EXCEPT ![o] = posted[o]]
    BY <1>1, <2>1
  <2> QED BY <2>1, <2>2, <2>3
<1>7. Over(o) /\ \A p \in Ops : Over(p)' <=> Over(p)
  BY <1>1, <1>4, <1>5, <1>6 DEF Over
<1>8. Phase(o) = "open" /\ Phase(o)' = "closed" /\ \A p \in Ops \ {o} : Phase(p)' = Phase(p)
  BY <1>1, <1>3 DEF Phase
<1>9. /\ {p \in Ops : Over(p)}' = {p \in Ops : Over(p)}
      /\ [p \in Ops |-> Phase(p)][o] = "open"
  BY <1>7, <1>8
<1>10. [p \in Ops |-> Phase(p)]' = [[p \in Ops |-> Phase(p)] EXCEPT ![o] = "closed"]
  BY <1>8, PhaseStep
<1> QED BY <1>1, <1>6, <1>7, <1>9, <1>10 DEF Svc!Complete

LEMMA PollSimulates ==
  ASSUME IInv, IInv', DeliveryInv', NEW o \in Ops, Poll(o)
  PROVE  Svc!Complete(o) \/ (\E k \in 1..posted[o] : Svc!Receive(o, k)) \/ UNCHANGED Svc!vars
<1> DEFINE l == life[idx[o]]
<1>1. CanPoll(o) /\ pc' = pc
  BY DEF Poll, PollPending, PollDrained, PollYield, PollCompleted, PollFinal, Finish, control
<1>2. ~AfterMark' /\ held[o] /\ fut[o] = "alive"
  BY <1>1 DEF CanPoll, AfterMark, Marking
<1>3. l \in LifecycleType /\ l.cqes \in Seq(CQE)
  BY <1>2, DeliveryTypes
<1>4. ASSUME UNCHANGED <<held, idx>> PROVE life'[idx[o]].cqes \in Seq(CQE)
  BY <1>2, <1>4, LifecycleFields DEF IInv, TypeOK, SlabType, FutureType
<1>5. cq \in Seq(CQE)
  BY DEF IInv, TypeOK, RingType
<1>6. ASSUME NEW w \in Wakers, PollPending(o, w) PROVE UNCHANGED Svc!vars
  <2>1. UNCHANGED <<fut, held, got, posted, sq, inflight>>
    BY <1>6 DEF PollPending, rings
  <2>2. \A p \in Ops : Phase(p)' = Phase(p) /\ (Over(p)' <=> Over(p))
    BY <2>1 DEF Phase, Over, InKernel, Queued
  <2> QED BY <2>1, <2>2, SameView
<1>7. ASSUME NEW w \in Wakers, PollDrained(o, w) PROVE \E k \in 1..posted[o] : Svc!Receive(o, k)
  <2> DEFINE k == Len(l.cqes)
  <2>1. /\ UNCHANGED <<fut, held, idx, posted, sq, inflight, cq>> /\ l.st = "CompletionList"
        /\ got' = [got EXCEPT ![o] = @ + k]
    BY <1>7 DEF PollDrained, rings
  <2>2. l.cqes # <<>>
    BY <1>3, <2>1, LifecycleFields
  <2>3. k \in Nat \ {0}
    BY <1>3, <2>2, EmptySeq
  <2> HIDE DEF k
  <2>4. Svc!Receive(o, k) /\ k \in 1..posted[o]
    BY <1>2, <1>4, <1>5, <2>1, <2>3, YieldSimulates
  <2> QED BY <2>4
<1>8. ASSUME NEW w \in Wakers, NEW k \in 1..(MaxMore + 1), PollYield(o, w, k)
      PROVE  \E n \in 1..posted[o] : Svc!Receive(o, n)
  <2>1. /\ UNCHANGED <<fut, held, idx, posted, sq, inflight, cq>>
        /\ got' = [got EXCEPT ![o] = @ + k]
    BY <1>8 DEF PollYield, rings
  <2>2. k \in Nat \ {0}
    OBVIOUS
  <2>3. Svc!Receive(o, k) /\ k \in 1..posted[o]
    BY <1>2, <1>4, <1>5, <2>1, <2>2, YieldSimulates
  <2> QED BY <2>3
<1>9. CASE PollCompleted(o)
  BY <1>2, <1>9, FinishSimulates DEF PollCompleted
<1>10. CASE PollFinal(o)
  <2>1. PICK k \in 1..Len(l.cqes) : Finish(o, k)
    BY <1>10 DEF PollFinal
  <2>2. k \in Nat \ {0}
    BY <1>3
  <2> QED BY <1>2, <2>1, <2>2, FinishSimulates
<1> QED BY <1>6, <1>7, <1>8, <1>9, <1>10 DEF Poll

\* A failed submission takes the operation away from its caller, or nothing.
LEMMA SubmitErrSimulates ==
  ASSUME IInv, SubmitErr
  PROVE  (\E o \in Ops : Svc!GiveUp(o)) \/ UNCHANGED Svc!vars
<1>1. UNCHANGED <<posted, got, sq, inflight>>
  BY DEF SubmitErr, rings
<1>2. CASE submitRet = "push" /\ ~pend.cancel
  <2>1. /\ fut' = [fut EXCEPT ![pend.op] = "gone"] /\ held' = [held EXCEPT ![pend.op] = FALSE]
        /\ pc = "submit"
    BY <1>2 DEF SubmitErr
  <2>2. pend.op \in Ops
    BY <1>2 DEF IInv, TypeOK, ControlType, SQE
  <2>3. fut[pend.op] = "submitting"
    BY <1>2, <2>1, <2>2 DEF IInv, PendOnce, Pending, Pushing
  <2>4. fut[pend.op] # "new"
    BY <2>3
  <2> QED BY <1>1, <2>1, <2>2, <2>4, LosesFuture
<1>3. CASE ~(submitRet = "push" /\ ~pend.cancel)
  <2>1. UNCHANGED <<fut, held>>
    BY <1>3 DEF SubmitErr
  <2>2. \A p \in Ops : Phase(p)' = Phase(p) /\ (Over(p)' <=> Over(p))
    BY <1>1, <2>1 DEF Phase, Over, InKernel, Queued
  <2> QED BY <1>1, <2>2, SameView
<1> QED BY <1>2, <1>3

\* Every step of the driver is a step of the service or a stutter.
LEMMA ServiceStep ==
  ASSUME IInv, IInv', DeliveryInv', Unsent, [Next]_vars
  PROVE  [Svc!Next]_(Svc!vars)
<1>1. CASE Hidden
  <2>1. \A p \in Ops : Phase(p)' = Phase(p) /\ (Over(p)' <=> Over(p))
    BY <1>1 DEF Hidden, Phase, Over, InKernel, Queued
  <2> QED BY <1>1, <2>1, SameView DEF Hidden
<1>2. CASE TakesHidden
  <2>1. \A p \in Ops : InKernel(p)' <=> InKernel(p)
    BY <1>2, TakeKeepsKernel DEF TakesHidden
  <2>2. \A p \in Ops : Phase(p)' = Phase(p) /\ (Over(p)' <=> Over(p))
    BY <1>2, <2>1 DEF TakesHidden, Phase, Over
  <2> QED BY <1>2, <2>2, SameView DEF TakesHidden
<1>3. CASE Kernel
  <2>1. PICK o \in Ops : KMore(o) \/ KFinal(o)
    BY <1>3 DEF Kernel
  <2>2. Svc!Answer(o)
    BY <2>1, PostSimulates
  <2> QED BY <2>2 DEF Svc!Next
<1>4. CASE Push
  <2>1. UNCHANGED <<posted, got, held>>
    BY <1>4 DEF Push
  <2>2. ASSUME NEW p \in Ops PROVE Phase(p)' = Phase(p) /\ (Over(p)' <=> Over(p))
    <3>1. CASE fut'[p] = fut[p] /\ (InKernel(p)' <=> InKernel(p))
      BY <2>1, <3>1 DEF Phase, Over
    <3>2. CASE fut[p] = "submitting" /\ fut'[p] = "alive"
      <4>1. posted[p] = 0
        BY <3>2 DEF Unsent
      <4> QED BY <2>1, <3>2, <4>1 DEF Phase, Over
    <3> QED BY <1>4, <3>1, <3>2, PushView
  <2> QED BY <2>1, <2>2, SameView
<1>5. CASE CancelPush
  <2>1. UNCHANGED <<fut, held, posted, got>>
    BY <1>5 DEF CancelPush, futures
  <2>2. \A p \in Ops : Phase(p)' = Phase(p) /\ (Over(p)' <=> Over(p))
    BY <1>5, <2>1, CancelPushView DEF Phase, Over
  <2> QED BY <2>1, <2>2, SameView
<1>6. CASE SubmitErr
  BY <1>6, SubmitErrSimulates DEF Svc!Next
<1>7. ASSUME NEW o \in Ops, NEW i \in Slots, Submit(o, i) PROVE Svc!Next
  BY <1>7, SubmitSimulates DEF Svc!Next
<1>8. ASSUME NEW o \in Ops, Poll(o) PROVE [Svc!Next]_(Svc!vars)
  BY <1>8, PollSimulates DEF Svc!Next
<1>9. ASSUME NEW o \in Ops, Drop(o) \/ LateDrop(o) PROVE [Svc!Next]_(Svc!vars)
  <2>1. /\ fut' = [fut EXCEPT ![o] = "gone"] /\ held' = [held EXCEPT ![o] = FALSE]
        /\ UNCHANGED <<posted, got, sq, inflight>> /\ fut[o] # "new"
    BY <1>9 DEF Drop, LateDrop, rings
  <2>2. Svc!GiveUp(o) \/ UNCHANGED Svc!vars
    BY <2>1, LosesFuture
  <2> QED BY <2>2 DEF Svc!Next
<1> QED BY <1>1, <1>2, <1>3, <1>4, <1>5, <1>6, <1>7, <1>8, <1>9, StepKinds

\* The driver implements OpService: whatever the rings, the overflow list, the slab,
\* the completion lists, failed submissions and the drop of the driver do, the owner
\* of an operation sees its completions once and up to where they were posted, its
\* future finishes only with the last one and after all the others (poll_op,
\* poll_multishot_op), and a dropped future (remove_op) sees nothing any more.
THEOREM DriverImplementsOpService == Spec => ImplementsOpService
<1>1. Init => Svc!Init
  <2> SUFFICES ASSUME Init PROVE Svc!Init
    OBVIOUS
  <2>1. /\ posted = [o \in Ops |-> 0] /\ got = [o \in Ops |-> 0]
        /\ \A o \in Ops : Phase(o) = "new" /\ ~Over(o)
    BY DEF Init, Phase, Over
  <2>2. [o \in Ops |-> Phase(o)] = [o \in Ops |-> "new"] /\ {o \in Ops : Over(o)} = {}
    BY <2>1
  <2> QED BY <2>1, <2>2 DEF Svc!Init
<1>2. Init => DeliveryInv /\ Unsent
  <2> SUFFICES ASSUME Init PROVE DeliveryInv /\ Unsent
    OBVIOUS
  <2>1. DeliveryInv
    BY DEF Init, DeliveryInv, Delivering
  <2>2. Unsent
    BY DEF Init, Unsent, InKernel, Queued
  <2> QED BY <2>1, <2>2
<1>3. IInv /\ DeliveryInv /\ [Next]_vars => DeliveryInv'
  BY DeliveryNext
<1>4. IInv /\ Unsent /\ [Next]_vars => Unsent'
  BY UnsentNext
<1>5. IInv /\ IInv' /\ DeliveryInv' /\ Unsent /\ [Next]_vars => [Svc!Next]_(Svc!vars)
  BY ServiceStep
<1> QED BY <1>1, <1>2, <1>3, <1>4, <1>5, DriverInvariant, PTL DEF Spec, ImplementsOpService, Svc!Spec
=============================================================================
