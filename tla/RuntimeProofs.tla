--------------------------- MODULE RuntimeProofs ----------------------------
(***************************************************************************)
(* The context is that of the running loop, and only operations that have  *)
(* left their runtime panic when dropped: for any number of runtimes and   *)
(* operations.                                                             *)
(***************************************************************************)
EXTENDS Runtime, TLAPS

-----------------------------------------------------------------------------
(* The inductive invariant.                                                *)

Nowhere == {"none", "main", "outside", "gone"}

TypeOK ==
  /\ rt \in [Rts -> {"none", "built", "dropping", "dropped"}]
  /\ driver \subseteq Rts
  /\ drive \subseteq Rts
  /\ context \in Rts \cup {NoRt} /\ running \in Rts \cup {NoRt}
  /\ place \in [Ops -> Rts \cup Nowhere]
  /\ of \in [Ops -> Rts \cup {NoRt}] /\ made \in [Ops -> Rts \cup {NoRt}]
  /\ left \subseteq Ops /\ panics \subseteq Ops

\* The field `driver` exists until the drop of the runtime has ended, and only
\* a built runtime runs.
HandleInv ==
  /\ \A r \in Rts : r \in driver <=> rt[r] \in {"built", "dropping"}
  /\ running # NoRt => rt[running] = "built"

\* Where operations are: those that have not left their runtime are in its tasks
\* or in the main future while it runs, and no task outlives its runtime.
PlaceInv ==
  \A o \in Ops :
    /\ place[o] # "none" => of[o] \in Rts /\ rt[of[o]] # "none"
    /\ place[o] = "main" => running # NoRt
    /\ o \in panics => place[o] = "gone"
    /\ place[o] \in Rts => rt[place[o]] \in {"built", "dropping"}
    /\ place[o] \notin {"none", "gone"} /\ o \notin left =>
         place[o] = of[o] \/ (place[o] = "main" /\ running = of[o])

IInv == TypeOK /\ HandleInv /\ PlaceInv /\ OwnRing /\ OnlyEscapedPanic

-----------------------------------------------------------------------------
\* Initially there is neither runtime nor operation.
LEMMA InitInv == RtAssumption /\ RtInit => IInv
  BY DEF RtAssumption, RtInit, IInv, TypeOK, Nowhere, HandleInv, PlaceInv, OwnRing, OnlyEscapedPanic

\* An operation that is dropped while it is somewhere panics only if it has left
\* a runtime that is gone (Drop for Op).
LEMMA PanicEscaped ==
  ASSUME RtAssumption, IInv, NEW o \in Ops, place[o] \notin {"none", "gone"}, ~Alive(of[o])
  PROVE  o \in left /\ rt[of[o]] = "dropped"
  BY DEF RtAssumption, IInv, TypeOK, Nowhere, HandleInv, PlaceInv, OwnRing, Alive

\* A task, or the main future, drops one operation.
LEMMA DropKeeps ==
  ASSUME RtAssumption, IInv, NEW o \in Ops, place[o] \notin {"none", "gone"}, Dropped({o}),
         UNCHANGED <<rt, driver, drive, context, running, flushed, of, made, left>>
  PROVE  IInv'
<1> USE DEF RtAssumption
<1>1. place' = [place EXCEPT ![o] = "gone"]
  BY DEF Dropped, IInv, TypeOK
<1>2. \A p \in panics' : p \in left \ Oneshots /\ rt[of[p]] = "dropped"
  BY PanicEscaped DEF Dropped, IInv, OnlyEscapedPanic
<1>3. panics' \subseteq Ops
  BY DEF Dropped, IInv, TypeOK
<1>4. TypeOK'
  BY <1>1, <1>3 DEF IInv, TypeOK, Nowhere
<1>5. HandleInv' /\ OwnRing' /\ OnlyEscapedPanic'
  BY <1>2 DEF IInv, HandleInv, OwnRing, OnlyEscapedPanic
<1>6. PlaceInv'
  BY <1>1 DEF IInv, TypeOK, Nowhere, PlaceInv, Dropped
<1> QED BY <1>4, <1>5, <1>6 DEF IInv

\* block_on returns: the operations that are not part of its output are dropped.
LEMMA ReturnKeeps ==
  ASSUME RtAssumption, IInv, NEW out \in SUBSET Ops, Return(out)
  PROVE  IInv'
<1> USE DEF RtAssumption, In
<1>1. \A p \in panics' : p \in left' \ Oneshots /\ rt[of[p]] = "dropped"
  BY PanicEscaped DEF Return, IInv, OnlyEscapedPanic
<1>2. TypeOK'
  BY DEF Return, IInv, TypeOK, Nowhere
<1>3. HandleInv' /\ OwnRing' /\ OnlyEscapedPanic'
  BY <1>1 DEF Return, IInv, HandleInv, OwnRing, OnlyEscapedPanic
<1>4. PlaceInv'
  BY DEF Return, IInv, TypeOK, Nowhere, PlaceInv
<1> QED BY <1>2, <1>3, <1>4 DEF IInv

\* Every step keeps the invariant.
LEMMA StepInv == RtAssumption /\ IInv /\ [RtNext]_rtVars => IInv'
<1> SUFFICES ASSUME RtAssumption, IInv, [RtNext]_rtVars PROVE IInv'
  OBVIOUS
<1> USE DEF RtAssumption
<1>1. ASSUME NEW r \in Rts, DropDriveTask(r) PROVE IInv'
  BY <1>1 DEF DropDriveTask, opvars, IInv, TypeOK, Nowhere, HandleInv, PlaceInv, OwnRing,
              OnlyEscapedPanic
<1>2. ASSUME NEW r \in Rts, DropFields(r) PROVE IInv'
  <2> USE <1>2 DEF DropFields, opvars, IInv, In
  <2>1. TypeOK' /\ OwnRing' BY DEF TypeOK, OwnRing
  <2>2. HandleInv' BY DEF TypeOK, HandleInv
  <2>3. PlaceInv' BY DEF TypeOK, Nowhere, PlaceInv
  <2>4. OnlyEscapedPanic' BY DEF TypeOK, OnlyEscapedPanic
  <2> QED BY <2>1, <2>2, <2>3, <2>4
<1>3. ASSUME NEW o \in Ops, DropTask(o) PROVE IInv'
  BY <1>3, DropKeeps DEF DropTask, IInv, TypeOK
<1>4. ASSUME NEW r \in Rts, New(r) PROVE IInv'
  <2> USE <1>4 DEF New, opvars, IInv
  <2>1. TypeOK' /\ OwnRing' BY DEF TypeOK, OwnRing
  <2>2. HandleInv' BY DEF TypeOK, HandleInv
  <2>3. PlaceInv' BY DEF TypeOK, Nowhere, PlaceInv
  <2>4. OnlyEscapedPanic' BY DEF TypeOK, OnlyEscapedPanic
  <2> QED BY <2>1, <2>2, <2>3, <2>4
<1>5. ASSUME NEW r \in Rts, BlockOn(r) PROVE IInv'
  <2> USE <1>5 DEF BlockOn, opvars, IInv
  <2>1. TypeOK' /\ OwnRing' BY DEF TypeOK, OwnRing
  <2>2. HandleInv' /\ OnlyEscapedPanic' BY DEF TypeOK, HandleInv, OnlyEscapedPanic
  <2>3. PlaceInv' BY DEF TypeOK, Nowhere, PlaceInv, OwnRing
  <2> QED BY <2>1, <2>2, <2>3
<1>6. ASSUME NEW r \in Rts, DropRuntime(r) PROVE IInv'
  <2> USE <1>6 DEF DropRuntime, opvars, IInv
  <2>1. TypeOK' /\ OwnRing' BY DEF TypeOK, OwnRing
  <2>2. HandleInv' BY DEF TypeOK, HandleInv
  <2>3. PlaceInv' BY DEF TypeOK, Nowhere, PlaceInv
  <2>4. OnlyEscapedPanic' BY DEF TypeOK, OnlyEscapedPanic
  <2> QED BY <2>1, <2>2, <2>3, <2>4
<1>7. ASSUME NEW out \in SUBSET Ops, Return(out) PROVE IInv'
  BY <1>7, ReturnKeeps
<1>8. CASE Park
  BY <1>8 DEF Park, opvars, IInv, TypeOK, HandleInv, PlaceInv, OwnRing, OnlyEscapedPanic
<1>9. ASSUME NEW o \in Ops, Drop(o) PROVE IInv'
  BY <1>9, DropKeeps DEF Drop, Reachable, In, IInv, TypeOK
<1>10. ASSUME NEW o \in Ops, NEW p \in Rts \cup {"main", "outside"}, SubmitOn(o, p) PROVE IInv'
  <2> USE <1>10 DEF SubmitOn, IInv
  <2>1. TypeOK' BY DEF TypeOK, Nowhere
  <2>2. HandleInv' /\ OwnRing' BY DEF TypeOK, HandleInv, OwnRing
  <2>3. PlaceInv' BY DEF TypeOK, Nowhere, PlaceInv, HandleInv, OwnRing
  <2>4. OnlyEscapedPanic' BY DEF TypeOK, OnlyEscapedPanic, HandleInv, PlaceInv
  <2> QED BY <2>1, <2>2, <2>3, <2>4
<1>11. ASSUME NEW o \in Ops, NEW p \in Rts \cup {"main", "outside"}, Move(o, p) PROVE IInv'
  <2> USE <1>11 DEF Move, Reachable, In, IInv
  <2>1. TypeOK' BY DEF TypeOK, Nowhere
  <2>2. HandleInv' /\ OwnRing' BY DEF HandleInv, OwnRing
  <2>3. PlaceInv' BY DEF TypeOK, Nowhere, PlaceInv, HandleInv
  <2>4. OnlyEscapedPanic' BY DEF TypeOK, OnlyEscapedPanic
  <2> QED BY <2>1, <2>2, <2>3, <2>4
<1>12. CASE UNCHANGED rtVars
  BY <1>12 DEF rtVars, IInv, TypeOK, HandleInv, PlaceInv, OwnRing, OnlyEscapedPanic
<1> QED
  BY <1>1, <1>2, <1>3, <1>4, <1>5, <1>6, <1>7, <1>8, <1>9, <1>10, <1>11, <1>12
  DEF RtNext, Teardown

\* CONTEXT names the driver of the running loop, through refused nested calls,
\* panics and runtimes that take turns (block_on, ContextGuard).
THEOREM OwnRingAlways ==
  ASSUME RtAssumption
  PROVE  RtSpec => []OwnRing
<1>1. RtInit => IInv BY InitInv
<1>2. IInv /\ [RtNext]_rtVars => IInv' BY StepInv
<1>3. IInv => OwnRing BY DEF IInv
<1> QED BY <1>1, <1>2, <1>3, PTL DEF RtSpec

\* The drop of an operation panics only if it has left its runtime and outlived
\* it (Drop for Runtime, Drop for Op).
THEOREM OnlyEscapedPanics ==
  ASSUME RtAssumption
  PROVE  RtSpec => []OnlyEscapedPanic
<1>1. RtInit => IInv BY InitInv
<1>2. IInv /\ [RtNext]_rtVars => IInv' BY StepInv
<1>3. IInv => OnlyEscapedPanic BY DEF IInv
<1> QED BY <1>1, <1>2, <1>3, PTL DEF RtSpec
=============================================================================
