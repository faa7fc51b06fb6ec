---------------------------- MODULE CreateDirAll ----------------------------
(***************************************************************************)
(* DirBuilder::create (fs/create_dir_all.rs) while others change the tree. *)
(*                                                                         *)
(* The path has Depth components; level i is its first i components and    *)
(* level 0 the empty path, that is the directory the path starts from.     *)
(* recurse_create_dir_all descends one level per NotFound and climbs back, *)
(* so the levels above the current one all wait for their second mkdir:    *)
(* the level and the position in the function are the whole call stack.    *)
(* Each mkdir and each statx is one request; the kernel executes it        *)
(* atomically, and anything may happen between two of them.                *)
(***************************************************************************)
EXTENDS Naturals

CONSTANTS
  Callers,
  Depth      \* components of the path, at least one

DirAssumption == Depth \in Nat \ {0}

Levels == 0..Depth

VARIABLES
  fs,         \* what each level is: none, dir or file
  world,      \* what others do besides creating directories
  recursive,  \* DirBuilder::recursive
  lvl,        \* level a caller works on
  stage,      \* idle, mkdir, is_dir, mkdir2, is_dir2, ok, err, dropped
  seen        \* history: the target was a directory at some time of the call

dirVars == <<fs, world, recursive, lvl, stage, seen>>

Ended == {"ok", "err", "dropped"}

DirInit ==
  /\ fs = [i \in Levels |-> IF i = 0 THEN "dir" ELSE "none"]
  /\ world \in SUBSET {"removes", "files", "errors"}
  /\ recursive \in [Callers -> BOOLEAN]
  /\ lvl = [c \in Callers |-> Depth]
  /\ stage = [c \in Callers |-> "idle"]
  /\ seen = [c \in Callers |-> FALSE]

Running(c) == stage[c] \notin {"idle"} \cup Ended

\* Whatever changes the tree, running callers may find the target in it.
Witness(fs2, stage2) ==
  seen' = [c \in Callers |-> seen[c] \/ (stage2[c] # "idle" /\ stage[c] \notin Ended
                                         /\ fs2[Depth] = "dir")]

-----------------------------------------------------------------------------
(* The kernel's mkdir and statx.                                           *)

mkdir_result(i) ==
  CASE fs[i - 1] = "none" -> "NotFound"
    [] fs[i - 1] = "file" -> "other"
    [] fs[i] # "none"     -> "other"
    [] OTHER              -> "ok"

mkdir_effect(i) == IF mkdir_result(i) = "ok" THEN [fs EXCEPT ![i] = "dir"] ELSE fs

\* statx may fail where mkdir can: then is_dir answers false.
is_dir(i) == fs[i] = "dir"

-----------------------------------------------------------------------------
Call(c) ==
  /\ stage[c] = "idle"
  /\ stage' = [stage EXCEPT ![c] = "mkdir"]
  /\ Witness(fs, stage')
  /\ UNCHANGED <<fs, world, recursive, lvl>>

Goto(c, i, p) ==
  /\ lvl' = [lvl EXCEPT ![c] = i]
  /\ stage' = [stage EXCEPT ![c] = p]

\* The function returns at the caller's level.  Level 0 is the empty path.
Returns(c, ok) ==
  IF ~ok THEN Goto(c, lvl[c], "err")
  ELSE IF lvl[c] = Depth THEN Goto(c, Depth, "ok")
  ELSE Goto(c, lvl[c] + 1, "mkdir2")

Descend(c) ==
  IF lvl[c] = 1 THEN Goto(c, 1, "mkdir2") ELSE Goto(c, lvl[c] - 1, "mkdir")

\* A request fails for a reason the tree does not show.
Error(r) == "errors" \in world /\ r = "other"

\* A mkdir at position p of the function answers r.
MkdirAt(c, p, r) ==
  /\ stage[c] = p
  /\ r = mkdir_result(lvl[c]) \/ Error(r)
  /\ fs' = IF r = "ok" THEN mkdir_effect(lvl[c]) ELSE fs
  /\ Witness(fs', stage')
  /\ UNCHANGED <<world, recursive>>

\* The first mkdir.  In non-recursive mode it is the only one.
FirstMkdir(c, r) ==
  /\ IF r = "ok" \/ ~recursive[c] THEN Returns(c, r = "ok")
     ELSE IF r = "NotFound" THEN Descend(c)
     ELSE Goto(c, lvl[c], "is_dir")
  /\ MkdirAt(c, "mkdir", r)

\* Faulty variant: NotFound starts over.
SecondMkdirAgain(c, r) ==
  /\ IF r = "ok" THEN Returns(c, TRUE)
     ELSE IF r = "NotFound" THEN Descend(c)
     ELSE Goto(c, lvl[c], "is_dir2")
  /\ MkdirAt(c, "mkdir2", r)

\* Faulty variant: a directory that has appeared meanwhile is an error.
SecondMkdirStrict(c, r) == Returns(c, r = "ok") /\ MkdirAt(c, "mkdir2", r)

SecondMkdir(c, r) ==
  /\ IF r = "ok" THEN Returns(c, TRUE) ELSE Goto(c, lvl[c], "is_dir2")
  /\ MkdirAt(c, "mkdir2", r)

\* Faulty variant: anything that exists will do.
AnswerExists(c, yes) ==
  /\ stage[c] \in {"is_dir", "is_dir2"}
  /\ yes = (fs[lvl[c]] # "none") \/ (Error("other") /\ ~yes)
  /\ Returns(c, yes)
  /\ Witness(fs, stage')
  /\ UNCHANGED <<fs, world, recursive>>

\* is_dir after a failed mkdir: Ok, or the error of the mkdir.
Answer(c, yes) ==
  /\ stage[c] \in {"is_dir", "is_dir2"}
  /\ yes = is_dir(lvl[c]) \/ (Error("other") /\ ~yes)
  /\ Returns(c, yes)
  /\ Witness(fs, stage')
  /\ UNCHANGED <<fs, world, recursive>>

\* The future is dropped; a mkdir in flight may still take effect.
Drop(c, late) ==
  /\ Running(c)
  /\ stage' = [stage EXCEPT ![c] = "dropped"]
  /\ fs' = IF late /\ stage[c] \in {"mkdir", "mkdir2"} THEN mkdir_effect(lvl[c]) ELSE fs
  /\ Witness(fs', stage')
  /\ UNCHANGED <<world, recursive, lvl>>

-----------------------------------------------------------------------------
(* Other processes.                                                        *)

OtherCreates(i, what) ==
  /\ i > 0 /\ fs[i - 1] = "dir" /\ fs[i] = "none"
  /\ what = "file" => "files" \in world
  /\ fs' = [fs EXCEPT ![i] = what]
  /\ Witness(fs', stage)
  /\ UNCHANGED <<world, recursive, lvl, stage>>

OtherRemoves(i) ==
  /\ "removes" \in world
  /\ fs[i] # "none" /\ (i < Depth => fs[i + 1] = "none")
  /\ fs' = [fs EXCEPT ![i] = "none"]
  /\ Witness(fs', stage)
  /\ UNCHANGED <<world, recursive, lvl, stage>>

Results == {"ok", "NotFound", "other"}

Step(c) ==
  \/ \E r \in Results : FirstMkdir(c, r) \/ SecondMkdir(c, r)
  \/ \E yes \in BOOLEAN : Answer(c, yes)

DirNext ==
  \/ \E c \in Callers : Call(c) \/ Step(c) \/ \E late \in BOOLEAN : Drop(c, late)
  \/ \E i \in Levels : OtherRemoves(i) \/ \E w \in {"dir", "file"} : OtherCreates(i, w)

\* Requests are answered and their futures polled.
DirFairness == \A c \in Callers : WF_dirVars(Step(c))

DirSpec == DirInit /\ [][DirNext]_dirVars /\ DirFairness

-----------------------------------------------------------------------------
\* Callers and other processes that only create directories never make a
\* recursive call fail, however they interleave with its requests.
NoSpuriousError ==
  \A c \in Callers : world = {} /\ recursive[c] => stage[c] # "err"

\* Ok means that the whole path was a directory at some time during the call,
\* whatever was created in its place or removed meanwhile.
OkMeansDir == \A c \in Callers : stage[c] = "ok" => seen[c]

\* A call that is kept ends, even if others remove what it creates for ever.
CallEnds == \A c \in Callers : Running(c) ~> (stage[c] \in Ended)
=============================================================================
