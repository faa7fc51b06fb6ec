------------------------------ MODULE MCDriver ------------------------------
(***************************************************************************)
(* Small instances of Driver.  m1, o1 and s1 name a multishot, a oneshot   *)
(* and a single-completion operation in most of the configurations.        *)
(***************************************************************************)
EXTENDS Driver

CONSTANTS m1, o1, s1, w1, w2
=============================================================================
