--------------------------- MODULE MCFixedBufPool ---------------------------
(***************************************************************************)
(* FixedBufPool with buffers 0, 1 and 2: the first two share a capacity.   *)
(***************************************************************************)
EXTENDS FixedBufPool

CONSTANTS Small, Large

MCCap == [i \in Buf |-> IF i = 2 THEN Large ELSE Small]
=============================================================================
