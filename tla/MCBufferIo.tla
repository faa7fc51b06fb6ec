----------------------------- MODULE MCBufferIo -----------------------------
(***************************************************************************)
(* Buffers for BufferIo: a Buffer of two segments, the second one empty, a *)
(* Vec with spare capacity, and two empty Vecs for recvmsg.                *)
(***************************************************************************)
EXTENDS BufferIo

MCShapes ==
  {[ty |-> "buffer", cap |-> <<1, 1>>, len |-> <<1, 0>>],
   [ty |-> "vec", cap |-> <<2>>, len |-> <<1>>],
   [ty |-> "vecs", cap |-> <<1, 1>>, len |-> <<0, 0>>]}
=============================================================================
