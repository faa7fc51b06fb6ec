------------------------------- MODULE MCData --------------------------------
(***************************************************************************)
(* Six components and their safety, side by side: the completion lists,    *)
(* the buffers and the calls on them, the opening of files, what           *)
(* completions carry, the runtimes, and the pool of registered buffers,    *)
(* two of one capacity and one of another.  They do not interact here: the *)
(* initial state picks the one that moves, so the state space is the sum   *)
(* of theirs.                                                              *)
(***************************************************************************)
EXTENDS SlabList, MCBufferIo, OpenOptions, Completions, Runtime, MCFixedBufPool

VARIABLE mode

\* Datagrams: empty, small, larger than a buffer, and one whose name is unusable.
MCDatagrams == {[payload |-> p, named |-> TRUE] : p \in {0, 1, 3}}
               \cup {[payload |-> 1, named |-> FALSE]}

ASSUME InstanceAssumptions ==
  BufAssumption /\ CqeAssumption /\ RtAssumption

DataInit ==
  /\ mode \in {"lists", "buffers", "open", "recv", "send", "accept", "runtime",
               "pool"}
  /\ Init /\ BufInit /\ OpenInit /\ CqeInit /\ RtInit /\ PoolInit

DataNext ==
  \/ mode = "lists" /\ Next
     /\ UNCHANGED <<mode, bufVars, openVars, cqeVars, rtVars, poolVars>>
  \/ mode = "buffers" /\ BufNext
     /\ UNCHANGED <<mode, vars, openVars, cqeVars, rtVars, poolVars>>
  \/ mode = "open" /\ OpenNext
     /\ UNCHANGED <<mode, vars, bufVars, cqeVars, rtVars, poolVars>>
  \/ mode = "recv" /\ NextOf(Recvs)
     /\ UNCHANGED <<mode, vars, bufVars, openVars, rtVars, poolVars>>
  \/ mode = "send" /\ NextOf(Sends)
     /\ UNCHANGED <<mode, vars, bufVars, openVars, rtVars, poolVars>>
  \/ mode = "accept" /\ NextOf(Opens)
     /\ UNCHANGED <<mode, vars, bufVars, openVars, rtVars, poolVars>>
  \/ mode = "runtime" /\ RtNext
     /\ UNCHANGED <<mode, vars, bufVars, openVars, cqeVars, poolVars>>
  \/ mode = "pool" /\ PoolNext
     /\ UNCHANGED <<mode, vars, bufVars, openVars, cqeVars, rtVars>>

DataSpec ==
  DataInit /\ [][DataNext]_<<mode, vars, bufVars, openVars, cqeVars, rtVars, poolVars>>
=============================================================================
