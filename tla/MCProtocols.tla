----------------------------- MODULE MCProtocols -----------------------------
(***************************************************************************)
(* Five protocols that have to come to an end, side by side: closing a     *)
(* descriptor, receives that are cancelled and zero-copy sends, linked     *)
(* operations, create_dir_all, and tasks that wait for a registered        *)
(* buffer, here two of one capacity.  They do not interact: the initial    *)
(* state picks the one that moves, so the state space is the sum of        *)
(* theirs.  The fairness of each is that of its module; none of its        *)
(* actions is enabled while it rests in its initial state.                 *)
(***************************************************************************)
EXTENDS SharedFd, LinkChain, CreateDirAll, MCFixedBufPool

CONSTANTS b1, b2, r1, s1, a1

VARIABLES
  mode,
  fut, kern, list, carried, cancel, group, providing, owned, lost, taker, packets,
  sent, arrivals                                              \* Completions

pv == <<fut, kern, list, carried, cancel, group, providing, owned, lost, taker, packets,
        sent, arrivals>>

Packets == INSTANCE Completions WITH
  Nothing <- None,
  Recvs <- {r1}, Sends <- {s1}, Opens <- {a1}, Bufs <- {b1, b2},
  Datagrams <- {[payload |-> p, named |-> TRUE] : p \in {0, 1}},
  HeaderLen <- 2, NameLen <- 1, BufLen <- 5, MaxArrivals <- 3, SendLens <- {2}

ASSUME InstanceAssumptions ==
  Packets!CqeAssumption /\ LinkAssumption /\ DirAssumption

ProtoInit ==
  /\ mode \in {"close", "recv", "send", "link", "dirs", "pool"}
  /\ Init /\ Packets!CqeInit /\ LinkInit /\ DirInit /\ PoolInit
  /\ mode # "dirs" => world = {} /\ \A c \in Callers : recursive[c]

ProtoNext ==
  \/ mode = "close" /\ Next /\ UNCHANGED <<mode, pv, linkVars, dirVars, poolVars>>
  \/ mode = "recv" /\ Packets!NextOf({r1}) /\ UNCHANGED <<mode, vars, linkVars, dirVars, poolVars>>
  \/ mode = "send" /\ Packets!NextOf({s1}) /\ UNCHANGED <<mode, vars, linkVars, dirVars, poolVars>>
  \/ mode = "link" /\ LinkNext /\ UNCHANGED <<mode, vars, pv, dirVars, poolVars>>
  \/ mode = "dirs" /\ DirNext /\ UNCHANGED <<mode, vars, pv, linkVars, poolVars>>
  \/ mode = "pool" /\ PoolNext /\ UNCHANGED <<mode, vars, pv, linkVars, dirVars>>

ProtoSpec ==
  /\ ProtoInit /\ [][ProtoNext]_<<mode, vars, pv, linkVars, dirVars, poolVars>>
  /\ Fairness /\ Packets!CqeFairness /\ LinkFairness /\ DirFairness /\ PoolFairness

-----------------------------------------------------------------------------
(* The liveness of Completions.                                            *)

\* Op::cancel: a cancelled receive returns its final batch.
CancelledEnds == Packets!CancelledEnds
==============================================================================
