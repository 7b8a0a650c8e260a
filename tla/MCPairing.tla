----------------------------- MODULE MCPairing -----------------------------
(* Small instances: agent connections of one device, App connections of one  *)
(* installation, so that a later connection supersedes an earlier one.       *)
EXTENDS PairingSystem, TLC

CONSTANTS a1, a2, m1, m2, d1, x1

MCDeviceOf == [c \in Conns |-> d1]
MCAppOf == [m \in AppConns |-> x1]

\* Connections of one kind are alike.
ConnSymmetry == Permutations(AgentConns) \cup Permutations(AppConns)

(* The behaviours in which the Agent's relay connection, once made, stays:   *)
(* with two App connections the rest is checked, one at a time, elsewhere.   *)
AgentStays ==
  /\ \A a \in AgentConns : sock[a] = "open" => sock'[a] = "open"
  /\ \A d \in Devices : cur[d] # None => cur'[d] = cur[d]

\* Those in which, besides, the relay ends no connection on its own account.
StableNext == Next /\ AgentStays /\ ~(\E c \in Conns : RelayCloses(c))
=============================================================================
