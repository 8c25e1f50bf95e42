----------------------------- MODULE MCRaftApp -----------------------------
(* Instances of RaftApp for TLC: a restart of a node is a new start.       *)
EXTENDS MCRaft, RaftApp

MCAppNext == MCNext \/ \E n \in Server : AppRestart(n) /\ Bounded

MCAppSpec == Init /\ [][MCAppNext]_vars
=============================================================================
