------------------------------ MODULE RaftApp ------------------------------
(***************************************************************************)
(* The cluster under the key-value application (raft/node.go).  The        *)
(* application keeps entries and snapshots in memory only, never stores    *)
(* the hard state, and comes back from Restart as a new node.              *)
(***************************************************************************)
EXTENDS Raft

\* Stop, ResetStorage, and Start: StartNode bootstraps an empty storage.
AppRestart(n) == Do(n, Bootstrap(n, Server))
=============================================================================
