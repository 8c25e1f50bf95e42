------------------------------ MODULE Cluster ------------------------------
(***************************************************************************)
(* One step of the cluster as one call into a node that keeps to its       *)
(* contract, what such calls start from, and how the cluster starts.       *)
(***************************************************************************)
EXTENDS Raft, Contract

\* One call into node n that leaves it in state s, and the Ready after it.
Call(n, s) == CallOK(rs[n], s, msgs) /\ Ready(n, s)

\* A call that keeps to all of its contract.
Calls(n, s) ==
  /\ Call(n, s) /\ Replicates(rs[n], s, msgs)
  /\ issued' \in [ReadCtx -> Nat \cup {-1}]

\* What a call may start from.
Prepared ==
  /\ msgs \subseteq Message /\ issued \in [ReadCtx -> Nat \cup {-1}]
  /\ \A n \in Server : /\ rs[n] \in NodeType /\ rs[n].id = n /\ OwnVote(rs[n])
                       /\ rs[n].msgs = {} /\ ~rs[n].panic /\ Sound(rs[n], msgs)

\* All nodes start as followers of term 1 with the same log E, all of it of
\* term 1 and committed.
Started(E) ==
  /\ E \in Seq(Entry) /\ Len(E) > 0 /\ \A j \in 1..Len(E) : E[j].Term = 1
  /\ \A n \in Server : /\ rs[n] \in NodeType /\ rs[n].id = n
                       /\ rs[n].log.ents = E /\ rs[n].log.committed = Len(E)
                       /\ rs[n].Term = 1 /\ rs[n].state = StateFollower
                       /\ rs[n].lead = None /\ ~rs[n].panic
                       /\ rs[n].msgs = {} /\ rs[n].readStates = {}
  /\ rs \in [Server -> NodeType]
  /\ msgs = {} /\ readStates = {} /\ issued = [c \in ReadCtx |-> -1]
=============================================================================
