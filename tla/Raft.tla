-------------------------------- MODULE Raft --------------------------------
(***************************************************************************)
(* A cluster of raft instances over a network that loses, duplicates,      *)
(* delays and reorders messages.  Every action is one call into a node     *)
(* followed by the handling of its Ready: the hard state and the entries   *)
(* are stored, the messages are sent and the committed entries are applied *)
(* before the next call.  A crash between two of these is covered by the   *)
(* loss of messages and by Restart.                                        *)
(***************************************************************************)
EXTENDS RaftNode

VARIABLES
  rs,            \* rs[n]: the raft instance of node n
  msgs,          \* every message ever sent; it can be received any time after
  readStates,    \* the answers to read requests the nodes have handed out
  issued         \* issued[c]: highest commit index when read c was issued, or -1

vars == <<rs, msgs, readStates, issued>>

Init ==
  /\ rs = [n \in Server |-> Bootstrap(n, Server)]
  /\ msgs = {}
  /\ readStates = {}
  /\ issued = [c \in ReadCtx |-> -1]

\* Ready: messages and read states leave the instance.
Ready(n, r) ==
  /\ rs' = [rs EXCEPT ![n] = [r EXCEPT !.msgs = {}, !.readStates = {}]]
  /\ msgs' = msgs \cup r.msgs
  /\ readStates' = readStates \cup {[node |-> n, Index |-> s.Index, Ctx |-> s.Ctx] :
                                    s \in r.readStates}

Alive(n) == ~rs[n].panic

Do(n, r) == Alive(n) /\ Ready(n, r) /\ UNCHANGED issued

----------------------------------------------------------------------------
\* Tick of a follower or candidate whose randomized election timeout passed.
ElectionTimeout(n) == rs[n].state # StateLeader /\ Do(n, TickElection(rs[n]))

LeaderTick(n, electionDue, heartbeatDue) ==
  rs[n].state = StateLeader /\ Do(n, TickHeartbeat(rs[n], electionDue, heartbeatDue))

Receive(m, types) ==
  /\ m.type \in types
  /\ \E recent \in BOOLEAN :
       /\ recent => CheckQuorum
       /\ Do(m.to, Step(rs[m.to], m, recent))

ReceiveVoteRequest(m) == Receive(m, {"MsgVote", "MsgPreVote"})
ReceiveVoteResponse(m) == Receive(m, {"MsgVoteResp", "MsgPreVoteResp"})
ReceiveApp(m) == Receive(m, {"MsgApp"})
ReceiveAppResp(m) == Receive(m, {"MsgAppResp"})
ReceiveHeartbeat(m) == Receive(m, {"MsgHeartbeat"})
ReceiveHeartbeatResp(m) == Receive(m, {"MsgHeartbeatResp"})
ReceiveSnap(m) == Receive(m, {"MsgSnap"})
ReceiveTransferLeader(m) == Receive(m, {"MsgTransferLeader"})
ReceiveTimeoutNow(m) == Receive(m, {"MsgTimeoutNow"})
ReceiveProp(m) == Receive(m, {"MsgProp"})
ReceiveReadIndex(m) == Receive(m, {"MsgReadIndex"})
ReceiveReadIndexResp(m) == Receive(m, {"MsgReadIndexResp"})

----------------------------------------------------------------------------
(* Calls of the application.                                               *)

Local(n, m) == Do(n, Step(rs[n], m, FALSE))

Propose(n, v) ==
  Local(n, [type |-> "MsgProp", from |-> n, to |-> n, Term |-> 0, Data |-> v])

\* The request is issued now: what is committed anywhere must be visible.
ReadIndex(n, c) ==
  /\ issued[c] = -1
  /\ issued' = [issued EXCEPT ![c] =
       CHOOSE i \in {rs[p].log.committed : p \in Server} :
         \A p \in Server : rs[p].log.committed =< i]
  /\ Alive(n)
  /\ Ready(n, Step(rs[n], [type |-> "MsgReadIndex", from |-> n, to |-> n, Term |-> 0,
                           Context |-> c], FALSE))

TransferLeadership(n, transferee) ==
  Local(n, [type |-> "MsgTransferLeader", from |-> transferee, to |-> n, Term |-> 0])

ReportUnreachable(n, p) ==
  /\ rs[n].state = StateLeader /\ p \in DOMAIN rs[n].prs
  /\ Do(n, UnreachableStep(rs[n], p))

ReportSnapshot(n, p, failure) ==
  /\ rs[n].state = StateLeader /\ p \in DOMAIN rs[n].prs
  /\ Do(n, SnapStatusStep(rs[n], p, failure))

\* The application snapshots what it applied and compacts the log up to there.
Compact(n, i) ==
  /\ rs[n].log.offset < i /\ i =< rs[n].log.committed
  /\ Do(n, [rs[n] EXCEPT !.log.offset = i])

\* A crash, at any time, and RestartNode from what Ready stored.
Restart(n) == Do(n, RestartNode(rs[n]))

----------------------------------------------------------------------------
Next ==
  \/ \E n \in Server :
       \/ ElectionTimeout(n)
       \/ \E e, h \in BOOLEAN : LeaderTick(n, e, h)
       \/ \E v \in Value : Propose(n, v)
       \/ \E c \in ReadCtx : ReadIndex(n, c)
       \/ \E p \in Server : TransferLeadership(n, p) \/ ReportUnreachable(n, p)
       \/ \E p \in Server, failure \in BOOLEAN : ReportSnapshot(n, p, failure)
       \/ \E i \in 1..rs[n].log.committed : Compact(n, i)
       \/ Restart(n)
  \/ \E m \in msgs :
       \/ ReceiveVoteRequest(m) \/ ReceiveVoteResponse(m)
       \/ ReceiveApp(m) \/ ReceiveAppResp(m)
       \/ ReceiveHeartbeat(m) \/ ReceiveHeartbeatResp(m)
       \/ ReceiveSnap(m)
       \/ ReceiveTransferLeader(m) \/ ReceiveTimeoutNow(m)
       \/ ReceiveProp(m)
       \/ ReceiveReadIndex(m) \/ ReceiveReadIndexResp(m)

Spec == Init /\ [][Next]_vars

----------------------------------------------------------------------------
(* Properties.                                                             *)

Committed(n) == SubSeq(rs[n].log.ents, 1, rs[n].log.committed)

\* p holds the same entries as n up to index i.
AgreeUpTo(n, p, i) ==
  /\ LastIndex(rs[n].log) >= i /\ LastIndex(rs[p].log) >= i
  /\ \A k \in 1..i : rs[n].log.ents[k] = rs[p].log.ents[k]

Leads(n, term) == rs[n].state = StateLeader /\ rs[n].Term = term

\* Every component of the state has its type, the log's counters in order
\* and no term of zero included (raft, Progress, raftLog, the messages sent).
TypeOK ==
  /\ rs \in [Server -> NodeType]
  /\ \A n \in Server : rs[n].id = n
  /\ msgs \subseteq Message
  /\ readStates \subseteq [node : Server, Index : Nat, Ctx : ReadCtx]
  /\ issued \in [ReadCtx -> Nat \cup {-1}]

\* n leads in a term, or its messages show that it did.
HasLed(n, term) ==
  \/ Leads(n, term)
  \/ \E m \in msgs : m.type \in LeaderMsgs /\ m.from = n /\ m.Term = term

\* A term has at most one leader, over the whole history: two nodes that
\* lead, or have sent a leader's message, in the same term are one node
\* (becomeLeader is reached only with a quorum of the term's votes).
ElectionSafety ==
  \A n, p \in Server : \A t \in 1..rs[n].Term : HasLed(n, t) /\ HasLed(p, t) => n = p

\* Two logs with an entry of the same index and term agree up to it
\* (the consistency check of maybeAppend and the truncation behind it).
LogMatching ==
  \A n, p \in Server :
    \A i \in 1..MinOf(LastIndex(rs[n].log), LastIndex(rs[p].log)) :
      rs[n].log.ents[i].Term = rs[p].log.ents[i].Term => AgreeUpTo(n, p, i)

\* No two nodes apply different entries at the same index (commitTo, reached
\* from appends, heartbeats and snapshots, and the truncation in append).
StateMachineSafety ==
  \A n, p \in Server : AgreeUpTo(n, p, MinOf(rs[n].log.committed, rs[p].log.committed))

\* A leader holds all that a node of its term or an earlier one knows to be
\* committed (the log comparison of a vote, and maybeCommit's term check).
LeaderCompleteness ==
  \A l, n \in Server :
    rs[l].state = StateLeader /\ rs[n].Term =< rs[l].Term =>
      AgreeUpTo(l, n, rs[n].log.committed)

\* What a leader counts towards the commit index is in the peer's log as long
\* as the peer has not moved on to a later term (MaybeUpdate with late,
\* duplicated and reordered acknowledgements).
MatchIsReplicated ==
  \A l, p \in Server :
    rs[l].state = StateLeader /\ rs[p].Term = rs[l].Term =>
      AgreeUpTo(l, p, rs[l].prs[p].Match)

\* A vote that was sent out is never forgotten: it is stored before the
\* answer leaves the node, and a restart finds it (hardState, loadState).
VotesAreDurable ==
  \A m \in msgs : m.type = "MsgVoteResp" /\ ~m.Reject =>
    \/ rs[m.from].Term > m.Term
    \/ rs[m.from].Term = m.Term /\ rs[m.from].Vote = m.to

Majority(s) == Cardinality(s) * 2 > Cardinality(Server)

\* Those that have answered n's wish to run in one of the terms with a yes.
PreVotes(n, terms) ==
  {n} \cup {m.from : m \in {o \in msgs : /\ o.type = "MsgPreVoteResp" /\ ~o.Reject
                                        /\ o.to = n /\ o.Term \in terms}}

\* Under PreVote a node that runs in an election, unless by a transfer of
\* leadership, has been encouraged by a majority, in the term it runs in or,
\* as a late answer is counted too, in the one before (stepCandidate).
CampaignIsBacked ==
  \A m \in msgs : m.type = "MsgVote" /\ ~m.Transfer =>
    Majority(PreVotes(m.from, {m.Term - 1, m.Term}))

\* The window of a replicating peer holds, in order, the last indexes of
\* messages that are neither acknowledged nor still to be sent, and is never
\* over its size; every other peer has an empty window (Add, FreeLE,
\* FreeFirstOne and ResetState against reordered acknowledgements).
WindowIsExact ==
  \A l, p \in Server : rs[l].state = StateLeader =>
    LET pr == rs[l].prs[p]
        q == pr.Inflights
    IN  /\ Len(q) =< MaxInflightMsgs
        /\ pr.State # StateReplicate => q = <<>>
        /\ \A i \in 1..Len(q) : pr.Match < q[i] /\ q[i] < pr.Next
        /\ \A i \in 2..Len(q) : q[i - 1] < q[i]

\* A read sees everything that was committed, on any node, when the request
\* was issued (ReadIndex under ReadOnlySafe, forwarded or not, with leaders
\* that were replaced and do not know it).
ReadsAreLinearizable == \A s \in readStates : s.Index >= issued[s.Ctx]

\* What a node has applied it never applies differently: its committed
\* prefix only grows, across appends, snapshots and restarts (commitTo,
\* maybeAppend, restore).
CommittedIsForever ==
  [][\A n \in Server :
       /\ rs[n].log.committed =< rs'[n].log.committed
       /\ Committed(n) = SubSeq(rs'[n].log.ents, 1, rs[n].log.committed)]_vars

\* A peer that was silent since the last check of the quorum answers.
Hears(n) ==
  \E p \in Server : ~rs[n].prs[p].RecentActive /\ rs'[n].prs[p].RecentActive /\ p # n

\* With CheckQuorum a leader that no longer hears from its peers steps down:
\* it does not lead for ever, unless again and again a peer that was silent
\* since the last check answers (MsgCheckQuorum, QuorumActive, RecentActive).
CutOffLeaderStepsDown ==
  \A n \in Server : []<><<Hears(n)>>_vars \/ []<>(rs[n].state # StateLeader)


\* None of the panics of send, maybeAppend and append is reached.
NoPanic == \A n \in Server : Alive(n)
=============================================================================
