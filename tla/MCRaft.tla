------------------------------- MODULE MCRaft -------------------------------
(***************************************************************************)
(* Instances of Raft for TLC.  A run names the calls the application makes *)
(* and the election timers that may run out; the network is always         *)
(* unreliable.                                                             *)
(***************************************************************************)
EXTENDS Raft, TLC

CONSTANTS
  n1, n2, n3,
  MaxTerm,       \* no node goes beyond this term
  MaxLog,        \* no log grows beyond this index
  Timers,        \* <<n, t>>: the election timer of n may run out before term t
  Carried,       \* the kinds of message that get through; the others are lost
  Silent,        \* servers that hear no heartbeat and so answer none
  Calls          \* the calls of the application that a run makes

Bounded ==
  \A n \in Server : /\ rs'[n].Term =< MaxTerm
                    /\ LastIndex(rs'[n].log) =< MaxLog
                    /\ Len(rs'[n].pendingReads) =< Cardinality(ReadCtx)

On(call) == call \in Calls

\* Those that restart only vote; the others run in elections.
NeverRuns(n) == \A timer \in Timers : timer[1] # n

Arriving == {m \in msgs : m.type \in Carried /\ (m.type = "MsgHeartbeat" => m.to \notin Silent)}

MCNext ==
  \/ \E n \in Server : <<n, rs[n].Term + 1>> \in Timers /\ ElectionTimeout(n) /\ Bounded
  \/ \E n \in Server, e, h \in BOOLEAN : On("Tick") /\ LeaderTick(n, e, h) /\ Bounded
  \/ \E n \in Server, v \in Value : Propose(n, v) /\ Bounded
  \/ \E n \in Server, c \in ReadCtx : ReadIndex(n, c) /\ Bounded
  \/ \E n, p \in Server : On("Transfer") /\ TransferLeadership(n, p) /\ Bounded
  \/ \E n, p \in Server : On("Unreachable") /\ ReportUnreachable(n, p) /\ Bounded
  \/ \E n, p \in Server, f \in BOOLEAN : On("Snapshot") /\ ReportSnapshot(n, p, f) /\ Bounded
  \/ \E n \in Server, i \in 1..MaxLog :
       On("Compact") /\ rs[n].state = StateLeader /\ Compact(n, i) /\ Bounded
  \/ \E n \in Server : On("Restart") /\ NeverRuns(n) /\ Restart(n) /\ Bounded
  \/ \E m \in Arriving : ReceiveVoteRequest(m) /\ Bounded
  \/ \E m \in Arriving : ReceiveVoteResponse(m) /\ Bounded
  \/ \E m \in Arriving : ReceiveApp(m) /\ Bounded
  \/ \E m \in Arriving : ReceiveAppResp(m) /\ Bounded
  \/ \E m \in Arriving : ReceiveHeartbeat(m) /\ Bounded
  \/ \E m \in Arriving : ReceiveHeartbeatResp(m) /\ Bounded
  \/ \E m \in Arriving : ReceiveSnap(m) /\ Bounded
  \/ \E m \in Arriving : ReceiveTransferLeader(m) /\ Bounded
  \/ \E m \in Arriving : ReceiveTimeoutNow(m) /\ Bounded
  \/ \E m \in Arriving : ReceiveProp(m) /\ Bounded
  \/ \E m \in Arriving : ReceiveReadIndex(m) /\ Bounded
  \/ \E m \in Arriving : ReceiveReadIndexResp(m) /\ Bounded

MCSpec == Init /\ [][MCNext]_vars

----------------------------------------------------------------------------
(* What gets through, and which timers run out.                            *)

Votes == {"MsgVote", "MsgVoteResp", "MsgPreVote", "MsgPreVoteResp"}
Appends == {"MsgApp", "MsgAppResp"}

VotesAndAppends == Votes \cup Appends
All == VotesAndAppends \cup
  {"MsgHeartbeat", "MsgHeartbeatResp", "MsgSnap", "MsgTransferLeader", "MsgTimeoutNow",
   "MsgProp", "MsgReadIndex", "MsgReadIndexResp"}


TimerOfOne == {n1} \X (2..MaxTerm)
TwiceAndOnce == {<<n1, 2>>, <<n1, 3>>, <<n2, 3>>}

----------------------------------------------------------------------------
(* n1 has been elected for term 2, its first entry is in every log, and it *)
(* has the acknowledgement of n2.  Everything else that was sent is lost.  *)

Quiet(r) == [r EXCEPT !.msgs = {}]
Sent(r, type, to) == CHOOSE m \in r.msgs : m.type = type /\ m.to = to

InitElected ==
  LET candidate == CampaignElection(Bootstrap(n1, Server), FALSE)
      voter(p) == Step(Bootstrap(p, Server), Sent(candidate, "MsgVote", p), FALSE)
      leader == Step(candidate, Sent(voter(n2), "MsgVoteResp", n1), FALSE)
      follower(p) == Step(Quiet(voter(p)), Sent(leader, "MsgApp", p), FALSE)
      acked == Step(Quiet(leader), Sent(follower(n2), "MsgAppResp", n1), FALSE)
  IN  /\ rs = [p \in Server |-> IF p = n1 THEN Quiet(acked) ELSE Quiet(follower(p))]
      /\ msgs = {} /\ readStates = {} /\ issued = [c \in ReadCtx |-> -1]

MCSpecElected == InitElected /\ [][MCNext]_vars

\* Ticks do not stop, so that the election timeout of a leader passes again
\* and again (run of node.go takes from tickc for as long as the node runs).
Ticks == \A n \in Server : WF_vars(\E h \in BOOLEAN : LeaderTick(n, TRUE, h) /\ Bounded)

MCSpecTicks == InitElected /\ [][MCNext]_vars /\ Ticks

SuccessorOnly == {<<n2, 3>>}
NoTimer == {}

----------------------------------------------------------------------------
(* n3 led term 2 and has an entry of its own that nobody else has.  n1 has *)
(* been elected for term 3 and its first entry is committed with n2, whose *)
(* acknowledgement it has.  It has sent heartbeats, n3 has answered, and   *)
(* the append that followed is lost; the others may come again.  n2 and n3 *)
(* have restarted since.                                                   *)

Restarted(n, term, vote, tail) ==
  LET b == Bootstrap(n, Server)
  IN  NewRaft(n, term, vote, [b.log EXCEPT !.ents = @ \o tail], Server)

Beat(to, commit) ==
  [type |-> "MsgHeartbeat", from |-> n1, to |-> to, Term |-> 3, Commit |-> commit, Context |-> NoCtx]
Answer(from) ==
  [type |-> "MsgHeartbeatResp", from |-> from, to |-> n1, Term |-> 3, Context |-> NoCtx]

InitLagging ==
  LET nil(t) == <<[Term |-> t, Data |-> NilData]>>
      up(p) == [NewProgress(5) EXCEPT !.Match = 4, !.State = StateReplicate, !.RecentActive = p # n1]
      behind == [NewProgress(4) EXCEPT !.RecentActive = TRUE, !.ProbeSent = TRUE]
      leader == [Restarted(n1, 3, n1, nil(3)) EXCEPT
                   !.state = StateLeader, !.lead = n1, !.log.committed = 4,
                   !.prs = [p \in Server |-> IF p = n3 THEN behind ELSE up(p)]]
  IN  /\ rs = (n1 :> leader) @@ (n2 :> Restarted(n2, 3, n1, nil(3)))
              @@ (n3 :> Restarted(n3, 3, None, nil(2)))
      /\ msgs = {Beat(n2, 4), Beat(n3, 0), Answer(n3)}
      /\ readStates = {} /\ issued = [c \in ReadCtx |-> -1]

MCSpecLagging == InitLagging /\ [][MCNext]_vars
=============================================================================
