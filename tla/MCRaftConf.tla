----------------------------- MODULE MCRaftConf -----------------------------
(***************************************************************************)
(* Instances of RaftConf for TLC, with servers 1, 2 and 3.  A scenario is  *)
(* an initial state and the bounds on what may follow; the network is      *)
(* unreliable in all of them and carries votes and appends.                *)
(***************************************************************************)
EXTENDS RaftConf

VARIABLE scenario

MCVars == <<vars, scenario>>

Single(type, id) == [transition |-> "Auto", ccs |-> <<[Type |-> type, NodeID |-> id]>>]

MCChange ==
  [add1 |-> Single(ConfChangeAddNode, 1), add2 |-> Single(ConfChangeAddNode, 2),
   add3 |-> Single(ConfChangeAddNode, 3), remove2 |-> Single(ConfChangeRemoveNode, 2),
   remove3 |-> Single(ConfChangeRemoveNode, 3),
   only1 |-> [transition |-> "JointImplicit",
              ccs |-> <<[Type |-> ConfChangeRemoveNode, NodeID |-> 2],
                        [Type |-> ConfChangeAddLearnerNode, NodeID |-> 3]>>]]

MCBoot == <<"add1", "add2", "add3">>

(***************************************************************************)
(* timers: <<n, t>>, the election timer of n may run out before term t.    *)
(* proposers: <<n, t, i>>, n makes proposals when it leads term t, up to   *)
(*   index i.                                                              *)
(* changes, values: what is proposed.  transferees: of leader 1.           *)
(* restarts: <<n, t>>, n may restart in term t.                            *)
(* beats: 1 sends heartbeats in a joint configuration.                     *)
(***************************************************************************)
Nothing ==
  [timers |-> {}, proposers |-> {}, changes |-> {}, values |-> {}, transferees |-> {},
   restarts |-> {}, beats |-> FALSE, maxTerm |-> 3, maxLog |-> 7]

Bound ==
  [single |-> [Nothing EXCEPT !.timers = {<<2, 3>>}, !.proposers = {<<1, 2, 7>>},
                              !.changes = {"remove2", "remove3"}],
   handover |-> [Nothing EXCEPT !.proposers = {<<2, 3, 8>>}, !.changes = {"remove2"}, !.maxLog = 8],
   joint |-> [Nothing EXCEPT !.timers = {<<2, 3>>}, !.proposers = {<<1, 2, 5>>},
                             !.changes = {"only1"}],
   leave |-> [Nothing EXCEPT !.proposers = {<<1, 2, 5>>}, !.changes = {"only1"},
                             !.beats = TRUE],
   quota |-> [Nothing EXCEPT !.timers = {<<2, 3>>}, !.proposers = {<<1, 2, 6>>},
                             !.values = Value, !.changes = {"remove3"}, !.maxLog = 6],
   rejoin |-> [Nothing EXCEPT !.proposers = {<<1, 2, 6>>}, !.changes = {"remove3", "add3"}],
   transfer |-> [Nothing EXCEPT !.proposers = {<<1, 2, 6>>}, !.changes = {"remove2"},
                                !.transferees = {2, 3}, !.maxLog = 6],
   restart |-> [Nothing EXCEPT !.timers = {<<1, 4>>, <<3, 4>>}, !.restarts = {<<1, 3>>, <<1, 4>>},
                               !.maxTerm = 4],
   diverged |-> [Nothing EXCEPT !.timers = {<<1, 4>>, <<3, 5>>}, !.maxTerm = 5, !.maxLog = 6]]

CONSTANT Scenarios        \* the ones that a run looks at

\* Server 3 is too slow to apply anything.
Appliers == {1, 2}

Limits == Bound[scenario]

Bounded ==
  /\ \A n \in Server : rs'[n].Term =< Limits.maxTerm /\ LastIndex(rs'[n].log) =< Limits.maxLog
  /\ UNCHANGED scenario

\* A Ready holds all that is committed when the application gets to it.
WholeReady(n) ==
  rs[n].ready = 0 => MaxOf(rs'[n].ready, rs'[n].applied) = rs[n].log.committed

Now(n) == <<n, rs[n].Term>>
Proposes(n) ==
  \E i \in (LastIndex(rs[n].log) + 1)..Limits.maxLog : <<n, rs[n].Term, i>> \in Limits.proposers

\* Heartbeats to server 3 are lost.
Arriving == {m \in msgs : m.type # "MsgHeartbeat" \/ m.to = 2}

MCConfNext ==
  \/ \E n \in Server : <<n, rs[n].Term + 1>> \in Limits.timers /\ ConfElectionTimeout(n) /\ Bounded
  \/ \E n \in Server, v \in Limits.values : Proposes(n) /\ ConfPropose(n, v) /\ Bounded
  \/ \E n \in Server, d \in Limits.changes : Proposes(n) /\ ProposeConfChange(n, d) /\ Bounded
  \/ \E n \in Appliers : ApplyConf(n) /\ WholeReady(n) /\ Bounded
  \/ \E n \in Appliers : Advance(n) /\ WholeReady(n) /\ Bounded
  \/ \E n \in Server : Now(n) \in Limits.restarts /\ ConfRestart(n) /\ Bounded
  \/ Limits.beats /\ rs[1].cfg.AutoLeave /\ ConfLeaderTick(1) /\ Bounded
  \/ \E p \in Limits.transferees : ConfTransferLeadership(1, p) /\ Bounded
  \/ \E m \in Arriving : ConfReceive(m) /\ Bounded

----------------------------------------------------------------------------
(* Initial states.                                                         *)

Quiet(r) == [r EXCEPT !.msgs = {}]
Sent(r, type, to) == CHOOSE m \in r.msgs : m.type = type /\ m.to = to

\* All have applied the bootstrap.
Booted(p) == AdvanceStep(BootstrapConf(p), Len(Boot))

\* Server 1 has been elected for term 2, its first entry is in every log and
\* it has the acknowledgement of server 2.
InitElected ==
  LET candidate == CampaignElection(Booted(1), FALSE)
      voter(p) == Step(Booted(p), Sent(candidate, "MsgVote", p), FALSE)
      leader == Tracked(candidate, Step(candidate, Sent(voter(2), "MsgVoteResp", 1), FALSE))
      follower(p) == Step(Quiet(voter(p)), Sent(leader, "MsgApp", p), FALSE)
      acked == Step(Quiet(leader), Sent(follower(2), "MsgAppResp", 1), FALSE)
  IN  rs = [p \in Server |-> IF p = 1 THEN Quiet(acked) ELSE Quiet(follower(p))]

\* A partition has left the three logs apart: server 1 led term 2 and server 3
\* led term 3 with the vote of server 2, each crashed with what it appended in
\* its own log only, and server 1 has learned of term 3.
Diverged(n, vote, tail) ==
  [Booted(n) EXCEPT !.Term = 3, !.Vote = vote, !.log.ents = @ \o tail]

InitDiverged ==
  LET nil(t) == <<[Term |-> t, Data |-> NilData]>>
  IN  rs = <<Diverged(1, None, nil(2) \o nil(2)), Diverged(2, 3, <<>>), Diverged(3, 3, nil(3))>>

\* Server 1 led term 2 and did not learn that the change it has left behind
\* is in every log; server 2 runs for term 3, and all know of it.
Left(n, vote) ==
  LET entry(d) == [Term |-> 2, Data |-> d]
  IN  AdvanceStep([Diverged(n, vote, <<entry(NilData), entry("remove3")>>) EXCEPT
                     !.log.committed = 4], 4)

InitRestart == rs = <<Left(1, None), Left(2, 2), Left(3, None)>>

\* Server 2 has been elected for term 3, with the vote of server 3.
InitHandover ==
  LET candidate == [Left(2, 2) EXCEPT !.state = StateCandidate]
  IN  rs = <<Left(1, None), Tracked(candidate, BecomeLeader(candidate)), Left(3, 2)>>

MCConfInit ==
  /\ scenario \in Scenarios
  /\ CASE scenario = "diverged" -> InitDiverged
       [] scenario = "restart" -> InitRestart
       [] scenario = "handover" -> InitHandover
       [] OTHER -> InitElected
  /\ msgs = {} /\ readStates = {} /\ issued = [c \in ReadCtx |-> -1]

MCConfSpec == MCConfInit /\ [][MCConfNext]_MCVars
=============================================================================
