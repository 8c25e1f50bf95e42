------------------------------ MODULE Contract ------------------------------
(***************************************************************************)
(* What one call into a raft instance, Step, a tick, a restart or a        *)
(* compaction, guarantees to the rest of the cluster.  CallOK is what      *)
(* elections depend on, Replicates what replication depends on.            *)
(***************************************************************************)
EXTENDS RaftNode

IsGrant(m) == m.type = "MsgVoteResp" /\ ~m.Reject

----------------------------------------------------------------------------
(* Campaigns.                                                              *)

\* A set of voters whose votes win an election.
Wins(Q) == VoteResult(<<Server, {}>>, Q, {}) = VoteWon

\* The votes node r may count in the term of s: its own, the ones counted
\* before in that term, and the grants for it among the messages G.
Supporters(r, s, G) ==
  {r.id} \cup {a \in r.granted : r.state = StateCandidate /\ r.Term = s.Term}
         \cup {m.from : m \in {o \in G : IsGrant(o) /\ o.to = r.id /\ o.Term = s.Term}}

\* Terms do not go back, a vote is not changed within a term.
VoteKept(r, s) ==
  /\ s \in NodeType /\ s.id = r.id /\ s.Term >= r.Term
  /\ s.Term = r.Term /\ r.Vote # None => s.Vote = r.Vote

\* A candidate counts only votes it has, a new leader has enough of them.
VotesCounted(r, s, G) ==
  /\ s.state = StateCandidate => s.Vote = s.id /\ s.granted \subseteq Supporters(r, s, G)
  /\ s.state = StateLeader =>
       \/ r.state = StateLeader /\ r.Term = s.Term
       \/ s.Vote = s.id /\ \E Q \in SUBSET Supporters(r, s, G) : Wins(Q)

\* Only a leader speaks for its term, and a granted vote is the one held.
Honest(r, s) ==
  \A m \in s.msgs : m \in r.msgs \/
    /\ m.type \in LeaderMsgs => s.state = StateLeader /\ m.from = s.id /\ m.Term = s.Term
    /\ IsGrant(m) => m.from = s.id /\ m.Term = s.Term /\ m.to = s.Vote

CallOK(r, s, G) == VoteKept(r, s) /\ VotesCounted(r, s, G) /\ Honest(r, s)

\* Between two calls a candidate holds its own vote.
OwnVote(r) == r.state = StateCandidate => r.Vote = r.id

IsAck(m) == m.type = "MsgAppResp" /\ ~m.Reject

\* A progress does not reach beyond the log.
Within(pr, last) ==
  pr.Match =< last /\ pr.Next =< last + 1 /\ pr.PendingSnapshot =< last

\* The window of a progress: what is neither acknowledged nor still to be
\* sent, in order, and only while replicating.
Windowed(pr) ==
  LET q == pr.Inflights
  IN  /\ Len(q) =< MaxInflightMsgs
      /\ pr.State # StateReplicate => q = <<>>
      /\ pr.State = StateReplicate => pr.Match < pr.Next
      /\ \A i \in 1..Len(q) : pr.Match < q[i] /\ q[i] < pr.Next
      /\ \A i, j \in 1..Len(q) : i < j => q[i] < q[j]

\* All of a leader's; it sends nothing to itself.
AllWithin(r) ==
  /\ \A p \in Server : Within(r.prs[p], LastIndex(r.log)) /\ Windowed(r.prs[p])
  /\ r.prs[r.id].Inflights = <<>>

\* What a leader and a member send, by kind of message.
LeaderOut == LeaderMsgs \cup {"MsgReadIndexResp", "MsgTimeoutNow"}

\* What leader r may say: entries, snapshots and commit indexes of its log.
Says(r, m) ==
  /\ m.type = "MsgApp" =>
       /\ r.log.offset =< m.Index /\ m.Index =< LastIndex(r.log) /\ m.Index \in Nat
       /\ m.LogTerm = TermAt(r.log, m.Index) /\ m.Entries = Entries(r.log, m.Index + 1)
       /\ m.Commit = r.log.committed
  /\ m.type = "MsgSnap" => m.Snapshot = Snapshot(r.log)
  /\ m.type = "MsgHeartbeat" =>
       m.to \in Server /\ m.Commit =< r.prs[m.to].Match /\ m.Commit =< r.log.committed
  /\ m.type \in LeaderMsgs => m.to # r.id
  /\ m.type \in LeaderOut

----------------------------------------------------------------------------
(* The handlers of a leader that change its log.                           *)

\* What changes a leader makes to its log: it appends entries of its term,
\* and commits up to one of its term that a quorum acknowledged.
Appends(r, s) == \E e \in Entry : e.Term = s.Term /\ s.log.ents = Append(r.log.ents, e)

CommitGrows(r, s) ==
  \/ s.log.committed = r.log.committed
  \/ /\ s.log.committed > r.log.committed /\ s.log.ents[s.log.committed].Term = s.Term
     /\ Wins({p \in Server : s.prs[p].Match >= s.log.committed})

----------------------------------------------------------------------------
(* The contract of a call that takes instance r to s; G are the messages   *)
(* that may have been received.                                            *)

Kept(r, s) == s.log.ents = r.log.ents /\ s.log.committed = r.log.committed

LedBefore(r, s) == r.state = StateLeader /\ r.Term = s.Term

\* A candidate keeps its log; a leader has run for the term.
RolesFair(r, s) ==
  /\ s.state = StateCandidate =>
       Kept(r, s) /\ (s.Term > r.Term \/ (r.state = StateCandidate /\ r.Term = s.Term))
  /\ s.state = StateLeader =>
       \/ r.state \in {StateLeader, StateCandidate} /\ r.Term = s.Term
       \/ s.Term > r.Term /\ Wins({s.id})

\* A message of the leader of the term, for this node.
Heard(s, o) == o.type \in LeaderMsgs /\ o.to = s.id /\ o.Term = s.Term

Merges(r, s, o) ==
  /\ Heard(s, o) /\ o.type = "MsgApp" /\ o.Index >= r.log.committed
  /\ MatchTerm(r.log, o.Index, o.LogTerm) /\ ~AppendPanics(r.log, o.Index, o.Entries)
  /\ s.log = MaybeAppend(r.log, o.Index, o.Commit, o.Entries)

Beats(r, s, o) ==
  Heard(s, o) /\ o.type = "MsgHeartbeat" /\ s.log = CommitTo(r.log, o.Commit)

Installs(r, s, o) ==
  LET last == Len(o.Snapshot)
  IN  /\ Heard(s, o) /\ o.type = "MsgSnap" /\ last > r.log.committed
      /\ s.log = IF MatchTerm(r.log, last, o.Snapshot[last].Term) THEN CommitTo(r.log, last)
                 ELSE LogRestore(r.log, o.Snapshot)

\* A log changes at its leader, or by a message of the leader of its term.
LogFair(r, s, G) ==
  IF s.state = StateLeader
  THEN CommitGrows(r, s) /\ (Appends(r, s) \/ (LedBefore(r, s) /\ s.log.ents = r.log.ents))
  ELSE \/ Kept(r, s)
       \/ s.state = StateFollower /\ \E o \in G : Merges(r, s, o) \/ Beats(r, s, o) \/ Installs(r, s, o)

\* A leader counts what was acknowledged to it in its term.
MatchFair(r, s, G) ==
  s.state = StateLeader =>
    /\ AllWithin(s)
    /\ \A p \in Server :
         \/ p = s.id
         \/ s.prs[p].Match = 0
         \/ LedBefore(r, s) /\ s.prs[p].Match = r.prs[p].Match
         \/ \E o \in G : IsAck(o) /\ o.from = p /\ o.Term = s.Term /\ o.Index = s.prs[p].Match

\* What may be acknowledged: the log up to the entries just received, or
\* what is committed.
AckFair(r, s, G, i) ==
  \/ i = 0
  \/ i =< s.log.committed /\ \E o \in G : Heard(s, o)
  \/ \E o \in G : Merges(r, s, o) /\ i = o.Index + Len(o.Entries)

Responses == {"MsgAppResp", "MsgHeartbeatResp"}

\* What a call may say.
SentFair(r, s, G, m) ==
  /\ m.type \in LeaderMsgs => Says(s, m)
  /\ IsAck(m) => m.from = s.id /\ m.Term = s.Term /\ AckFair(r, s, G, m.Index)
  /\ m.type \in Responses => m.from = s.id /\ m.to # s.id
  /\ m.type = "MsgVote" =>
       /\ m.from = s.id /\ m.Term = s.Term /\ s.state = StateCandidate
       /\ m.Index = LastIndex(s.log) /\ m.LogTerm = LastTerm(s.log)
  /\ IsGrant(m) =>
       \E v \in G : /\ v.type = "MsgVote" /\ v.from = m.to /\ v.Term = m.Term
                    /\ IsUpToDate(s.log, v.Index, v.LogTerm)
  /\ m.type = "MsgTransferLeader" => m.Term = s.Term /\ m.to = s.lead

\* What makes a node panic: a conflict that maybeAppend finds among the
\* committed entries, or a request for a transfer that it cannot forward.
PanicFair(r, s, G) ==
  s.panic =>
    \/ r.panic
    \/ \E o \in G : /\ Heard(s, o) /\ o.type = "MsgApp" /\ o.Index >= r.log.committed
                    /\ MatchTerm(r.log, o.Index, o.LogTerm)
                    /\ AppendPanics(r.log, o.Index, o.Entries)
    \/ \E o \in G : /\ o.type = "MsgTransferLeader" /\ o.to = s.id /\ o.Term = s.Term
                    /\ s.state = StateFollower /\ s.lead # None

\* A node knows its leader from the leader's own messages.
LeadFair(r, s, G) ==
  \/ s.lead = None
  \/ s.state = StateLeader /\ s.lead = s.id
  \/ s.Term = r.Term /\ s.lead = r.lead /\ (r.state = StateLeader => s.state = StateLeader)
  \/ \E o \in G : Heard(s, o) /\ o.from = s.lead

Replicates(r, s, G) ==
  /\ RolesFair(r, s) /\ LogFair(r, s, G) /\ MatchFair(r, s, G)
  /\ \A m \in s.msgs : m \in r.msgs \/ SentFair(r, s, G, m)
  /\ PanicFair(r, s, G) /\ LeadFair(r, s, G)

\* What holds of an instance and of the messages between two calls.
Sound(r, G) ==
  /\ r.state = StateLeader => AllWithin(r)
  /\ \A o \in G :
       /\ o.type \in LeaderMsgs \cup Responses => o.from # o.to
       /\ IsAck(o) /\ o.to = r.id /\ LedBefore(r, o) => o.Index =< LastIndex(r.log)

----------------------------------------------------------------------------
\* Every set of naturals has a least element.
WellOrdered == \A S \in SUBSET Nat : S # {} => \E x \in S : \A y \in S : x =< y

\* What the argument takes from the naturals and from quorums: that quorums
\* exist, grow and meet (VoteResult), that one has acknowledged the index that
\* CommittedIndex finds, and that of finitely many indexes one is the greatest.
Basis ==
  /\ WellOrdered
  /\ Wins(Server)
  /\ \A P, Q, no : VoteResult(<<Server, {}>>, P, no) = VoteWon /\ P \subseteq Q => Wins(Q)
  /\ \A P, Q : Wins(P) /\ Wins(Q) => \E a \in Server : a \in P /\ a \in Q
  /\ \A acked : (\A id \in Server : AckedIndex(acked, id) \in Nat) =>
       /\ MajorityCommittedIndex(Server, acked) \in Nat
       /\ Wins({id \in Server : AckedIndex(acked, id) >= MajorityCommittedIndex(Server, acked)})
  /\ \A f \in [Server -> Nat] : \E p \in Server : \A q \in Server : f[q] =< f[p]
=============================================================================
