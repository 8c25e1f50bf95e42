--------------------------- MODULE ReplicaProofs ---------------------------
(***************************************************************************)
(* What followers and candidates do to their log and in what they say:     *)
(* their part of Replicates.  With it, every step of the cluster is a call *)
(* that keeps to its contract.                                             *)
(***************************************************************************)
EXTENDS Cluster, ReplicationProofs

----------------------------------------------------------------------------
(* The messages of a leader, at a follower.                                *)

\* A call that is within the contract may go on to send fair messages,
LEMMA AfterReplicates ==
  ASSUME NEW r, NEW t, NEW s, NEW G, Replicates(r, t, G),
         s.id = t.id, s.Term = t.Term, s.state = t.state, s.log = t.log, s.prs = t.prs,
         s.lead = t.lead, s.panic = t.panic,
         \A m \in s.msgs : m \in t.msgs \/ SentFair(r, t, G, m)
  PROVE  Replicates(r, s, G)
  <1>1. /\ \A o : /\ Merges(r, s, o) = Merges(r, t, o) /\ Beats(r, s, o) = Beats(r, t, o)
                  /\ Installs(r, s, o) = Installs(r, t, o) /\ Heard(s, o) = Heard(t, o)
        /\ Kept(r, s) = Kept(r, t) /\ Appends(r, s) = Appends(r, t)
        /\ CommitGrows(r, s) = CommitGrows(r, t) /\ LedBefore(r, s) = LedBefore(r, t)
        /\ AllWithin(s) = AllWithin(t)
    BY DEF Merges, Beats, Installs, Kept, Appends, CommitGrows, LedBefore, Heard, AllWithin
  <1>2. \A m : Says(s, m) = Says(t, m)
    BY DEF Says
  <1>3. \A i : AckFair(r, s, G, i) = AckFair(r, t, G, i)
    BY <1>1 DEF AckFair
  <1>4. \A m : SentFair(r, t, G, m) => SentFair(r, s, G, m)
    BY <1>2, <1>3 DEF SentFair
  <1>5. /\ RolesFair(r, t) /\ LogFair(r, t, G) /\ MatchFair(r, t, G)
        /\ \A m \in t.msgs : m \in r.msgs \/ SentFair(r, t, G, m)
        /\ PanicFair(r, t, G) /\ LeadFair(r, t, G)
    BY DEF Replicates
  <1>6. RolesFair(r, s)
    BY <1>1, <1>5 DEF RolesFair
  <1>7. LogFair(r, s, G)
    BY <1>1, <1>5 DEF LogFair
  <1>8. MatchFair(r, s, G)
    BY <1>1, <1>5 DEF MatchFair
  <1>9. PanicFair(r, s, G)
    BY <1>1, <1>5 DEF PanicFair
  <1>10. LeadFair(r, s, G)
    BY <1>1, <1>5 DEF LeadFair
  <1>11. QED
    BY <1>4, <1>5, <1>6, <1>7, <1>8, <1>9, <1>10, Zenon DEF Replicates

\* with send.
LEMMA SendAllReplicates ==
  ASSUME NEW r, NEW t \in NodeType, NEW ms, NEW G, Replicates(r, t, G),
         \A m \in ms : /\ Stamped(t, m) \in Message /\ ~WrongTerm(m)
                       /\ SentFair(r, t, G, Stamped(t, m))
  PROVE  Replicates(r, SendAll(t, ms), G)
  <1> DEFINE s == SendAll(t, ms)
  <1>1. Stays(t, s) /\ Data(t, s) /\ s.msgs = t.msgs \cup {Stamped(t, m) : m \in ms}
    BY SendAllStays
  <1>2. s.panic = (t.panic \/ \E m \in ms : WrongTerm(m)) /\ t.panic \in BOOLEAN
    BY DEF SendAll, NodeType
  <1> HIDE DEF s
  <1>3. s.panic = t.panic
    BY <1>2
  <1>4. Replicates(r, s, G)
    BY <1>1, <1>3, AfterReplicates DEF Stays, Data
  <1>5. QED
    BY <1>4 DEF s

\* One message.
LEMMA SendReplicates ==
  ASSUME NEW r, NEW t \in NodeType, NEW m, NEW G, Replicates(r, t, G),
         Stamped(t, m) \in Message, ~WrongTerm(m), SentFair(r, t, G, Stamped(t, m))
  PROVE  Replicates(r, Send(t, m), G)
  <1>1. \A x \in {m} : x = m
    OBVIOUS
  <1>2. QED
    BY <1>1, SendAllReplicates DEF Send

\* To do nothing is within the contract.
LEMMA NothingReplicates ==
  ASSUME NEW r \in NodeType, NEW G, Sound(r, G)
  PROVE  Replicates(r, r, G)
  <1>1. r.Term = r.Term /\ CommitGrows(r, r) /\ Kept(r, r)
    BY DEF CommitGrows, Kept
  <1>2. RolesFair(r, r)
    BY <1>1 DEF RolesFair
  <1>3. LogFair(r, r, G)
    BY <1>1 DEF LogFair, LedBefore
  <1>4. MatchFair(r, r, G)
    BY DEF MatchFair, LedBefore, Sound
  <1>5. PanicFair(r, r, G) /\ LeadFair(r, r, G)
    BY DEF PanicFair, LeadFair
  <1>6. QED
    BY <1>2, <1>3, <1>4, <1>5, Zenon DEF Replicates

\* A follower's log changes by a message of its leader.
LEMMA SetLogReplicates ==
  ASSUME NEW r \in NodeType, NEW G, NEW s, r.state = StateFollower, s.state = StateFollower,
         s.id = r.id, s.Term = r.Term, s.lead = r.lead, s.msgs = r.msgs, s.panic = r.panic,
         \/ s.log = r.log
         \/ \E o \in G : Merges(r, s, o) \/ Beats(r, s, o) \/ Installs(r, s, o)
  PROVE  Replicates(r, s, G)
  <1>1. RolesFair(r, s) /\ MatchFair(r, s, G) /\ PanicFair(r, s, G) /\ LeadFair(r, s, G)
    BY DEF RolesFair, MatchFair, PanicFair, LeadFair, StateFollower, StateLeader, StateCandidate
  <1>2. LogFair(r, s, G)
    BY DEF LogFair, Kept, StateFollower, StateLeader
  <1>3. QED
    BY <1>1, <1>2 DEF Replicates

\* An answer to the leader acknowledges what it may.
LEMMA AcceptFair ==
  ASSUME NEW r, NEW t \in NodeType, NEW to \in Server, NEW i \in Nat, NEW G, to # t.id,
         AckFair(r, t, G, i)
  PROVE  /\ Stamped(t, AppRespMsg(t, to, i)) \in Message
         /\ ~WrongTerm(AppRespMsg(t, to, i))
         /\ SentFair(r, t, G, Stamped(t, AppRespMsg(t, to, i)))
  <1> DEFINE a == AppRespMsg(t, to, i)
             m == Stamped(t, a)
  <1>1. m \in Message
    BY AcceptMsgType DEF FromMember
  <1>2. a.type = "MsgAppResp" /\ a.Term = 0 /\ a.from = t.id /\ a.to = to /\ a.Index = i
    BY DEF AppRespMsg
  <1>3. ~WrongTerm(a)
    BY <1>2 DEF WrongTerm, CampaignMsgs
  <1>4. m = [a EXCEPT !.Term = t.Term]
    BY <1>2, StampedHeader
  <1>5. m.type = "MsgAppResp" /\ m.Term = t.Term /\ m.from = t.id /\ m.to = to /\ m.Index = i
    BY <1>4 DEF AppRespMsg
  <1> HIDE DEF m, a
  <1>6. SentFair(r, t, G, m)
    BY <1>5 DEF SentFair, LeaderMsgs, IsAck, Responses, IsGrant
  <1>7. QED
    BY <1>1, <1>3, <1>6 DEF m, a

\* handleAppendEntries.
LEMMA HandleAppendEntriesReplicates ==
  ASSUME Basis, NEW r \in NodeType, NEW m \in AppMessage, NEW G, r.state = StateFollower, m \in G,
         Heard(r, m), m.from # r.id, Sound(r, G)
  PROVE  Replicates(r, HandleAppendEntries(r, m), G)
  <1>1. /\ m.from \in Server /\ m.Index \in Nat /\ m.LogTerm \in Nat /\ m.Entries \in Seq(Entry)
        /\ m.Commit \in Nat /\ m.type = "MsgApp"
    BY DEF AppMessage
  <1>2. r.log \in LogType /\ r.log.committed \in Nat
    BY NodeFields, LogFields
  <1>3. Replicates(r, r, G)
    BY NothingReplicates
  <1>4. Replicates(r, Send(r, AppRespMsg(r, m.from, r.log.committed)), G)
    <2>1. AckFair(r, r, G, r.log.committed)
      BY <1>2 DEF AckFair
    <2>2. QED
      BY <1>1, <1>2, <1>3, <2>1, AcceptFair, SendReplicates, Zenon
  <1>5. Replicates(r, Send(r, RejectMsg(r, m)), G)
    <2> DEFINE a == RejectMsg(r, m)
               x == Stamped(r, a)
    <2>1. FromMember(r, a)
      BY RejectMsgType
    <2>2. PICK hint, term \in Nat : a =
              [type |-> "MsgAppResp", from |-> r.id, to |-> m.from, Term |-> 0,
               Index |-> m.Index, Reject |-> TRUE, RejectHint |-> hint, LogTerm |-> term]
      BY RejectMsgType
    <2> HIDE DEF a
    <2>3. x = [a EXCEPT !.Term = r.Term] /\ ~WrongTerm(a)
      BY <2>2, StampedHeader, Zenon DEF WrongTerm, CampaignMsgs
    <2>4. x.type = "MsgAppResp" /\ x.from = r.id /\ x.to = m.from /\ x.Reject
      BY <2>2, <2>3
    <2> HIDE DEF x
    <2>5. SentFair(r, r, G, x)
      BY <2>4 DEF SentFair, LeaderMsgs, IsAck, Responses, IsGrant
    <2>6. QED
      BY <1>3, <2>1, <2>3, <2>5, SendReplicates DEF FromMember, x, a
  <1>6. ASSUME m.Index >= r.log.committed, MatchTerm(r.log, m.Index, m.LogTerm),
               AppendPanics(r.log, m.Index, m.Entries)
        PROVE  Replicates(r, Panicked(r), G)
    <2> DEFINE s == [r EXCEPT !.panic = TRUE]
    <2>1. /\ s.id = r.id /\ s.Term = r.Term /\ s.state = r.state /\ s.log = r.log /\ s.lead = r.lead
          /\ s.msgs = r.msgs
      BY DEF NodeType
    <2>2. Panicked(r) = s
      BY DEF Panicked
    <2> HIDE DEF s
    <2>3. PanicFair(r, s, G)
      BY <1>1, <1>6, <2>1 DEF PanicFair, Heard
    <2>4. RolesFair(r, s) /\ MatchFair(r, s, G) /\ LeadFair(r, s, G)
      BY <2>1 DEF RolesFair, MatchFair, LeadFair, StateFollower, StateLeader, StateCandidate
    <2>5. LogFair(r, s, G)
      BY <2>1 DEF LogFair, Kept, StateFollower, StateLeader
    <2>6. QED
      BY <2>1, <2>2, <2>3, <2>4, <2>5 DEF Replicates
  <1>7. ASSUME m.Index >= r.log.committed, MatchTerm(r.log, m.Index, m.LogTerm),
               ~AppendPanics(r.log, m.Index, m.Entries)
        PROVE  Replicates(r, Send([r EXCEPT !.log = MaybeAppend(r.log, m.Index, m.Commit, m.Entries)],
                                  AppRespMsg(r, m.from, m.Index + Len(m.Entries))), G)
    <2> DEFINE l == MaybeAppend(r.log, m.Index, m.Commit, m.Entries)
               t == [r EXCEPT !.log = l]
               i == m.Index + Len(m.Entries)
    <2>1. l \in LogType /\ l = MaybeAppend(r.log, m.Index, m.Commit, m.Entries)
      BY <1>1, <1>2, <1>7, MaybeAppendType
    <2> HIDE DEF l
    <2>2. t \in NodeType
      BY <2>1, SetLog DEF Internal, Stays
    <2>3. /\ t.id = r.id /\ t.Term = r.Term /\ t.state = r.state /\ t.log = l /\ t.lead = r.lead
          /\ t.msgs = r.msgs /\ t.panic = r.panic
      BY DEF NodeType
    <2> HIDE DEF t
    <2>4. Merges(r, t, m)
      BY <1>1, <1>7, <2>1, <2>3 DEF Merges, Heard
    <2>5. Replicates(r, t, G)
      BY <2>3, <2>4, SetLogReplicates
    <2>6. i \in Nat /\ AckFair(r, t, G, i)
      BY <1>1, <2>4, SeqLen DEF AckFair
    <2>7. AppRespMsg(r, m.from, i) = AppRespMsg(t, m.from, i)
      BY <2>3 DEF AppRespMsg
    <2> HIDE DEF i
    <2>8. Replicates(r, Send(t, AppRespMsg(t, m.from, i)), G)
      BY <1>1, <2>2, <2>3, <2>5, <2>6, AcceptFair, SendReplicates, ZenonT(30)
    <2>9. QED
      BY <2>7, <2>8 DEF t, l, i
  <1>8. QED
    BY <1>1, <1>2, <1>4, <1>5, <1>6, <1>7 DEF HandleAppendEntries

\* handleHeartbeat.
LEMMA HandleHeartbeatReplicates ==
  ASSUME NEW r \in NodeType, NEW m \in HeartbeatMessage, NEW G, r.state = StateFollower, m \in G,
         Heard(r, m), m.from # r.id, Sound(r, G)
  PROVE  Replicates(r, HandleHeartbeat(r, m), G)
  <1> DEFINE l == CommitTo(r.log, m.Commit)
             t == [r EXCEPT !.log = l]
             from == m.from
             ctx == m.Context
             resp == [type |-> "MsgHeartbeatResp", from |-> r.id, to |-> from, Term |-> 0,
                      Context |-> ctx]
             sent == [type |-> "MsgHeartbeatResp", from |-> r.id, to |-> from, Term |-> r.Term,
                      Context |-> ctx]
  <1>1. from \in Server /\ m.Commit \in Nat /\ ctx \in ReadCtx \cup {NoCtx} /\ m.type = "MsgHeartbeat"
    BY DEF HeartbeatMessage
  <1>2. l \in LogType /\ l = CommitTo(r.log, m.Commit) /\ from # r.id
    BY <1>1, NodeFields, CommitToType
  <1>3. HandleHeartbeat(r, m) = r \/ HandleHeartbeat(r, m) = Send(t, resp)
    BY DEF HandleHeartbeat
  <1> HIDE DEF l, from, ctx
  <1>4. t \in NodeType
    BY <1>2, SetLog DEF Internal, Stays
  <1>5. /\ t.id = r.id /\ t.Term = r.Term /\ t.state = r.state /\ t.log = l /\ t.lead = r.lead
        /\ t.msgs = r.msgs /\ t.panic = r.panic
    BY DEF NodeType
  <1> HIDE DEF t
  <1>6. Beats(r, t, m)
    BY <1>1, <1>2, <1>5 DEF Beats, Heard
  <1>7. Replicates(r, t, G)
    BY <1>5, <1>6, SetLogReplicates
  <1>8. Stamped(t, resp) = sent /\ ~WrongTerm(resp)
    BY <1>5, StampedHeader DEF WrongTerm, CampaignMsgs
  <1>9. /\ sent \in HeartbeatRespMessage /\ sent.type = "MsgHeartbeatResp" /\ sent.from = r.id
        /\ sent.to = from
    BY <1>1, NodeFields DEF HeartbeatRespMessage
  <1> HIDE DEF sent, resp
  <1>10. SentFair(r, t, G, sent) /\ sent \in Message
    BY <1>2, <1>5, <1>9 DEF SentFair, Message, LeaderMsgs, IsAck, Responses, IsGrant
  <1>11. QED
    BY <1>3, <1>4, <1>7, <1>8, <1>10, NothingReplicates, SendReplicates

\* handleSnapshot.
LEMMA HandleSnapshotReplicates ==
  ASSUME NEW r \in NodeType, NEW m \in SnapMessage, NEW G, r.state = StateFollower, m \in G,
         Heard(r, m), m.from # r.id, Sound(r, G)
  PROVE  Replicates(r, HandleSnapshot(r, m), G)
  <1> DEFINE snap == m.Snapshot
             last == Len(snap)
             keeps == MatchTerm(r.log, last, snap[last].Term)
             s == HandleSnapshot(r, m)
  <1>1. m.from \in Server /\ snap \in Seq(Entry) /\ last \in Nat /\ m.type = "MsgSnap"
    BY SeqLen DEF SnapMessage
  <1>2. r.log \in LogType /\ r.log.committed \in Nat
    BY NodeFields, LogFields
  <1>3. ASSUME NEW t \in NodeType, NEW i \in Nat, t.id = r.id, t.Term = r.Term, t.state = r.state,
               t.lead = r.lead, t.msgs = r.msgs, t.panic = r.panic, t.log = r.log \/ Installs(r, t, m),
               i =< t.log.committed, s = Send(t, AppRespMsg(r, m.from, i))
        PROVE  Replicates(r, s, G)
    <2>1. Replicates(r, t, G)
      BY <1>3, SetLogReplicates
    <2>2. AckFair(r, t, G, i)
      BY <1>3 DEF AckFair, Heard
    <2>3. AppRespMsg(r, m.from, i) = AppRespMsg(t, m.from, i)
      BY <1>3 DEF AppRespMsg
    <2> HIDE DEF s
    <2>4. QED
      BY <1>1, <1>3, <2>1, <2>2, <2>3, AcceptFair, SendReplicates, ZenonT(30)
  <1>4. CASE Restores(r, snap)
    <2> DEFINE l == LogRestore(r.log, snap)
               prs == RestoredProgress(r, last)
               none == {}
               t == [r EXCEPT !.log = l, !.granted = none, !.rejected = none, !.prs = prs]
    <2>1. last > r.log.committed /\ ~keeps /\ last \in Nat \ {0}
      BY <1>1, <1>2, <1>4 DEF Restores
    <2>2. l \in LogType /\ l.committed = last
      BY <1>1, <1>2, <2>1, LogRestoreType DEF LogRestore, LogType
    <2>3. prs \in [Server -> ProgressType]
      BY <2>1, RestoredProgressType
    <2>4. none \in SUBSET Server
      OBVIOUS
    <2>5. s = Send(t, AppRespMsg(r, m.from, last))
      BY <1>4 DEF HandleSnapshot
    <2>6. l = LogRestore(r.log, snap)
      OBVIOUS
    <2> HIDE DEF l, prs, none, s, last, snap, keeps
    <2>7. t \in NodeType
      BY <2>2, <2>3, <2>4, Zenon DEF NodeType
    <2>8. /\ t.id = r.id /\ t.Term = r.Term /\ t.state = r.state /\ t.log = l
          /\ t.lead = r.lead /\ t.msgs = r.msgs /\ t.panic = r.panic
      BY DEF NodeType
    <2> HIDE DEF t
    <2>9. Installs(r, t, m)
      BY <1>1, <2>1, <2>6, <2>8, Zenon DEF Installs, Heard, last, snap, keeps
    <2>10. QED
      BY <1>1, <1>3, <2>2, <2>5, <2>7, <2>8, <2>9 DEF s
  <1>5. CASE ~Restores(r, snap)
    <2> DEFINE l == IF last > r.log.committed THEN CommitTo(r.log, last) ELSE r.log
               t == [r EXCEPT !.log = l]
    <2>1. l \in LogType /\ l.committed \in Nat
      BY <1>1, <1>2, CommitToType, LogFields, Zenon
    <2>2. s = Send(t, AppRespMsg(r, m.from, l.committed))
      BY <1>5 DEF HandleSnapshot
    <2>3. last > r.log.committed => keeps /\ l = CommitTo(r.log, last)
      BY <1>5 DEF Restores
    <2>4. ~(last > r.log.committed) => l = r.log
      OBVIOUS
    <2> HIDE DEF l, s, last, snap, keeps
    <2>5. t \in NodeType
      BY <2>1, SetLog DEF Internal, Stays
    <2>6. /\ t.id = r.id /\ t.Term = r.Term /\ t.state = r.state /\ t.log = l
          /\ t.lead = r.lead /\ t.msgs = r.msgs /\ t.panic = r.panic
      BY DEF NodeType
    <2> HIDE DEF t
    <2>7. t.log = r.log \/ Installs(r, t, m)
      BY <1>1, <2>3, <2>4, <2>6, Zenon DEF Installs, Heard, last, snap, keeps
    <2>8. QED
      BY <1>3, <2>1, <2>2, <2>5, <2>6, <2>7 DEF s
  <1>6. QED
    BY <1>4, <1>5

\* Whatever a leader sends.
LEMMA HandleLeaderMsgReplicates ==
  ASSUME Basis, NEW r \in NodeType, NEW m \in Message, NEW G, r.state = StateFollower, m \in G,
         Heard(r, m), m.from # r.id, Sound(r, G)
  PROVE  Replicates(r, HandleLeaderMsg(r, m), G)
  <1>1. m.type \in LeaderMsgs
    BY DEF Heard
  <1>2. CASE m.type = "MsgApp"
    BY <1>2, MessageKinds, HandleAppendEntriesReplicates DEF HandleLeaderMsg
  <1>3. CASE m.type = "MsgHeartbeat"
    BY <1>3, MessageKinds, HandleHeartbeatReplicates DEF HandleLeaderMsg
  <1>4. CASE m.type = "MsgSnap"
    BY <1>4, MessageKinds, HandleSnapshotReplicates DEF HandleLeaderMsg
  <1>5. QED
    BY <1>1, <1>2, <1>3, <1>4, Zenon DEF LeaderMsgs

\* The messages are as sound for a node that has entered another role.
LEMMA EntersSound ==
  ASSUME NEW r, NEW t, NEW G, Sound(r, G), Enters(r, t, G)
  PROVE  Sound(t, G) /\ t.state # StateLeader
  BY DEF Sound, Enters, LedBefore, StateFollower, StatePreCandidate, StateLeader

----------------------------------------------------------------------------
(* Campaigns.                                                              *)

\* A candidate c of a campaign that r starts, or is in.
Runs(r, c) ==
  /\ c \in NodeType /\ c.state = StateCandidate /\ c.id = r.id /\ c.log = r.log
  /\ c.msgs = r.msgs /\ c.panic = r.panic
  /\ \/ c.Term > r.Term /\ c.lead = None
     \/ r.state = StateCandidate /\ c.Term = r.Term /\ c.lead = r.lead

\* A candidate is within the contract,
LEMMA RunsReplicates ==
  ASSUME NEW r, NEW c, NEW G, Runs(r, c)
  PROVE  Replicates(r, c, G)
  <1>1. RolesFair(r, c) /\ MatchFair(r, c, G)
    BY DEF Runs, RolesFair, MatchFair, Kept, StateCandidate, StateLeader
  <1>2. LogFair(r, c, G)
    BY DEF Runs, LogFair, Kept, StateCandidate, StateLeader
  <1>3. PanicFair(r, c, G) /\ LeadFair(r, c, G)
    BY DEF Runs, PanicFair, LeadFair, StateCandidate, StateLeader
  <1>4. QED
    BY <1>1, <1>2, <1>3 DEF Runs, Replicates

\* and so is one that wins.
LEMMA WinnerReplicates ==
  ASSUME Basis, NEW r, NEW c, NEW G, Runs(r, c), c.Term > r.Term => Wins({r.id})
  PROVE  Replicates(r, BecomeLeader(c), G)
  <1> DEFINE s == BecomeLeader(c)
  <1>1. c \in NodeType /\ c.id = r.id /\ c.log = r.log /\ c.msgs = r.msgs /\ c.panic = r.panic
    BY DEF Runs
  <1>2. /\ s.id = c.id /\ s.Term = c.Term /\ s.state = StateLeader /\ s.msgs = c.msgs
        /\ Appends(c, s) /\ CommitGrows(c, s) /\ AllWithin(s) /\ s.panic = c.panic /\ s.lead = c.id
        /\ \A p \in Server : p # c.id => s.prs[p].Match = 0
    BY <1>1, BecomeLeaderFields, BecomeLeaderLog
  <1> HIDE DEF s
  <1>3. Appends(r, s) /\ CommitGrows(r, s)
    BY <1>1, <1>2, ZenonT(30) DEF Appends, CommitGrows
  <1>4. RolesFair(r, s)
    BY <1>1, <1>2 DEF RolesFair, Runs, StateLeader, StateCandidate
  <1>5. LogFair(r, s, G) /\ MatchFair(r, s, G)
    BY <1>1, <1>2, <1>3, Zenon DEF LogFair, MatchFair
  <1>6. PanicFair(r, s, G) /\ LeadFair(r, s, G)
    BY <1>1, <1>2, Zenon DEF PanicFair, LeadFair
  <1>7. Replicates(r, s, G)
    BY <1>1, <1>2, <1>4, <1>5, <1>6 DEF Replicates
  <1>8. QED
    BY <1>7 DEF s

\* A vote request tells where the log of its candidate ends.
LEMMA RequestVotesReplicates ==
  ASSUME NEW r, NEW t \in NodeType, NEW G, NEW type \in {"MsgVote", "MsgPreVote"}, NEW term \in Terms,
         NEW transfer \in BOOLEAN, Replicates(r, t, G),
         type = "MsgVote" => t.state = StateCandidate /\ term = t.Term
  PROVE  Replicates(r, RequestVotes(t, type, term, transfer), G)
  <1> DEFINE ms == {VoteMsg(t, type, to, term, transfer) : to \in IDs(Voters(t)) \ {t.id}}
  <1>1. IDs(Voters(t)) = Server
    BY NodeFields DEF IDs
  <1>2. ASSUME NEW to \in Server
        PROVE  LET m == VoteMsg(t, type, to, term, transfer)
               IN  Stamped(t, m) \in Message /\ ~WrongTerm(m) /\ SentFair(r, t, G, Stamped(t, m))
    <2> DEFINE m == VoteMsg(t, type, to, term, transfer)
    <2>1. Stamped(t, m) \in Message
      BY VoteMsgType DEF FromMember
    <2>2. /\ m.type = type /\ m.from = t.id /\ m.Term = term /\ m.Index = LastIndex(t.log)
          /\ m.LogTerm = LastTerm(t.log)
      BY DEF VoteMsg
    <2>3. Stamped(t, m) = m
      BY <2>2, StampedHeader DEF CampaignMsgs
    <2> HIDE DEF m
    <2>4. ~WrongTerm(m)
      BY <2>2 DEF WrongTerm, CampaignMsgs, Terms
    <2>5. SentFair(r, t, G, m)
      BY <2>2 DEF SentFair, LeaderMsgs, IsAck, Responses, IsGrant
    <2>6. QED
      BY <2>1, <2>3, <2>4, <2>5 DEF m
  <1>3. \A m \in ms : Stamped(t, m) \in Message /\ ~WrongTerm(m) /\ SentFair(r, t, G, Stamped(t, m))
    BY <1>1, <1>2
  <1> HIDE DEF ms
  <1>4. QED
    BY <1>3, SendAllReplicates DEF RequestVotes, ms

\* RecordVote touches nothing but the votes.
LEMMA RecordVoteRest ==
  ASSUME NEW r \in NodeType, NEW id, NEW v
  PROVE  RecordVote(r, id, v).lead = r.lead /\ RecordVote(r, id, v).panic = r.panic
  <1> DEFINE g == r.granted \cup {id}
             j == r.rejected \cup {id}
  <1>1. \/ RecordVote(r, id, v) = r
        \/ RecordVote(r, id, v) = [r EXCEPT !.granted = g]
        \/ RecordVote(r, id, v) = [r EXCEPT !.rejected = j]
    BY DEF RecordVote
  <1> HIDE DEF g, j
  <1>2. QED
    BY <1>1 DEF NodeType

\* campaign(campaignElection) and campaign(campaignTransfer).
LEMMA CampaignElectionReplicates ==
  ASSUME Basis, NEW r \in NodeType, NEW transfer \in BOOLEAN, NEW G
  PROVE  Replicates(r, CampaignElection(r, transfer), G)
  <1> DEFINE a == Reset(r, r.Term + 1)
             b == BecomeCandidate(r)
             c == RecordVote(b, r.id, TRUE)
  <1>1. /\ b \in NodeType /\ b.id = r.id /\ b.Term = r.Term + 1 /\ b.state = StateCandidate
        /\ b.granted = {} /\ b.msgs = r.msgs
    BY BecomeCandidateFields
  <1>2. r.id \in Server /\ r.Term \in Nat /\ r.Term + 1 \in Terms
    BY NodeFields DEF Terms
  <1>3. b.log = r.log /\ b.lead = None /\ b.panic = r.panic
    <2>1. a \in NodeType /\ a.log = r.log
      BY <1>2, ResetFields
    <2>2. a.panic = r.panic /\ a.lead = None
      BY DEF Reset, NodeType
    <2>3. b = [a EXCEPT !.Vote = r.id, !.state = StateCandidate]
      BY DEF BecomeCandidate
    <2> HIDE DEF a, b
    <2>4. QED
      BY <2>1, <2>2, <2>3 DEF NodeType
  <1> HIDE DEF b
  <1>4. /\ c \in NodeType /\ c.id = r.id /\ c.Term = r.Term + 1 /\ c.log = r.log
        /\ c.state = StateCandidate /\ c.msgs = r.msgs /\ c.granted \subseteq {r.id}
    BY <1>1, <1>2, <1>3, RecordVoteFields, Zenon
  <1>5. c.lead = None /\ c.panic = r.panic
    BY <1>1, <1>3, RecordVoteRest, ZenonT(30)
  <1>6. CampaignElection(r, transfer) = IF TallyVotes(c) = VoteWon THEN BecomeLeader(c)
                                        ELSE RequestVotes(c, "MsgVote", c.Term, transfer)
    BY DEF CampaignElection, b
  <1> HIDE DEF c
  <1>7. Runs(r, c)
    BY <1>2, <1>4, <1>5 DEF Runs
  <1>8. CASE TallyVotes(c) = VoteWon
    <2>1. VoteResult(<<Server, {}>>, c.granted, c.rejected) = VoteWon
      BY <1>4, <1>8, NodeFields, Zenon DEF TallyVotes
    <2>2. Wins({r.id})
      BY <1>4, <2>1, WinsMore
    <2>3. QED
      BY <1>6, <1>7, <1>8, <2>2, WinnerReplicates
  <1>9. CASE TallyVotes(c) # VoteWon
    BY <1>2, <1>4, <1>6, <1>7, <1>9, RunsReplicates, RequestVotesReplicates
  <1>10. QED
    BY <1>8, <1>9

\* campaign(campaignPreElection).
LEMMA CampaignPreElectionReplicates ==
  ASSUME Basis, NEW r \in NodeType, NEW G
  PROVE  Replicates(r, CampaignPreElection(r), G)
  <1> DEFINE b == BecomePreCandidate(r)
             c == RecordVote(b, r.id, TRUE)
             s == CampaignElection(c, FALSE)
  <1>1. /\ b \in NodeType /\ b.id = r.id /\ b.Term = r.Term /\ b.state = StatePreCandidate
        /\ b.msgs = r.msgs
    BY BecomePreCandidateFields
  <1>2. b.log = r.log /\ b.lead = None /\ b.panic = r.panic
    BY DEF BecomePreCandidate, NodeType
  <1>3. r.id \in Server /\ r.Term \in Nat /\ r.Term + 1 \in Terms
    BY NodeFields DEF Terms
  <1> HIDE DEF b
  <1>4. /\ c \in NodeType /\ c.id = r.id /\ c.Term = r.Term /\ c.log = r.log
        /\ c.state = StatePreCandidate /\ c.msgs = r.msgs
    BY <1>1, <1>2, <1>3, RecordVoteFields, Zenon
  <1>5. c.lead = None /\ c.panic = r.panic
    BY <1>1, <1>2, RecordVoteRest, ZenonT(30)
  <1>6. CampaignPreElection(r) = IF TallyVotes(c) = VoteWon THEN s
                                 ELSE RequestVotes(c, "MsgPreVote", c.Term + 1, FALSE)
    BY DEF CampaignPreElection, b
  <1> HIDE DEF c
  <1>7. Enters(r, c, G)
    BY <1>3, <1>4, <1>5 DEF Enters, LeadFair
  <1>8. Replicates(r, s, G)
    <2>1. Replicates(c, s, G) /\ NewCampaign(c, s)
      BY <1>4, CampaignElectionReplicates, CampaignElectionStep, Zenon
    <2> HIDE DEF s
    <2>2. s \in NodeType /\ s.id = c.id /\ s.Term >= c.Term
      BY <1>3, <1>4, <2>1 DEF NewCampaign
    <2>3. QED
      BY <1>4, <1>7, <2>1, <2>2, EntersThen, Zenon DEF s
  <1>9. Replicates(r, RequestVotes(c, "MsgPreVote", c.Term + 1, FALSE), G)
    BY <1>3, <1>4, <1>7, EntersReplicates, RequestVotesReplicates, Zenon
  <1>10. QED
    BY <1>6, <1>8, <1>9, ZenonT(30)

\* hup, with pre-vote or without, or refused.
LEMMA HupReplicates ==
  ASSUME Basis, NEW r \in NodeType, NEW G, Sound(r, G)
  PROVE  Replicates(r, Hup(r), G) /\ Replicates(r, HupTransfer(r), G)
  BY NothingReplicates, CampaignElectionReplicates, CampaignPreElectionReplicates,
     ZenonT(30) DEF Hup, HupTransfer

\* A new leader goes on to speak.
LEMMA SpeaksAfter ==
  ASSUME NEW r, NEW t, NEW s, NEW G, Replicates(r, t, G), t.state = StateLeader, Speaks(t, s),
         s.Term = t.Term, s.state = t.state
  PROVE  Replicates(r, s, G)
  <1>1. /\ RolesFair(r, t) /\ LogFair(r, t, G) /\ MatchFair(r, t, G)
        /\ \A m \in t.msgs : m \in r.msgs \/ SentFair(r, t, G, m)
        /\ PanicFair(r, t, G) /\ LeadFair(r, t, G)
    BY DEF Replicates
  <1>2. /\ s.id = t.id /\ s.log = t.log /\ s.panic = t.panic /\ s.lead = t.lead
        /\ \A p \in Server : s.prs[p].Match = t.prs[p].Match
        /\ AllWithin(s) /\ \A m \in s.msgs : m \in t.msgs \/ Says(s, m)
    BY DEF Speaks
  <1>3. RolesFair(r, s)
    BY <1>1, <1>2, Zenon DEF RolesFair, Kept
  <1>4. LogFair(r, s, G)
    <2>1. CommitGrows(r, t) /\ (Appends(r, t) \/ (LedBefore(r, t) /\ t.log.ents = r.log.ents))
      BY <1>1 DEF LogFair
    <2>2. {p \in Server : s.prs[p].Match >= s.log.committed} = {p \in Server : t.prs[p].Match >= t.log.committed}
      BY <1>2
    <2>3. CommitGrows(r, s)
      BY <1>2, <2>1, <2>2, ZenonT(30) DEF CommitGrows
    <2>4. QED
      BY <1>2, <2>1, <2>3, Zenon DEF LogFair, Appends, LedBefore
  <1>5. MatchFair(r, s, G)
    BY <1>1, <1>2 DEF MatchFair, LedBefore
  <1>6. PanicFair(r, s, G) /\ LeadFair(r, s, G)
    BY <1>1, <1>2, Zenon DEF PanicFair, LeadFair, Heard
  <1>7. \A m : Says(s, m) => SentFair(r, s, G, m)
    BY DEF Says, SentFair, LeaderOut, LeaderMsgs, IsAck, IsGrant, Responses
  <1>8. \A m : SentFair(r, t, G, m) => SentFair(r, s, G, m)
    <2>1. \A m : Says(t, m) => Says(s, m)
      BY <1>2 DEF Says
    <2>2. \A i : AckFair(r, t, G, i) => AckFair(r, s, G, i)
      BY <1>2 DEF AckFair, Merges, Heard
    <2>3. QED
      BY <1>2, <2>1, <2>2 DEF SentFair
  <1>9. QED
    BY <1>1, <1>2, <1>3, <1>4, <1>5, <1>6, <1>7, <1>8 DEF Replicates

\* The answer to a vote request, in both kinds of campaign.
LEMMA VoteRespStepReplicates ==
  ASSUME Basis, NEW r \in NodeType, NEW m \in VoteRespMessage, NEW G,
         r.state \in {StateCandidate, StatePreCandidate}
  PROVE  Replicates(r, VoteRespStep(r, m), G)
  <1> DEFINE yes == ~m.Reject
             p == RecordVote(r, m.from, yes)
             res == TallyVotes(p)
             f == BecomeFollower(p, p.Term, None)
             e == CampaignElection(p, FALSE)
             l == BecomeLeader(p)
             s == BcastAppend(l)
  <1>1. m.from \in Server /\ yes \in BOOLEAN
    BY DEF VoteRespMessage
  <1>2. VoteRespStep(r, m) = IF res = VoteLost THEN f ELSE IF res = VotePending THEN p
                             ELSE IF p.state = StatePreCandidate THEN e ELSE s
    BY DEF VoteRespStep
  <1> HIDE DEF yes
  <1>3. /\ p \in NodeType /\ p.id = r.id /\ p.Term = r.Term /\ p.state = r.state /\ p.msgs = r.msgs
        /\ p.log = r.log
    BY <1>1, RecordVoteFields, Zenon
  <1>4. p.lead = r.lead /\ p.panic = r.panic
    BY RecordVoteRest, Zenon
  <1>5. r.Term \in Nat /\ p.Term \in Terms /\ None \in Server \cup {None}
    BY <1>3, NodeFields
  <1> HIDE DEF p, res
  <1>6. Replicates(r, f, G)
    <2>1. Enters(p, f, G)
      BY <1>3, <1>5, BecomeFollowerEnters
    <2> HIDE DEF f
    <2>2. Enters(r, f, G)
      BY <1>3, <1>4, <2>1 DEF Enters, LeadFair
    <2>3. QED
      BY <2>2, EntersReplicates DEF f
  <1>7. CASE p.state = StatePreCandidate
    <2>1. Enters(r, p, G)
      BY <1>3, <1>4, <1>5, <1>7 DEF Enters, LeadFair, StatePreCandidate, StateLeader
    <2>2. Replicates(p, e, G) /\ NewCampaign(p, e)
      BY <1>3, CampaignElectionReplicates, CampaignElectionStep, Zenon
    <2> HIDE DEF e
    <2>3. e \in NodeType /\ e.id = p.id /\ e.Term >= p.Term
      BY <1>3, <1>5, <2>2 DEF NewCampaign
    <2>4. Replicates(r, e, G)
      BY <1>3, <2>1, <2>2, <2>3, EntersThen
    <2>5. QED
      BY <1>2, <1>6, <1>7, <2>1, <2>4, EntersReplicates, ZenonT(30) DEF e
  <1>8. CASE p.state # StatePreCandidate
    <2>1. Runs(r, p)
      BY <1>3, <1>4, <1>5, <1>8 DEF Runs
    <2>2. Replicates(r, l, G)
      <3>1. ~(p.Term > r.Term)
        BY <1>3, <1>5
      <3>2. QED
        BY <2>1, <3>1, WinnerReplicates, Zenon
    <2>3. l \in NodeType /\ l.state = StateLeader /\ AllWithin(l)
      BY <1>3, BecomeLeaderFields, BecomeLeaderLog
    <2> HIDE DEF l
    <2>4. Speaks(l, s) /\ LeaderStep(l, s)
      BY <2>3, BcastAppendSpeaks, BcastAppendStep
    <2> HIDE DEF s
    <2>5. Replicates(r, s, G)
      BY <2>2, <2>3, <2>4, SpeaksAfter DEF LeaderStep, Stays
    <2>6. QED
      BY <1>2, <1>6, <1>8, <2>1, <2>5, RunsReplicates DEF s, l
  <1>9. QED
    BY <1>7, <1>8

\* stepCandidate as a whole.
LEMMA StepCandidateReplicates ==
  ASSUME Basis, NEW r \in NodeType, NEW m \in Message, NEW G, m.to = r.id, m \in G \/ m.Term = 0,
         Current(r, m), Sound(r, G), r.state \in {StateCandidate, StatePreCandidate}
  PROVE  Replicates(r, StepCandidate(r, m), G)
  <1>1. CASE m.type \in LeaderMsgs
    <2> DEFINE f == BecomeFollower(r, m.Term, m.from)
               s == HandleLeaderMsg(f, m)
    <2>1. m.Term \in Terms /\ m.from \in Server
      BY <1>1, MessageKinds DEF LeaderMsgs
    <2>2. m.Term = r.Term /\ m \in G /\ m.from # r.id
      BY <1>1, <2>1 DEF Current, KeepsTerm, LeaderMsgs, Terms, Sound
    <2>3. r.Term \in Nat
      BY NodeFields
    <2>4. Enters(r, f, G) /\ f \in NodeType /\ f.Term = m.Term
      <3> DEFINE term == m.Term
                 lead == m.from
      <3>1. /\ term \in Terms /\ lead \in Server \cup {None} /\ term >= r.Term
            /\ \E o \in G : o.type \in LeaderMsgs /\ o.to = r.id /\ o.Term = term /\ o.from = lead
        BY <1>1, <2>1, <2>2, <2>3
      <3> HIDE DEF term, lead
      <3>2. /\ Enters(r, BecomeFollower(r, term, lead), G)
            /\ BecomeFollower(r, term, lead) \in NodeType /\ BecomeFollower(r, term, lead).Term = term
        BY <3>1, BecomeFollowerEnters
      <3>3. QED
        BY <3>2 DEF term, lead
    <2>5. f.state = StateFollower
      BY <2>1, BecomeFollowerFields
    <2>6. StepCandidate(r, m) = s
      BY <1>1 DEF StepCandidate, MyVoteRespType, LeaderMsgs
    <2> HIDE DEF f
    <2>7. Heard(f, m) /\ f.id = r.id /\ Sound(f, G)
      BY <1>1, <2>4, EntersSound, Zenon DEF Heard, Enters
    <2>8. Replicates(f, s, G) /\ MemberStep(f, s)
      BY <1>1, <2>2, <2>4, <2>5, <2>7, HandleLeaderMsgReplicates, HandleLeaderMsgStep
    <2> HIDE DEF s
    <2>9. s \in NodeType /\ s.id = f.id /\ s.Term >= f.Term
      BY <2>2, <2>3, <2>4, <2>8 DEF MemberStep, Stays
    <2>10. QED
      BY <2>4, <2>6, <2>8, <2>9, EntersThen, Zenon
  <1>2. CASE m.type \notin LeaderMsgs /\ m.type = MyVoteRespType(r)
    <2>1. m \in VoteRespMessage
      BY <1>2, MessageKinds DEF MyVoteRespType
    <2>2. QED
      BY <1>2, <2>1, VoteRespStepReplicates DEF StepCandidate
  <1>3. CASE m.type \notin LeaderMsgs /\ m.type # MyVoteRespType(r)
    BY <1>3, NothingReplicates DEF StepCandidate
  <1>4. QED
    BY <1>1, <1>2, <1>3

----------------------------------------------------------------------------
(* stepFollower.                                                           *)

\* A message that is forwarded to the leader; send panics on a term.
LEMMA ForwardToLeaderReplicates ==
  ASSUME NEW r \in NodeType, NEW m \in Message, NEW G, m.to = r.id, m \in G \/ m.Term = 0,
         Current(r, m), Sound(r, G), r.state = StateFollower,
         m.type \in {"MsgProp", "MsgReadIndex", "MsgTransferLeader"}
  PROVE  Replicates(r, ForwardToLeader(r, m), G)
  <1> DEFINE f == [m EXCEPT !.to = r.lead]
             x == Stamped(r, f)
             s == Send(r, f)
  <1>1. CASE r.lead = None
    BY <1>1, NothingReplicates DEF ForwardToLeader
  <1>2. CASE r.lead # None
    <2>1. ForwardToLeader(r, m) = s
      BY <1>2 DEF ForwardToLeader
    <2>2. f.type = m.type /\ f.Term = m.Term /\ f.to = r.lead
      <3>1. CASE m.type = "MsgProp"
        BY <3>1, MessageKinds DEF PropMessage
      <3>2. CASE m.type = "MsgReadIndex"
        BY <3>2, MessageKinds DEF ReadIndexMessage
      <3>3. CASE m.type = "MsgTransferLeader"
        BY <3>3, MessageKinds DEF BareMessage
      <3>4. QED
        BY <3>1, <3>2, <3>3
    <2>3. MemberStep(r, s)
      BY <2>1, ForwardToLeaderStep
    <2>4. /\ s.log = r.log /\ s.lead = r.lead /\ s.msgs = r.msgs \cup {x}
          /\ s.panic = (r.panic \/ WrongTerm(f)) /\ r.panic \in BOOLEAN
      <3>1. {Stamped(r, y) : y \in {f}} = {x}
        OBVIOUS
      <3> DEFINE out == r.msgs \cup {x}
                 bad == r.panic \/ WrongTerm(f)
      <3>2. s = [r EXCEPT !.msgs = out, !.panic = bad]
        BY <3>1, Zenon DEF Send, SendAll
      <3> HIDE DEF out, bad, s
      <3>3. s.log = r.log /\ s.lead = r.lead /\ s.msgs = out /\ s.panic = bad /\ r.panic \in BOOLEAN
        BY <3>2 DEF NodeType
      <3>4. QED
        BY <3>3 DEF out, bad
    <2>5. m.type = "MsgTransferLeader" => x.type = "MsgTransferLeader" /\ x.Term = r.Term /\ x.to = r.lead
      <3> SUFFICES ASSUME m.type = "MsgTransferLeader"
                   PROVE  x.type = "MsgTransferLeader" /\ x.Term = r.Term /\ x.to = r.lead
        OBVIOUS
      <3>1. m \in BareMessage
        BY MessageKinds
      <3>2. x = [f EXCEPT !.Term = r.Term]
        BY <2>2, StampedHeader, Zenon
      <3>3. QED
        BY <3>1, <3>2, Zenon DEF BareMessage
    <2>6. m.type # "MsgTransferLeader" => x.type = m.type
      <3> HIDE DEF f
      <3>1. m.type # "MsgTransferLeader" => x = f
        BY <2>2, StampedHeader
      <3> HIDE DEF x
      <3>2. QED
        BY <2>2, <3>1
    <2>7. s.id = r.id /\ s.Term = r.Term /\ s.state = StateFollower
      BY <2>3 DEF MemberStep, Stays
    <2> HIDE DEF x, s
    <2>8. PanicFair(r, s, G)
      <3>1. CASE WrongTerm(f)
        <4>1. m.Term # 0 /\ m.type = "MsgTransferLeader"
          BY <2>2, <3>1, MessageKinds DEF WrongTerm, CampaignMsgs, PropMessage, ReadIndexMessage
        <4>2. m \in G /\ m.Term = r.Term
          BY <4>1 DEF Current, KeepsTerm
        <4>3. QED
          BY <1>2, <2>4, <2>7, <4>1, <4>2, Zenon DEF PanicFair
      <3>2. CASE ~WrongTerm(f)
        BY <2>4, <3>2 DEF PanicFair
      <3>3. QED
        BY <3>1, <3>2
    <2>9. SentFair(r, s, G, x)
      BY <2>4, <2>5, <2>6, <2>7 DEF SentFair, LeaderMsgs, IsAck, Responses, IsGrant
    <2>10. RolesFair(r, s) /\ MatchFair(r, s, G) /\ LeadFair(r, s, G)
      BY <2>4, <2>7 DEF RolesFair, MatchFair, LeadFair, StateFollower, StateLeader, StateCandidate
    <2>11. LogFair(r, s, G)
      BY <2>4, <2>7 DEF LogFair, Kept, StateFollower, StateLeader
    <2>12. QED
      BY <2>1, <2>4, <2>8, <2>9, <2>10, <2>11 DEF Replicates
  <1>3. QED
    BY <1>1, <1>2

\* stepFollower as a whole.
LEMMA StepFollowerReplicates ==
  ASSUME Basis, NEW r \in NodeType, NEW m \in Message, NEW G, m.to = r.id, m \in G \/ m.Term = 0,
         Current(r, m), Sound(r, G), r.state = StateFollower
  PROVE  Replicates(r, StepFollower(r, m), G)
  <1>1. CASE m.type \in LeaderMsgs
    <2> DEFINE f == [r EXCEPT !.lead = m.from]
               s == HandleLeaderMsg(f, m)
    <2>1. m.Term \in Terms /\ m.from \in Server
      BY <1>1, MessageKinds DEF LeaderMsgs
    <2>2. m.Term = r.Term /\ m \in G /\ m.from # r.id
      BY <1>1, <2>1 DEF Current, KeepsTerm, LeaderMsgs, Terms, Sound
    <2>3. r.Term \in Nat
      BY NodeFields
    <2>4. f \in NodeType
      BY <2>1, SetLead DEF Internal, Stays
    <2>5. /\ f.id = r.id /\ f.Term = r.Term /\ f.state = r.state /\ f.log = r.log /\ f.msgs = r.msgs
          /\ f.panic = r.panic /\ f.lead = m.from
      BY DEF NodeType
    <2>6. StepFollower(r, m) = s
      BY <1>1 DEF StepFollower, LeaderMsgs
    <2> HIDE DEF f
    <2>7. Heard(f, m)
      BY <1>1, <2>2, <2>5 DEF Heard
    <2>8. Enters(r, f, G)
      BY <2>2, <2>3, <2>5, <2>7 DEF Enters, LeadFair
    <2>9. Sound(f, G)
      BY <2>8, EntersSound
    <2>10. Replicates(f, s, G) /\ MemberStep(f, s)
      BY <1>1, <2>2, <2>4, <2>5, <2>7, <2>9, HandleLeaderMsgReplicates, HandleLeaderMsgStep
    <2> HIDE DEF s
    <2>11. s \in NodeType /\ s.id = f.id /\ s.Term >= f.Term
      BY <2>3, <2>5, <2>10 DEF MemberStep, Stays
    <2>12. QED
      BY <2>4, <2>6, <2>8, <2>10, <2>11, EntersThen
  <1>2. CASE m.type = "MsgProp"
    <2>1. StepFollower(r, m) = r \/ StepFollower(r, m) = ForwardToLeader(r, m)
      BY <1>2 DEF StepFollower, LeaderMsgs
    <2>2. QED
      BY <1>2, <2>1, ForwardToLeaderReplicates, NothingReplicates
  <1>3. CASE m.type \in {"MsgTransferLeader", "MsgReadIndex"}
    <2>1. StepFollower(r, m) = ForwardToLeader(r, m)
      BY <1>3 DEF StepFollower, LeaderMsgs
    <2>2. QED
      BY <1>3, <2>1, ForwardToLeaderReplicates
  <1>4. CASE m.type = "MsgTimeoutNow"
    <2>1. StepFollower(r, m) = HupTransfer(r)
      BY <1>4 DEF StepFollower, LeaderMsgs
    <2>2. QED
      BY <2>1, HupReplicates
  <1>5. CASE m.type = "MsgReadIndexResp"
    <2> DEFINE rst == r.readStates \cup {[Index |-> m.Index, Ctx |-> m.Context]}
               s == [r EXCEPT !.readStates = rst]
    <2>1. StepFollower(r, m) = s
      BY <1>5 DEF StepFollower, LeaderMsgs
    <2> HIDE DEF rst
    <2>2. /\ s.id = r.id /\ s.Term = r.Term /\ s.state = r.state /\ s.log = r.log /\ s.prs = r.prs
          /\ s.lead = r.lead /\ s.panic = r.panic /\ s.msgs = r.msgs
      BY DEF NodeType
    <2> HIDE DEF s
    <2>3. QED
      BY <2>1, <2>2, NothingReplicates, AfterReplicates
  <1>6. CASE m.type \notin LeaderMsgs \cup {"MsgProp", "MsgTransferLeader", "MsgReadIndex", "MsgTimeoutNow",
                                           "MsgReadIndexResp"}
    <2>1. StepFollower(r, m) = r
      BY <1>6 DEF StepFollower
    <2>2. QED
      BY <2>1, NothingReplicates
  <1>7. QED
    BY <1>1, <1>2, <1>3, <1>4, <1>5, <1>6

----------------------------------------------------------------------------
(* Step, ticks and the other calls.                                        *)

\* A vote is granted to a candidate whose log is up to date.
LEMMA HandleVoteRequestReplicates ==
  ASSUME NEW r \in NodeType, NEW m \in VoteMessage, NEW G, m \in G, Sound(r, G)
  PROVE  /\ Replicates(r, HandleVoteRequest(r, m), G)
         /\ Replicates(r, Send(r, VoteRespMsg(r, m, r.Term, TRUE)), G)
  <1> DEFINE vote == IF m.type = "MsgVote" THEN m.from ELSE r.Vote
             c == [r EXCEPT !.Vote = vote]
  <1>1. m.from \in Server /\ m.Term \in Terms /\ r.Term \in Terms /\ r.Vote \in Server \cup {None}
    BY NodeFields DEF VoteMessage
  <1>2. ASSUME NEW t \in NodeType, NEW term \in Terms, NEW no \in BOOLEAN, Replicates(r, t, G),
               t.id = r.id,
               m.type = "MsgVote" /\ ~no => term = m.Term /\ IsUpToDate(t.log, m.Index, m.LogTerm)
        PROVE  Replicates(r, Send(t, VoteRespMsg(r, m, term, no)), G)
    <2> DEFINE v == VoteRespMsg(r, m, term, no)
    <2>1. /\ v \in VoteRespMessage /\ v.to = m.from /\ v.Term = term /\ v.Reject = no
          /\ v.type = "MsgVoteResp" => m.type = "MsgVote"
      BY VoteRespMsgType
    <2> HIDE DEF v
    <2>2. v.type \in {"MsgVoteResp", "MsgPreVoteResp"} /\ v \in Message
      BY <2>1 DEF VoteRespMessage, Message
    <2>3. Stamped(t, v) = v /\ ~WrongTerm(v)
      BY <1>2, <2>1, <2>2, StampedHeader, Zenon DEF WrongTerm, CampaignMsgs, Terms
    <2>4. SentFair(r, t, G, v)
      BY <1>2, <2>1, <2>2 DEF SentFair, LeaderMsgs, IsAck, Responses, IsGrant
    <2>5. QED
      BY <1>2, <2>2, <2>3, <2>4, SendReplicates, Zenon DEF v
  <1>3. Replicates(r, Send(r, VoteRespMsg(r, m, r.Term, TRUE)), G)
    <2> DEFINE yes == TRUE
               term == r.Term
    <2>1. yes \in BOOLEAN /\ term \in Terms /\ (m.type = "MsgVote" /\ ~yes => FALSE)
      BY <1>1
    <2> HIDE DEF yes, term
    <2>2. Replicates(r, Send(r, VoteRespMsg(r, m, term, yes)), G)
      BY <1>2, <2>1, NothingReplicates
    <2>3. QED
      BY <2>2, ZenonT(30) DEF yes, term
  <1>4. CASE CanVote(r, m) /\ IsUpToDate(r.log, m.Index, m.LogTerm)
    <2>1. HandleVoteRequest(r, m) = Send(c, VoteRespMsg(r, m, m.Term, FALSE))
      BY <1>4 DEF HandleVoteRequest
    <2>2. vote \in Server \cup {None}
      BY <1>1
    <2> HIDE DEF vote
    <2>3. c \in NodeType
      BY <2>2, Zenon DEF NodeType
    <2>4. /\ c.id = r.id /\ c.Term = r.Term /\ c.state = r.state /\ c.log = r.log /\ c.prs = r.prs
          /\ c.lead = r.lead /\ c.panic = r.panic /\ c.msgs = r.msgs
      BY DEF NodeType
    <2> HIDE DEF c
    <2>5. Replicates(r, c, G)
      BY <2>4, NothingReplicates, AfterReplicates
    <2> DEFINE no == FALSE
               term == m.Term
    <2>6. /\ no \in BOOLEAN /\ term \in Terms
          /\ m.type = "MsgVote" /\ ~no => term = m.Term /\ IsUpToDate(c.log, m.Index, m.LogTerm)
      BY <1>1, <1>4, <2>4
    <2> HIDE DEF no, term
    <2>7. Replicates(r, Send(c, VoteRespMsg(r, m, term, no)), G)
      BY <1>2, <2>3, <2>4, <2>5, <2>6
    <2>8. QED
      BY <1>3, <2>1, <2>7, ZenonT(30) DEF no, term
  <1>5. CASE ~(CanVote(r, m) /\ IsUpToDate(r.log, m.Index, m.LogTerm))
    BY <1>3, <1>5, Zenon DEF HandleVoteRequest
  <1>6. QED
    BY <1>3, <1>4, <1>5, Zenon

\* A message of an earlier term is answered, at most.
LEMMA StepLowerTermReplicates ==
  ASSUME NEW r \in NodeType, NEW m \in Message, NEW G, m.to = r.id, m \in G, Sound(r, G)
  PROVE  Replicates(r, StepLowerTerm(r, m), G)
  <1>1. Replicates(r, r, G)
    BY NothingReplicates
  <1>2. m.type \in {"MsgHeartbeat", "MsgApp"} => Replicates(r, Send(r, AppRespMsg(r, m.from, 0)), G)
    <2> SUFFICES ASSUME m.type \in {"MsgHeartbeat", "MsgApp"}
                 PROVE  Replicates(r, Send(r, AppRespMsg(r, m.from, 0)), G)
      OBVIOUS
    <2>1. m.from \in Server /\ m.from # r.id
      BY MessageKinds DEF Sound, LeaderMsgs
    <2>2. 0 \in Nat /\ AckFair(r, r, G, 0)
      BY DEF AckFair
    <2>3. QED
      BY <1>1, <2>1, <2>2, AcceptFair, SendReplicates
  <1>3. m.type = "MsgPreVote" => Replicates(r, Send(r, VoteRespMsg(r, m, r.Term, TRUE)), G)
    BY MessageKinds, HandleVoteRequestReplicates, ZenonT(30)
  <1>4. QED
    BY <1>1, <1>2, <1>3, Zenon DEF StepLowerTerm

\* The step function of the current role, whichever that is.
LEMMA StepRoleReplicates ==
  ASSUME Basis, NEW r \in NodeType, NEW m \in Message, NEW G, m.to = r.id, m \in G \/ m.Term = 0,
         Current(r, m), Sound(r, G)
  PROVE  Replicates(r, StepRole(r, m), G)
  <1>1. CASE m.type \in VoteRequests
    <2>1. m \in VoteMessage /\ m.Term \in Terms
      BY <1>1, MessageKinds DEF VoteRequests
    <2>2. m \in G
      BY <2>1 DEF Terms
    <2>3. QED
      BY <1>1, <2>1, <2>2, HandleVoteRequestReplicates, ZenonT(30) DEF StepRole
  <1>2. CASE m.type \notin VoteRequests /\ r.state = StateLeader
    BY <1>2, StepLeaderReplicates DEF StepRole
  <1>3. CASE m.type \notin VoteRequests /\ r.state = StateFollower
    <2>1. StepRole(r, m) = StepFollower(r, m)
      BY <1>3 DEF StepRole, StateFollower, StateLeader
    <2>2. QED
      BY <1>3, <2>1, StepFollowerReplicates
  <1>4. CASE m.type \notin VoteRequests /\ r.state \notin {StateLeader, StateFollower}
    <2>1. StepRole(r, m) = StepCandidate(r, m)
      BY <1>4 DEF StepRole
    <2>2. r.state \in {StateCandidate, StatePreCandidate}
      BY <1>4, NodeFields
    <2>3. QED
      BY <2>1, <2>2, StepCandidateReplicates
  <1>5. QED
    BY <1>1, <1>2, <1>3, <1>4

\* A crash and a restart from stable storage.
LEMMA RestartReplicates ==
  ASSUME NEW r \in NodeType, NEW G, r.msgs = {}, ~r.panic
  PROVE  Replicates(r, RestartNode(r), G)
  <1> DEFINE id == r.id
             term == r.Term
             vote == r.Vote
             log == r.log
             s == NewRaft(id, term, vote, log, Server)
  <1>1. IDs(Voters(r)) = Server
    BY NodeFields DEF IDs
  <1>2. /\ id \in Server /\ term \in Terms /\ vote \in Server \cup {None} /\ log \in LogType
        /\ r.Term \in Nat /\ r.panic = FALSE
    BY NodeFields, Zenon DEF NodeType
  <1>3. RestartNode(r) = s
    BY <1>1 DEF RestartNode
  <1>4. id = r.id /\ term = r.Term /\ log = r.log
    BY Zenon
  <1> HIDE DEF id, term, vote, log
  <1>5. s.lead = None /\ s.panic = FALSE
    BY DEF NewRaft
  <1>6. s.id = id /\ s.Term = term /\ s.state = StateFollower /\ s.msgs = {} /\ s.log = log
    BY <1>2, NewRaftType
  <1> HIDE DEF s
  <1>7. Enters(r, s, G)
    BY <1>2, <1>4, <1>5, <1>6, ZenonT(30) DEF Enters, LeadFair
  <1>8. QED
    BY <1>3, <1>7, EntersReplicates

\* The application compacts its log.
LEMMA CompactReplicates ==
  ASSUME NEW r \in NodeType, NEW G, NEW i, Sound(r, G)
  PROVE  Replicates(r, [r EXCEPT !.log.offset = i], G)
  <1> DEFINE l == [r.log EXCEPT !.offset = i]
             s == [r EXCEPT !.log = l]
  <1>1. [r EXCEPT !.log.offset = i] = s
    BY DEF NodeType
  <1>2. l.ents = r.log.ents /\ l.committed = r.log.committed /\ LastIndex(l) = LastIndex(r.log)
    BY NodeFields DEF LogType, LastIndex
  <1> HIDE DEF l
  <1>3. /\ s.id = r.id /\ s.Term = r.Term /\ s.state = r.state /\ s.log = l /\ s.prs = r.prs
        /\ s.lead = r.lead /\ s.panic = r.panic /\ s.msgs = r.msgs
    BY DEF NodeType
  <1> HIDE DEF s
  <1>4. RolesFair(r, s)
    BY <1>2, <1>3 DEF RolesFair, Kept
  <1>5. LogFair(r, s, G)
    BY <1>2, <1>3 DEF LogFair, Kept, CommitGrows, LedBefore
  <1>6. MatchFair(r, s, G)
    BY <1>2, <1>3, Zenon DEF MatchFair, LedBefore, Sound, AllWithin
  <1>7. PanicFair(r, s, G) /\ LeadFair(r, s, G)
    BY <1>3 DEF PanicFair, LeadFair
  <1>8. QED
    BY <1>1, <1>3, <1>4, <1>5, <1>6, <1>7 DEF Replicates

\* The reports on a peer.
LEMMA ReportsReplicate ==
  ASSUME NEW r \in NodeType, NEW G, NEW p \in Server, NEW failure \in BOOLEAN, r.state = StateLeader,
         AllWithin(r)
  PROVE  /\ Replicates(r, UnreachableStep(r, p), G)
         /\ Replicates(r, SnapStatusStep(r, p, failure), G)
  <1>1. Speaks(r, UnreachableStep(r, p)) /\ Speaks(r, SnapStatusStep(r, p, failure))
    BY UnreachableStepSpeaks, SnapStatusStepSpeaks
  <1>2. LeaderStep(r, UnreachableStep(r, p)) /\ LeaderStep(r, SnapStatusStep(r, p, failure))
    BY UnreachableStepStep, SnapStatusStepStep
  <1>3. QED
    BY <1>1, <1>2, SpeaksWork, WorkReplicates

\* Step, whatever the message and the role: logs change at their leader or by
\* its messages, and whatever is sent is true of the log it is sent from.
THEOREM StepReplicates ==
  ASSUME Basis, NEW r \in NodeType, NEW m \in Message, NEW G, NEW recent, m.to = r.id,
         m \in G \/ m.Term = 0, Sound(r, G), OwnVote(r)
  PROVE  Replicates(r, Step(r, m, recent), G)
  <1>1. m.Term \in Nat /\ r.Term \in Nat /\ r.Term > 0 /\ m.from \in Server
    BY MessageKinds, NodeFields
  <1>2. Replicates(r, r, G)
    BY NothingReplicates
  <1>3. m.Term # 0 => Replicates(r, StepLowerTerm(r, m), G)
    BY StepLowerTermReplicates
  <1>4. ASSUME ~(m.Term # 0 /\ m.Term < r.Term)
        PROVE  Replicates(r, StepRole(AdoptTerm(r, m), m), G)
    <2>1. CASE m.Term > r.Term /\ ~KeepsTerm(m)
      <3> DEFINE lead == IF m.type \in LeaderMsgs THEN m.from ELSE None
                 term == m.Term
                 f == BecomeFollower(r, term, lead)
                 s == StepRole(f, m)
      <3>1. AdoptTerm(r, m) = f
        BY <2>1 DEF AdoptTerm
      <3>2. term \in Terms /\ term >= r.Term /\ m \in G
        BY <1>1, <2>1 DEF Terms
      <3>3. lead \in Server \cup {None}
        BY <1>1, Zenon
      <3>4. lead = None \/ \E o \in G : o.type \in LeaderMsgs /\ o.to = r.id /\ o.Term = term /\ o.from = lead
        BY <3>2
      <3> HIDE DEF lead
      <3>5. term = m.Term
        OBVIOUS
      <3> HIDE DEF term
      <3>6. Enters(r, f, G) /\ f \in NodeType /\ f.Term = term
        BY <3>2, <3>3, <3>4, BecomeFollowerEnters, Zenon
      <3>7. f.state = StateFollower /\ f.id = r.id
        BY <3>2, <3>3, BecomeFollowerFields
      <3> HIDE DEF f
      <3>8. OwnVote(f) /\ Current(f, m) /\ Sound(f, G)
        BY <3>5, <3>6, <3>7, EntersSound, Zenon DEF OwnVote, Current, StateFollower, StateCandidate
      <3>9. Replicates(f, s, G) /\ CallOK(f, s, G)
        BY <3>2, <3>6, <3>7, <3>8, StepRoleReplicates, StepRoleCall
      <3> HIDE DEF s
      <3>10. QED
        BY <3>1, <3>6, <3>9, EntersThen, Zenon DEF CallOK, VoteKept, s
    <2>2. CASE ~(m.Term > r.Term /\ ~KeepsTerm(m))
      <3>1. AdoptTerm(r, m) = r
        BY <2>2 DEF AdoptTerm
      <3>2. Current(r, m)
        BY <1>1, <1>4, <2>2 DEF Current
      <3>3. QED
        BY <3>1, <3>2, StepRoleReplicates, Zenon
    <2>3. QED
      BY <2>1, <2>2, Zenon
  <1>5. QED
    BY <1>2, <1>3, <1>4 DEF Step

\* tickElection.
LEMMA TickElectionReplicates ==
  ASSUME Basis, NEW r \in NodeType, NEW G, Sound(r, G)
  PROVE  Replicates(r, TickElection(r), G)
  BY HupReplicates DEF TickElection

----------------------------------------------------------------------------
(* Every step of the cluster is a call that keeps to its contract.         *)

\* The index a read has to see is a commit index of some node.
LEMMA IssuedType ==
  ASSUME Basis, Prepared
  PROVE  (CHOOSE i \in {rs[p].log.committed : p \in Server} :
            \A p \in Server : rs[p].log.committed =< i) \in Nat
  <1> DEFINE f == [p \in Server |-> rs[p].log.committed]
             V == {rs[p].log.committed : p \in Server}
  <1>1. \A p \in Server : rs[p].log.committed \in Nat
    BY NodeFields, LogFields DEF Prepared
  <1>2. f \in [Server -> Nat]
    BY <1>1
  <1>3. PICK p \in Server : \A q \in Server : f[q] =< f[p]
    BY <1>2, Zenon DEF Basis
  <1>4. \E v \in V : \A q \in Server : rs[q].log.committed =< v
    BY <1>3
  <1>5. (CHOOSE i \in V : \A q \in Server : rs[q].log.committed =< i) \in V
    BY <1>4
  <1>6. QED
    BY <1>1, <1>5, Zenon

\* The compaction of a log is a call.
LEMMA CompactCall ==
  ASSUME NEW r \in NodeType, NEW G, NEW i \in 1..r.log.committed, OwnVote(r), r.msgs = {}
  PROVE  CallOK(r, [r EXCEPT !.log.offset = i], G)
  <1> DEFINE log == [r.log EXCEPT !.offset = i]
             s == [r EXCEPT !.log = log]
  <1>1. r.log \in LogType /\ r.log.committed \in Nat
    BY NodeFields, LogFields
  <1>2. i \in Nat /\ i =< r.log.committed
    BY <1>1
  <1>3. log \in LogType
    BY <1>1, <1>2 DEF LogType
  <1>4. [r EXCEPT !.log.offset = i] = s
    OBVIOUS
  <1> HIDE DEF log
  <1>5. MemberStep(r, s)
    BY <1>3, SetLog, LocalStep, Zenon
  <1> HIDE DEF s
  <1>6. CallOK(r, s, G)
    BY <1>5, MemberCall
  <1>7. QED
    BY <1>4, <1>6

\* An action that is one call.
LEMMA DoCalls ==
  ASSUME Prepared, NEW n \in Server, NEW s, Do(n, s),
         CallOK(rs[n], s, msgs), Replicates(rs[n], s, msgs)
  PROVE  Calls(n, s)
  BY Zenon DEF Do, Call, Calls, Prepared

\* A message, from the application or from the network, late or duplicated.
LEMMA StepCalls ==
  ASSUME Basis, Prepared, NEW n \in Server, NEW m \in Message, NEW recent \in BOOLEAN, m.to = n,
         \/ m \in msgs
         \/ m.Term = 0 /\ m.type \notin {"MsgVoteResp", "MsgPreVoteResp"},
         Ready(n, Step(rs[n], m, recent)), issued' \in [ReadCtx -> Nat \cup {-1}]
  PROVE  \E s : Calls(n, s)
  <1>1. /\ rs[n] \in NodeType /\ rs[n].id = n /\ OwnVote(rs[n]) /\ rs[n].msgs = {}
        /\ Sound(rs[n], msgs)
    BY Zenon DEF Prepared
  <1>2. m.to = rs[n].id
    BY <1>1
  <1>3. CallOK(rs[n], Step(rs[n], m, recent), msgs)
    BY <1>1, <1>2, StepCall, ZenonT(30)
  <1>4. Replicates(rs[n], Step(rs[n], m, recent), msgs)
    BY <1>1, <1>2, StepReplicates, ZenonT(30)
  <1>5. Calls(n, Step(rs[n], m, recent))
    BY <1>3, <1>4, Zenon DEF Call, Calls
  <1>6. QED
    BY <1>5, Zenon

\* Every action of the cluster is a call of one node.
LEMMA NextCalls ==
  ASSUME Basis, Prepared, Next
  PROVE  \E n \in Server : \E s : Calls(n, s)
  <1>1. ASSUME NEW n \in Server
        PROVE  /\ rs[n] \in NodeType /\ OwnVote(rs[n]) /\ rs[n].msgs = {} /\ ~rs[n].panic
               /\ Sound(rs[n], msgs) /\ (rs[n].state = StateLeader => AllWithin(rs[n]))
    BY <1>1, Zenon DEF Prepared, Sound
  <1>2. ASSUME NEW n \in Server, ElectionTimeout(n)
        PROVE  Calls(n, TickElection(rs[n]))
    BY <1>1, <1>2, TickElectionCall, TickElectionReplicates, DoCalls, Zenon DEF ElectionTimeout
  <1>3. ASSUME NEW n \in Server, NEW e \in BOOLEAN, NEW h \in BOOLEAN, LeaderTick(n, e, h)
        PROVE  Calls(n, TickHeartbeat(rs[n], e, h))
    <2>1. Do(n, TickHeartbeat(rs[n], e, h)) /\ rs[n].state = StateLeader
      BY <1>3, Zenon DEF LeaderTick
    <2>2. QED
      BY <1>1, <2>1, TickHeartbeatCall, TickHeartbeatReplicates, DoCalls
  <1>4. ASSUME NEW n \in Server, NEW p \in Server, ReportUnreachable(n, p)
        PROVE  Calls(n, UnreachableStep(rs[n], p))
    <2>1. Do(n, UnreachableStep(rs[n], p)) /\ rs[n].state = StateLeader
      BY <1>4, Zenon DEF ReportUnreachable
    <2>2. CallOK(rs[n], UnreachableStep(rs[n], p), msgs)
      BY <1>1, <2>1, UnreachableStepStep, LeaderCall
    <2>3. Replicates(rs[n], UnreachableStep(rs[n], p), msgs)
      BY <1>1, <2>1, ReportsReplicate, ZenonT(30)
    <2>4. QED
      BY <2>1, <2>2, <2>3, DoCalls
  <1>5. ASSUME NEW n \in Server, NEW p \in Server, NEW f \in BOOLEAN, ReportSnapshot(n, p, f)
        PROVE  Calls(n, SnapStatusStep(rs[n], p, f))
    <2>1. Do(n, SnapStatusStep(rs[n], p, f)) /\ rs[n].state = StateLeader
      BY <1>5, Zenon DEF ReportSnapshot
    <2>2. CallOK(rs[n], SnapStatusStep(rs[n], p, f), msgs)
      BY <1>1, <2>1, SnapStatusStepStep, LeaderCall
    <2>3. Replicates(rs[n], SnapStatusStep(rs[n], p, f), msgs)
      BY <1>1, <2>1, ReportsReplicate, Zenon
    <2>4. QED
      BY <2>1, <2>2, <2>3, DoCalls
  <1>6. ASSUME NEW n \in Server, Restart(n)
        PROVE  Calls(n, RestartNode(rs[n]))
    BY <1>1, <1>6, RestartCall, RestartReplicates, DoCalls DEF Restart
  <1>7. ASSUME NEW n \in Server, NEW i \in 1..rs[n].log.committed, Compact(n, i)
        PROVE  Calls(n, [rs[n] EXCEPT !.log.offset = i])
    <2>1. Do(n, [rs[n] EXCEPT !.log.offset = i])
      BY <1>7 DEF Compact
    <2>2. CallOK(rs[n], [rs[n] EXCEPT !.log.offset = i], msgs)
      BY <1>1, CompactCall
    <2>3. Replicates(rs[n], [rs[n] EXCEPT !.log.offset = i], msgs)
      BY <1>1, CompactReplicates
    <2>4. QED
      BY <2>1, <2>2, <2>3, DoCalls, Zenon
  <1>8. ASSUME NEW n \in Server, NEW v \in Value, Propose(n, v)
        PROVE  \E s : Calls(n, s)
    <2> DEFINE m == [type |-> "MsgProp", from |-> n, to |-> n, Term |-> 0, Data |-> v]
    <2>1. m \in PropMessage /\ m.to = n /\ m.type = "MsgProp" /\ m.Term = 0
      BY DEF PropMessage
    <2>2. Ready(n, Step(rs[n], m, FALSE)) /\ issued' = issued
      BY <1>8, Zenon DEF Propose, Local, Do
    <2> HIDE DEF m
    <2>3. m \in Message /\ m.type \notin {"MsgVoteResp", "MsgPreVoteResp"}
      BY <2>1 DEF Message
    <2>4. QED
      BY <2>1, <2>2, <2>3, StepCalls, Zenon DEF Prepared
  <1>9. ASSUME NEW n \in Server, NEW c \in ReadCtx, ReadIndex(n, c)
        PROVE  \E s : Calls(n, s)
    <2> DEFINE m == [type |-> "MsgReadIndex", from |-> n, to |-> n, Term |-> 0, Context |-> c]
               i == CHOOSE i \in {rs[p].log.committed : p \in Server} :
                      \A p \in Server : rs[p].log.committed =< i
    <2>1. m \in ReadIndexMessage /\ m.to = n /\ m.type = "MsgReadIndex" /\ m.Term = 0
      BY DEF ReadIndexMessage
    <2>2. Ready(n, Step(rs[n], m, FALSE)) /\ issued' = [issued EXCEPT ![c] = i]
      BY <1>9, Zenon DEF ReadIndex
    <2>3. i \in Nat
      BY IssuedType
    <2> HIDE DEF m, i
    <2>4. m \in Message /\ m.type \notin {"MsgVoteResp", "MsgPreVoteResp"}
      BY <2>1 DEF Message
    <2>5. issued' \in [ReadCtx -> Nat \cup {-1}]
      BY <2>2, <2>3 DEF Prepared
    <2>6. QED
      BY <2>1, <2>2, <2>4, <2>5, StepCalls, Zenon
  <1>10. ASSUME NEW n \in Server, NEW p \in Server, TransferLeadership(n, p)
         PROVE  \E s : Calls(n, s)
    <2> DEFINE m == [type |-> "MsgTransferLeader", from |-> p, to |-> n, Term |-> 0]
    <2>1. m \in BareMessage /\ m.to = n /\ m.type = "MsgTransferLeader" /\ m.Term = 0
      BY DEF BareMessage
    <2>2. Ready(n, Step(rs[n], m, FALSE)) /\ issued' = issued
      BY <1>10, Zenon DEF TransferLeadership, Local, Do
    <2> HIDE DEF m
    <2>3. m \in Message /\ m.type \notin {"MsgVoteResp", "MsgPreVoteResp"}
      BY <2>1 DEF Message
    <2>4. QED
      BY <2>1, <2>2, <2>3, StepCalls, Zenon DEF Prepared
  <1>11. ASSUME NEW m \in msgs, NEW types, Receive(m, types)
         PROVE  \E n \in Server : \E s : Calls(n, s)
    <2>1. m \in Message /\ m.to \in Server
      BY MessageKinds DEF Prepared
    <2>2. PICK recent \in BOOLEAN : Do(m.to, Step(rs[m.to], m, recent))
      BY <1>11 DEF Receive
    <2>3. Ready(m.to, Step(rs[m.to], m, recent)) /\ issued' = issued
      BY <2>2, Zenon DEF Do
    <2>4. QED
      BY <2>1, <2>3, StepCalls, ZenonT(30) DEF Prepared
  <1>12. ASSUME NEW m \in msgs,
                \/ ReceiveVoteRequest(m) \/ ReceiveVoteResponse(m)
                \/ ReceiveApp(m) \/ ReceiveAppResp(m)
                \/ ReceiveHeartbeat(m) \/ ReceiveHeartbeatResp(m)
                \/ ReceiveSnap(m)
                \/ ReceiveTransferLeader(m) \/ ReceiveTimeoutNow(m)
                \/ ReceiveProp(m)
                \/ ReceiveReadIndex(m) \/ ReceiveReadIndexResp(m)
         PROVE  \E types : Receive(m, types)
    BY <1>12 DEF ReceiveVoteRequest, ReceiveVoteResponse, ReceiveApp, ReceiveAppResp,
                 ReceiveHeartbeat, ReceiveHeartbeatResp, ReceiveSnap, ReceiveTransferLeader,
                 ReceiveTimeoutNow, ReceiveProp, ReceiveReadIndex, ReceiveReadIndexResp
  <1>13. QED
    BY <1>2, <1>3, <1>4, <1>5, <1>6, <1>7, <1>8, <1>9, <1>10, <1>11, <1>12, ZenonT(60) DEF Next

=============================================================================
