------------------------------ MODULE RaftNode ------------------------------
(***************************************************************************)
(* One raft instance (raft.go): every method that changes it is an operator*)
(* from the state before the call to the state after it.  r.msgs and       *)
(* r.readStates are what the instance hands out with its next Ready.       *)
(* r.panic becomes TRUE where the code panics; the node then stops.        *)
(***************************************************************************)
EXTENDS Progress, RaftLog

CONSTANTS
  Server,                 \* node identifiers
  None,                   \* the identifier of no node
  ReadCtx,                \* contexts of read requests
  NoCtx,                  \* the empty context
  PreVote,                \* Config.PreVote
  CheckQuorum,            \* Config.CheckQuorum
  DisableProposalForwarding

ASSUME ServerAssumption == IsFiniteSet(Server) /\ Server # {} /\ None \notin Server
ASSUME CtxAssumption == NoCtx \notin ReadCtx
ASSUME ConfigAssumption == {PreVote, CheckQuorum, DisableProposalForwarding} \subseteq BOOLEAN

StateFollower == "StateFollower"
StateCandidate == "StateCandidate"
StateLeader == "StateLeader"
StatePreCandidate == "StatePreCandidate"

Voters(r) == r.cfg.Voters
IsLearner(r, id) == id \in r.cfg.Learners
Peers(r) == DOMAIN r.prs \ {r.id}

----------------------------------------------------------------------------
(* The kinds of message, and the state of an instance.  The membership is  *)
(* fixed: every server is a voter.                                         *)

Terms == Nat \ {0}

VoteMessage ==
  [type : {"MsgVote", "MsgPreVote"}, from : Server, to : Server, Term : Terms,
   Index : Nat, LogTerm : Nat, Transfer : BOOLEAN]
VoteRespMessage ==
  [type : {"MsgVoteResp", "MsgPreVoteResp"}, from : Server, to : Server, Term : Terms,
   Reject : BOOLEAN]
AppMessage ==
  [type : {"MsgApp"}, from : Server, to : Server, Term : Terms,
   Index : Nat, LogTerm : Nat, Entries : Seq(Entry), Commit : Nat]
AppRespMessage ==
  [type : {"MsgAppResp"}, from : Server, to : Server, Term : Terms,
   Index : Nat, Reject : BOOLEAN, RejectHint : Nat, LogTerm : Nat]
HeartbeatMessage ==
  [type : {"MsgHeartbeat"}, from : Server, to : Server, Term : Terms,
   Commit : Nat, Context : ReadCtx \cup {NoCtx}]
HeartbeatRespMessage ==
  [type : {"MsgHeartbeatResp"}, from : Server, to : Server, Term : Terms,
   Context : ReadCtx \cup {NoCtx}]
SnapMessage ==
  [type : {"MsgSnap"}, from : Server, to : Server, Term : Terms,
   Snapshot : Seq(Entry)]
BareMessage ==
  [type : {"MsgTransferLeader", "MsgTimeoutNow"}, from : Server, to : Server, Term : Nat]
PropMessage ==
  [type : {"MsgProp"}, from : Server, to : Server, Term : {0},
   Data : Value]
ReadIndexMessage ==
  [type : {"MsgReadIndex"}, from : Server, to : Server, Term : {0},
   Context : ReadCtx]
ReadIndexRespMessage ==
  [type : {"MsgReadIndexResp"}, from : Server, to : Server, Term : Terms,
   Index : Nat, Context : ReadCtx]

Message ==
  VoteMessage \cup VoteRespMessage \cup AppMessage \cup AppRespMessage \cup
  HeartbeatMessage \cup HeartbeatRespMessage \cup SnapMessage \cup BareMessage \cup
  PropMessage \cup ReadIndexMessage \cup ReadIndexRespMessage

ReadRequest ==
  [Ctx : ReadCtx, From : Server, Index : Nat, acks : SUBSET Server, pos : Nat]

NodeType ==
  [id : Server, Term : Terms, Vote : Server \cup {None},
   state : {StateFollower, StateCandidate, StateLeader, StatePreCandidate},
   lead : Server \cup {None}, granted : SUBSET Server, rejected : SUBSET Server,
   log : LogType, cfg : {[Voters |-> <<Server, {}>>, Learners |-> {}]},
   prs : [Server -> ProgressType], leadTransferee : Server \cup {None},
   readOnly : SUBSET ReadRequest, pendingReads : Seq([Ctx : ReadCtx, From : Server]),
   msgs : SUBSET Message, readStates : SUBSET [Index : Nat, Ctx : ReadCtx],
   panic : BOOLEAN]

----------------------------------------------------------------------------
(* Sending.  A message is built with term 0, as in the code, except for    *)
(* the four kinds of campaign message, which carry their own term.         *)

CampaignMsgs == {"MsgVote", "MsgVoteResp", "MsgPreVote", "MsgPreVoteResp"}

\* The two panics of send.
WrongTerm(m) == (m.type \in CampaignMsgs) = (m.Term = 0)

Stamped(r, m) ==
  IF m.type \in CampaignMsgs \cup {"MsgProp", "MsgReadIndex"} THEN m
  ELSE [m EXCEPT !.Term = r.Term]

SendAll(r, ms) ==
  [r EXCEPT !.msgs = @ \cup {Stamped(r, m) : m \in ms},
            !.panic = @ \/ \E m \in ms : WrongTerm(m)]

Send(r, m) == SendAll(r, {m})

Panicked(r) == [r EXCEPT !.panic = TRUE]

----------------------------------------------------------------------------
(* Sending entries.  Snapshot(l) is what the storage hands out: the state  *)
(* at the compaction point.                                                *)

Snapshot(l) == SubSeq(l.ents, 1, l.offset)

AppMsg(r, to, index, ents) ==
  [type |-> "MsgApp", from |-> r.id, to |-> to, Term |-> 0, Index |-> index,
   LogTerm |-> TermAt(r.log, index), Entries |-> ents, Commit |-> r.log.committed]

SnapMsg(r, to) ==
  [type |-> "MsgSnap", from |-> r.id, to |-> to, Term |-> 0,
   Snapshot |-> Snapshot(r.log)]

\* Whether term(Next - 1) or entries(Next) fails, so that a snapshot is due.
NeedsSnapshot(r, pr) == Compacted(r.log, pr.Next)

EntriesFor(r, pr) == IF NeedsSnapshot(r, pr) THEN <<>> ELSE Entries(r.log, pr.Next)

\* Whether maybeSendAppend returns true.
Sends(r, to, sendIfEmpty) ==
  LET pr == r.prs[to]
  IN  /\ ~IsPaused(pr)
      /\ sendIfEmpty \/ EntriesFor(r, pr) # <<>>
      /\ NeedsSnapshot(r, pr) => pr.RecentActive

AppendOrSnapshot(r, to) ==
  LET pr == r.prs[to]
  IN  IF NeedsSnapshot(r, pr) THEN SnapMsg(r, to)
      ELSE AppMsg(r, to, pr.Next - 1, EntriesFor(r, pr))

\* The peer's progress once that message is on its way.
AfterSending(r, to) ==
  LET pr == r.prs[to]
      ents == EntriesFor(r, pr)
      last == pr.Next + Len(ents) - 1
  IN  IF NeedsSnapshot(r, pr) THEN BecomeSnapshot(pr, r.log.offset)
      ELSE IF ents = <<>> THEN pr
      ELSE IF pr.State = StateReplicate
           THEN [OptimisticUpdate(pr, last) EXCEPT !.Inflights = Add(@, last)]
      ELSE [pr EXCEPT !.ProbeSent = TRUE]

SentProgress(r, going) ==
  [p \in DOMAIN r.prs |-> IF p \in going THEN AfterSending(r, p) ELSE r.prs[p]]

\* sendAppend to each member of a set.
SendAppends(r, tos, sendIfEmpty) ==
  LET going == {to \in tos : Sends(r, to, sendIfEmpty)}
  IN  [SendAll(r, {AppendOrSnapshot(r, to) : to \in going}) EXCEPT !.prs = SentProgress(r, going)]

SendAppend(r, to) == SendAppends(r, {to}, TRUE)

BcastAppend(r) == SendAppends(r, Peers(r), TRUE)

\* for r.maybeSendAppend(to, false) {}: messages of MaxSizePerMsg entries
\* until the window is full or the log is at its end.
DrainAppends(r, to) ==
  LET pr == r.prs[to]
      left == LastIndex(r.log) + 1 - pr.Next
      batches == (left + MaxSizePerMsg - 1) \div MaxSizePerMsg
      k == MinOf(MaxInflightMsgs - Len(pr.Inflights), batches)
      prev(b) == pr.Next - 1 + (b - 1) * MaxSizePerMsg
      last(b) == MinOf(prev(b) + MaxSizePerMsg, LastIndex(r.log))
  IN  IF pr.State # StateReplicate \/ NeedsSnapshot(r, pr) \/ k =< 0 THEN r
      ELSE [SendAll(r, {AppMsg(r, to, prev(b), Entries(r.log, prev(b) + 1)) : b \in 1..k})
              EXCEPT !.prs[to] = [OptimisticUpdate(pr, last(k)) EXCEPT
                 !.Inflights = @ \o [b \in 1..k |-> last(b)]]]

----------------------------------------------------------------------------
(* Heartbeats, which confirm pending reads and spread the commit index.    *)

HeartbeatMsg(r, to, ctx) ==
  [type |-> "MsgHeartbeat", from |-> r.id, to |-> to, Term |-> 0,
   Commit |-> MinOf(r.prs[to].Match, r.log.committed), Context |-> ctx]

BcastHeartbeatWithCtx(r, ctxs) ==
  SendAll(r, {HeartbeatMsg(r, to, c) : to \in Peers(r), c \in ctxs})

\* The read requests form a queue: pos is the place of a request in it.
IsLastRead(r, q) == \A o \in r.readOnly : o.pos =< q.pos

LastPendingRequestCtx(r) ==
  IF \E q \in r.readOnly : IsLastRead(r, q)
  THEN (CHOOSE q \in r.readOnly : IsLastRead(r, q)).Ctx
  ELSE NoCtx

\* The last place taken in the queue.
LastReadPos(r) ==
  IF \E q \in r.readOnly : IsLastRead(r, q)
  THEN (CHOOSE q \in r.readOnly : IsLastRead(r, q)).pos
  ELSE 0

BcastHeartbeat(r) == BcastHeartbeatWithCtx(r, {LastPendingRequestCtx(r)})

----------------------------------------------------------------------------
(* Read requests (read_only.go and raft.go).                               *)

\* Mutant: a new leader serves reads before it has committed an entry.
AnyCommittedEntry(r) == TRUE

CommittedEntryInCurrentTerm(r) == TermAt(r.log, r.log.committed) = r.Term

\* responseToReadIndexReq for a set of requests: answer here or at the peer
\* that forwarded the request.
RespondToReads(r, reqs) ==
  SendAll([r EXCEPT !.readStates = @ \cup {[Index |-> q.Index, Ctx |-> q.Ctx] :
                                           q \in {o \in reqs : o.From = r.id}}],
          {[type |-> "MsgReadIndexResp", from |-> r.id, to |-> q.From, Term |-> 0,
            Index |-> q.Index, Context |-> q.Ctx] : q \in {o \in reqs : o.From # r.id}})

\* sendMsgReadIndexResponse for a sequence of requests: addRequest queues the
\* ones whose context is not pending yet, acknowledged by this node.
SendMsgReadIndexResponse(r, reqs) ==
  LET ctxAt(i) == reqs[i].Ctx
      pending == {q.Ctx : q \in r.readOnly}
      new == {i \in DOMAIN reqs : /\ ctxAt(i) \notin pending
                                  /\ \A j \in 1..(i - 1) : ctxAt(j) # ctxAt(i)}
      added == {[Ctx |-> ctxAt(i), From |-> reqs[i].From, Index |-> r.log.committed,
                 acks |-> {r.id}, pos |-> LastReadPos(r) + i] : i \in new}
  IN  BcastHeartbeatWithCtx([r EXCEPT !.readOnly = @ \cup added],
                            {ctxAt(i) : i \in DOMAIN reqs})

\* Called once the commit index has moved in the current term.
ReleasePendingReadIndexMessages(r) ==
  IF ~CommittedEntryInCurrentTerm(r) THEN r
  ELSE SendMsgReadIndexResponse([r EXCEPT !.pendingReads = <<>>], r.pendingReads)

\* recvAck, and advance once a quorum has acknowledged the context: the
\* requests queued up to it are answered, in a lump.
AckRead(r, from, ctx) ==
  LET acked == {IF q.Ctx = ctx THEN [q EXCEPT !.acks = @ \cup {from}] ELSE q : q \in r.readOnly}
      won == {q \in acked : q.Ctx = ctx /\ VoteResult(Voters(r), q.acks, {}) = VoteWon}
      served == {q \in acked : \E w \in won : q.pos =< w.pos}
  IN  RespondToReads([r EXCEPT !.readOnly = acked \ served], served)

----------------------------------------------------------------------------
(* Changes of role.                                                        *)

NewProgress(next) ==
  [Match |-> 0, Next |-> next, State |-> StateProbe, PendingSnapshot |-> 0,
   RecentActive |-> FALSE, ProbeSent |-> FALSE, Inflights |-> <<>>]

AbortLeaderTransfer(r) == [r EXCEPT !.leadTransferee = None]

ResetProgress(r) ==
  [p \in DOMAIN r.prs |->
     [NewProgress(LastIndex(r.log) + 1) EXCEPT !.Match = IF p = r.id THEN LastIndex(r.log) ELSE 0]]

\* The requests in pendingReads and readStates survive a reset.
Reset(r, term) ==
  [r EXCEPT !.Term = term,
            !.Vote = IF r.Term # term THEN None ELSE @,
            !.lead = None,
            !.leadTransferee = None,
            !.granted = {},
            !.rejected = {},
            !.prs = ResetProgress(r),
            !.readOnly = {}]

BecomeFollower(r, term, lead) ==
  [Reset(r, term) EXCEPT !.lead = lead, !.state = StateFollower]

BecomeCandidate(r) ==
  [Reset(r, r.Term + 1) EXCEPT !.Vote = r.id, !.state = StateCandidate]

BecomePreCandidate(r) ==
  [r EXCEPT !.granted = {}, !.rejected = {}, !.lead = None, !.state = StatePreCandidate]

MatchIndexes(r) == [p \in DOMAIN r.prs |-> r.prs[p].Match]

\* Whether maybeCommit returns true, and the state it leaves.
CanCommit(r) == Commits(r.log, CommittedIndex(Voters(r), MatchIndexes(r)), r.Term)

MaybeCommit(r) ==
  [r EXCEPT !.log = LogMaybeCommit(@, CommittedIndex(Voters(r), MatchIndexes(r)), r.Term)]

AppendEntry(r, data) ==
  LET li == LastIndex(r.log)
  IN  MaybeCommit([r EXCEPT
        !.log = LogAppend(@, li, <<[Term |-> r.Term, Data |-> data]>>),
        !.prs[r.id] = MaybeUpdate(@, li + 1)])

BecomeLeader(r) ==
  AppendEntry([Reset(r, r.Term) EXCEPT !.lead = r.id, !.state = StateLeader,
                                       !.prs[r.id] = BecomeReplicate(@)], NilData)

----------------------------------------------------------------------------
(* Campaigns.                                                              *)

\* Mutant: a rejection counts as a vote.
RecordAnyAnswer(r, id, v) == [r EXCEPT !.granted = @ \cup {id}]

\* RecordVote keeps the first answer of each voter.
RecordVote(r, id, v) ==
  IF id \in r.granted \cup r.rejected THEN r
  ELSE IF v THEN [r EXCEPT !.granted = @ \cup {id}]
  ELSE [r EXCEPT !.rejected = @ \cup {id}]

TallyVotes(r) == VoteResult(Voters(r), r.granted, r.rejected)

VoteMsg(r, type, to, term, transfer) ==
  [type |-> type, from |-> r.id, to |-> to, Term |-> term, Index |-> LastIndex(r.log),
   LogTerm |-> LastTerm(r.log), Transfer |-> transfer]

RequestVotes(r, type, term, transfer) ==
  SendAll(r, {VoteMsg(r, type, to, term, transfer) : to \in IDs(Voters(r)) \ {r.id}})

\* campaign(campaignElection), campaign(campaignTransfer)
CampaignElection(r, transfer) ==
  LET c == RecordVote(BecomeCandidate(r), r.id, TRUE)
  IN  IF TallyVotes(c) = VoteWon THEN BecomeLeader(c)
      ELSE RequestVotes(c, "MsgVote", c.Term, transfer)

\* campaign(campaignPreElection)
CampaignPreElection(r) ==
  LET c == RecordVote(BecomePreCandidate(r), r.id, TRUE)
  IN  IF TallyVotes(c) = VoteWon THEN CampaignElection(c, FALSE)
      ELSE RequestVotes(c, "MsgPreVote", c.Term + 1, FALSE)

Promotable(r) == r.id \in DOMAIN r.prs /\ ~IsLearner(r, r.id)

CanHup(r) == r.state # StateLeader /\ Promotable(r)

\* MsgHup
Hup(r) ==
  IF ~CanHup(r) THEN r
  ELSE IF PreVote THEN CampaignPreElection(r)
  ELSE CampaignElection(r, FALSE)

HupTransfer(r) == IF ~CanHup(r) THEN r ELSE CampaignElection(r, TRUE)

----------------------------------------------------------------------------
(* The messages of a leader, at a follower.                                *)

AppRespMsg(r, to, index) ==
  [type |-> "MsgAppResp", from |-> r.id, to |-> to, Term |-> 0, Index |-> index,
   Reject |-> FALSE, RejectHint |-> 0, LogTerm |-> 0]

RejectMsg(r, m) ==
  LET hint == FindConflictByTerm(r.log, MinOf(m.Index, LastIndex(r.log)), m.LogTerm)
  IN  [AppRespMsg(r, m.from, m.Index) EXCEPT
         !.Reject = TRUE, !.RejectHint = hint, !.LogTerm = TermAt(r.log, hint)]

\* Mutant: the entry before the new ones is not compared.
HandleUncheckedEntries(r, m) ==
  IF m.Index < r.log.committed THEN Send(r, AppRespMsg(r, m.from, r.log.committed))
  ELSE IF AppendPanics(r.log, m.Index, m.Entries) THEN Panicked(r)
  ELSE Send([r EXCEPT !.log = MaybeAppend(@, m.Index, m.Commit, m.Entries)],
            AppRespMsg(r, m.from, m.Index + Len(m.Entries)))

HandleAppendEntries(r, m) ==
  IF m.Index < r.log.committed THEN Send(r, AppRespMsg(r, m.from, r.log.committed))
  ELSE IF ~MatchTerm(r.log, m.Index, m.LogTerm) THEN Send(r, RejectMsg(r, m))
  ELSE IF AppendPanics(r.log, m.Index, m.Entries) THEN Panicked(r)
  ELSE Send([r EXCEPT !.log = MaybeAppend(@, m.Index, m.Commit, m.Entries)],
            AppRespMsg(r, m.from, m.Index + Len(m.Entries)))

\* No answer to a heartbeat whose commit index is beyond the log.
HandleHeartbeat(r, m) ==
  IF ~CanCommitTo(r.log, m.Commit) THEN r
  ELSE Send([r EXCEPT !.log = CommitTo(@, m.Commit)],
            [type |-> "MsgHeartbeatResp", from |-> r.id, to |-> m.from, Term |-> 0,
             Context |-> m.Context])

\* Mutant: a snapshot behind the commit index is restored.
RestoresOldSnapshot(r, snapshot) ==
  ~MatchTerm(r.log, Len(snapshot), snapshot[Len(snapshot)].Term)

\* Whether restore puts the snapshot in place of the log.
Restores(r, snapshot) ==
  /\ Len(snapshot) > r.log.committed
  /\ ~MatchTerm(r.log, Len(snapshot), snapshot[Len(snapshot)].Term)

\* The progress of confchange.Restore, then the one of this node updated.
RestoredProgress(r, last) ==
  [p \in DOMAIN r.prs |->
     LET pr == [NewProgress(last) EXCEPT !.RecentActive = TRUE]
     IN  IF p = r.id THEN MaybeUpdate(pr, last - 1) ELSE pr]

HandleSnapshot(r, m) ==
  LET s == m.Snapshot
  IN  IF Restores(r, s)
      THEN Send([r EXCEPT !.log = LogRestore(@, s), !.granted = {}, !.rejected = {},
                          !.prs = RestoredProgress(r, Len(s))],
                AppRespMsg(r, m.from, Len(s)))
      ELSE LET l == IF Len(s) > r.log.committed THEN CommitTo(r.log, Len(s)) ELSE r.log
           IN  Send([r EXCEPT !.log = l], AppRespMsg(r, m.from, l.committed))

HandleLeaderMsg(r, m) ==
  CASE m.type = "MsgApp" -> HandleAppendEntries(r, m)
    [] m.type = "MsgHeartbeat" -> HandleHeartbeat(r, m)
    [] m.type = "MsgSnap" -> HandleSnapshot(r, m)

LeaderMsgs == {"MsgApp", "MsgHeartbeat", "MsgSnap"}

----------------------------------------------------------------------------
(* stepLeader.                                                             *)

\* Mutant: a peer that was heard of once counts as active for good.
CheckQuorumForever(r) ==
  LET active == {p \in DOMAIN r.prs : p = r.id \/ r.prs[p].RecentActive}
      quorumActive == VoteResult(Voters(r), active, DOMAIN r.prs \ active) = VoteWon
  IN  IF quorumActive THEN [r EXCEPT !.prs[r.id].RecentActive = TRUE]
      ELSE BecomeFollower(r, r.Term, None)

\* MsgCheckQuorum
CheckQuorumStep(r) ==
  LET active == {p \in DOMAIN r.prs : p = r.id \/ r.prs[p].RecentActive}
      quorumActive == VoteResult(Voters(r), active, DOMAIN r.prs \ active) = VoteWon
      s == IF quorumActive THEN [r EXCEPT !.prs[r.id].RecentActive = TRUE]
           ELSE BecomeFollower(r, r.Term, None)
  IN  [s EXCEPT !.prs = [p \in DOMAIN s.prs |->
         IF p = r.id THEN s.prs[p] ELSE [s.prs[p] EXCEPT !.RecentActive = FALSE]]]

\* MsgProp
ProposeStep(r, data) ==
  IF r.id \notin DOMAIN r.prs \/ r.leadTransferee # None THEN r
  ELSE BcastAppend(AppendEntry(r, data))

IsSingleton(r) == Cardinality(Voters(r)[1]) = 1 /\ Voters(r)[2] = {}

\* MsgReadIndex
ReadIndexStep(r, from, ctx) ==
  LET req == [Ctx |-> ctx, From |-> from]
  IN  IF IsSingleton(r)
      THEN RespondToReads(r, {[Ctx |-> ctx, From |-> from, Index |-> r.log.committed]})
      ELSE IF ~CommittedEntryInCurrentTerm(r)
      THEN [r EXCEPT !.pendingReads = Append(@, req)]
      ELSE SendMsgReadIndexResponse(r, <<req>>)

SendTimeoutNow(r, to) ==
  Send(r, [type |-> "MsgTimeoutNow", from |-> r.id, to |-> to, Term |-> 0])

\* MsgAppResp with Reject: probe again at a better index.
AppRejectedStep(r, m) ==
  LET pr == [r.prs[m.from] EXCEPT !.RecentActive = TRUE]
      next == IF m.LogTerm > 0 THEN FindConflictByTerm(r.log, m.RejectHint, m.LogTerm)
              ELSE m.RejectHint
      decr == MaybeDecrTo(pr, m.Index, next)
  IN  IF ~Decrements(pr, m.Index) THEN [r EXCEPT !.prs[m.from] = pr]
      ELSE SendAppend([r EXCEPT !.prs[m.from] =
                         IF decr.State = StateReplicate THEN BecomeProbe(decr) ELSE decr],
                      m.from)

\* The progress after an acknowledgement that is news.
Acknowledged(pr, index) ==
  LET up == MaybeUpdate(pr, index)
  IN  IF up.State = StateProbe THEN BecomeReplicate(up)
      ELSE IF up.State = StateSnapshot
           THEN IF up.Match >= up.PendingSnapshot THEN BecomeReplicate(BecomeProbe(up)) ELSE up
      ELSE [up EXCEPT !.Inflights = FreeLE(@, index)]

\* MsgAppResp without Reject.
AppAcceptedStep(r, m) ==
  LET pr == [r.prs[m.from] EXCEPT !.RecentActive = TRUE]
      acked == [r EXCEPT !.prs[m.from] = Acknowledged(pr, m.Index)]
      sent == IF CanCommit(acked)
              THEN BcastAppend(ReleasePendingReadIndexMessages(MaybeCommit(acked)))
              ELSE IF IsPaused(pr) THEN SendAppend(acked, m.from)
              ELSE acked
      drained == DrainAppends(sent, m.from)
  IN  IF ~Updates(pr, m.Index) THEN [r EXCEPT !.prs[m.from] = MaybeUpdate(pr, m.Index)]
      ELSE IF m.from = r.leadTransferee /\ drained.prs[m.from].Match = LastIndex(r.log)
      THEN SendTimeoutNow(drained, m.from)
      ELSE drained

\* Mutant: a rejection is taken for an acknowledgement.
AppRespIgnoresReject(r, m) == AppAcceptedStep(r, m)

AppRespStep(r, m) == IF m.Reject THEN AppRejectedStep(r, m) ELSE AppAcceptedStep(r, m)

HeartbeatRespStep(r, m) ==
  LET pr == r.prs[m.from]
      freed == IF pr.State = StateReplicate /\ Full(pr.Inflights)
               THEN FreeFirstOne(pr.Inflights) ELSE pr.Inflights
      awake == [r EXCEPT !.prs[m.from] =
                  [pr EXCEPT !.RecentActive = TRUE, !.ProbeSent = FALSE, !.Inflights = freed]]
      sent == IF pr.Match < LastIndex(r.log) THEN SendAppend(awake, m.from) ELSE awake
  IN  IF m.Context = NoCtx THEN sent ELSE AckRead(sent, m.from, m.Context)

\* MsgSnapStatus: the next MsgApp waits for an answer or a heartbeat.
SnapStatusStep(r, from, reject) ==
  LET pr == [r.prs[from] EXCEPT !.PendingSnapshot = IF reject THEN 0 ELSE @]
  IN  IF pr.State # StateSnapshot THEN r
      ELSE [r EXCEPT !.prs[from] = [BecomeProbe(pr) EXCEPT !.ProbeSent = TRUE]]

UnreachableStep(r, from) ==
  IF r.prs[from].State # StateReplicate THEN r
  ELSE [r EXCEPT !.prs[from] = BecomeProbe(@)]

TransferLeaderStep(r, transferee) ==
  LET started == [r EXCEPT !.leadTransferee = transferee]
  IN  IF IsLearner(r, transferee) \/ r.leadTransferee = transferee THEN r
      ELSE IF transferee = r.id THEN AbortLeaderTransfer(r)
      ELSE IF r.prs[transferee].Match = LastIndex(r.log)
      THEN SendTimeoutNow(started, transferee)
      ELSE SendAppend(started, transferee)

\* The kinds that need a progress for the sender come last.
StepLeader(r, m) ==
  CASE m.type = "MsgProp" -> ProposeStep(r, m.Data)
    [] m.type = "MsgReadIndex" -> ReadIndexStep(r, m.from, m.Context)
    [] m.from \notin DOMAIN r.prs -> r
    [] m.type = "MsgAppResp" -> AppRespStep(r, m)
    [] m.type = "MsgHeartbeatResp" -> HeartbeatRespStep(r, m)
    [] m.type = "MsgTransferLeader" -> TransferLeaderStep(r, m.from)
    [] OTHER -> r

----------------------------------------------------------------------------
(* stepCandidate, for candidates and pre-candidates.                       *)

MyVoteRespType(r) ==
  IF r.state = StatePreCandidate THEN "MsgPreVoteResp" ELSE "MsgVoteResp"

VoteRespStep(r, m) ==
  LET p == RecordVote(r, m.from, ~m.Reject)
      res == TallyVotes(p)
  IN  IF res = VoteLost THEN BecomeFollower(p, p.Term, None)
      ELSE IF res = VotePending THEN p
      ELSE IF p.state = StatePreCandidate THEN CampaignElection(p, FALSE)
      ELSE BcastAppend(BecomeLeader(p))

StepCandidate(r, m) ==
  CASE m.type \in LeaderMsgs -> HandleLeaderMsg(BecomeFollower(r, m.Term, m.from), m)
    [] m.type = MyVoteRespType(r) -> VoteRespStep(r, m)
    [] OTHER -> r

----------------------------------------------------------------------------
(* stepFollower.  A message that is forwarded keeps its sender; send       *)
(* panics on one that carries a term.                                      *)

ForwardToLeader(r, m) == IF r.lead = None THEN r ELSE Send(r, [m EXCEPT !.to = r.lead])

StepFollower(r, m) ==
  CASE m.type \in LeaderMsgs -> HandleLeaderMsg([r EXCEPT !.lead = m.from], m)
    [] m.type = "MsgProp" -> IF DisableProposalForwarding THEN r ELSE ForwardToLeader(r, m)
    [] m.type \in {"MsgTransferLeader", "MsgReadIndex"} -> ForwardToLeader(r, m)
    [] m.type = "MsgTimeoutNow" -> HupTransfer(r)
    [] m.type = "MsgReadIndexResp" ->
         [r EXCEPT !.readStates = @ \cup {[Index |-> m.Index, Ctx |-> m.Context]}]
    [] OTHER -> r

----------------------------------------------------------------------------
(* Step.                                                                   *)

VoteRespMsg(r, m, term, reject) ==
  [type |-> IF m.type = "MsgVote" THEN "MsgVoteResp" ELSE "MsgPreVoteResp",
   from |-> r.id, to |-> m.from, Term |-> term, Reject |-> reject]

CanVote(r, m) ==
  \/ r.Vote = m.from
  \/ r.Vote = None /\ r.lead = None
  \/ m.type = "MsgPreVote" /\ m.Term > r.Term

HandleVoteRequest(r, m) ==
  IF CanVote(r, m) /\ IsUpToDate(r.log, m.Index, m.LogTerm)
  THEN Send([r EXCEPT !.Vote = IF m.type = "MsgVote" THEN m.from ELSE @],
            VoteRespMsg(r, m, m.Term, FALSE))
  ELSE Send(r, VoteRespMsg(r, m, r.Term, TRUE))

VoteRequests == {"MsgVote", "MsgPreVote"}

\* recent: the election timer has not reached electionTimeout since this node
\* last heard from its leader.
IgnoredInLease(r, m, recent) ==
  /\ m.type \in VoteRequests
  /\ ~m.Transfer
  /\ CheckQuorum /\ r.lead # None /\ recent

KeepsTerm(m) == m.type = "MsgPreVote" \/ (m.type = "MsgPreVoteResp" /\ ~m.Reject)

\* What a message of a lower term provokes.
StepLowerTerm(r, m) ==
  IF (CheckQuorum \/ PreVote) /\ m.type \in {"MsgHeartbeat", "MsgApp"}
  THEN Send(r, AppRespMsg(r, m.from, 0))
  ELSE IF m.type = "MsgPreVote" THEN Send(r, VoteRespMsg(r, m, r.Term, TRUE))
  ELSE r

AdoptTerm(r, m) ==
  IF m.Term > r.Term /\ ~KeepsTerm(m)
  THEN BecomeFollower(r, m.Term, IF m.type \in LeaderMsgs THEN m.from ELSE None)
  ELSE r

\* The step function of the current role.
StepRole(r, m) ==
  IF m.type \in VoteRequests THEN HandleVoteRequest(r, m)
  ELSE IF r.state = StateLeader THEN StepLeader(r, m)
  ELSE IF r.state = StateFollower THEN StepFollower(r, m)
  ELSE StepCandidate(r, m)

\* Mutant: a message of a lower term is not dropped.
StepAnyTerm(r, m, recent) ==
  IF m.Term > r.Term /\ IgnoredInLease(r, m, recent) THEN r
  ELSE StepRole(AdoptTerm(r, m), m)

Step(r, m, recent) ==
  IF m.Term > r.Term /\ IgnoredInLease(r, m, recent) THEN r
  ELSE IF m.Term # 0 /\ m.Term < r.Term THEN StepLowerTerm(r, m)
  ELSE StepRole(AdoptTerm(r, m), m)

----------------------------------------------------------------------------
(* Ticks.  The counters are abstracted to the question which of the two    *)
(* timeouts of a leader has passed.                                        *)

TickElection(r) == Hup(r)


TickHeartbeat(r, electionDue, heartbeatDue) ==
  LET checked == IF electionDue /\ CheckQuorum THEN CheckQuorumStep(r) ELSE r
      aborted == IF electionDue /\ checked.state = StateLeader
                 THEN AbortLeaderTransfer(checked) ELSE checked
  IN  IF heartbeatDue /\ aborted.state = StateLeader THEN BcastHeartbeat(aborted) ELSE aborted

----------------------------------------------------------------------------
(* Start and restart.  Bootstrap writes one configuration change of term 1 *)
(* per peer, commits them all and applies them.  RestartNode keeps what is *)
(* in stable storage: term, vote, commit index and log.                    *)

MemberProgress(members, last) ==
  [p \in members |-> [NewProgress(last) EXCEPT !.RecentActive = TRUE]]

NewRaft(id, term, vote, log, members) ==
  [id |-> id, Term |-> term, Vote |-> vote, state |-> StateFollower, lead |-> None,
   granted |-> {}, rejected |-> {}, log |-> log,
   cfg |-> [Voters |-> <<members, {}>>, Learners |-> {}],
   prs |-> MemberProgress(members, LastIndex(log)), leadTransferee |-> None,
   readOnly |-> {}, pendingReads |-> <<>>, msgs |-> {}, readStates |-> {}, panic |-> FALSE]

Bootstrap(id, members) ==
  LET n == Cardinality(members)
      ents == [i \in 1..n |-> [Term |-> 1, Data |-> ConfChangeData]]
  IN  NewRaft(id, 1, None, [ents |-> ents, offset |-> 0, committed |-> n], members)

\* Mutant: the hard state is not loaded.
RestartWithoutLoadState(r) == NewRaft(r.id, 0, None, r.log, IDs(Voters(r)))

\* Mutant: the vote is not in the hard state.
RestartWithoutVote(r) == NewRaft(r.id, r.Term, None, r.log, IDs(Voters(r)))

RestartNode(r) == NewRaft(r.id, r.Term, r.Vote, r.log, IDs(Voters(r)))
=============================================================================
