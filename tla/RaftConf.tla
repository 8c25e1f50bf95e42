------------------------------ MODULE RaftConf ------------------------------
(***************************************************************************)
(* A cluster of raft instances whose membership changes.  To the instance  *)
(* of RaftNode are added the fields of raft that the changes need, and the *)
(* place of the application in the committed entries:                      *)
(*   applied           raftLog.applied, moved by advance;                  *)
(*   ready             the last committed entry of the Ready that the      *)
(*                     application is working on, 0 if there is none;      *)
(*   cursor            the entry up to which it has got;                   *)
(*   pendingConfIndex  no change is accepted before this index is applied; *)
(*   uncommittedSize   payload of the leader's entries not yet applied.    *)
(* The configuration is the one of Changer.  An entry whose data is a name *)
(* of Change is a configuration change; it takes effect at a node when the *)
(* application of that node gets to it.                                    *)
(***************************************************************************)
EXTENDS Raft, Changer

CONSTANTS
  Change,                 \* Change[d]: the ConfChangeV2 in an entry with data d
  Boot,                   \* the names of the changes that StartNode writes
  MaxUncommittedSize      \* Config.MaxUncommittedEntriesSize, in payloads

ASSUME ChangeAssumption ==
  \A d \in DOMAIN Change : Change[d].transition \in Transition /\ d \notin Value
ASSUME MaxUncommittedAssumption == MaxUncommittedSize \in Nat

\* The empty change that a leader appends by itself.  Its data is nil.
AutoLeaveData == "AutoLeave"

ChangeOf(d) ==
  IF d = AutoLeaveData THEN [transition |-> "Auto", ccs |-> <<>>] ELSE Change[d]

IsConf(e) == e.Data \in DOMAIN Change \cup {AutoLeaveData}

\* The configuration changes of a log behind one index, up to another.
Confs(l, after, upTo) == {i \in (after + 1)..upTo : IsConf(l.ents[i])}

PayloadSize(d) == IF d \in {NilData, AutoLeaveData} THEN 0 ELSE 1

\* The payload of the entries of a log behind one index, up to another.
Payload(l, after, upTo) ==
  Cardinality({i \in (after + 1)..upTo : PayloadSize(l.ents[i].Data) = 1})

----------------------------------------------------------------------------
(* Changes of role.                                                        *)

\* Mutant: reset keeps the size of what was not committed.
TrackedKeepsSize(r, s) ==
  IF s.state # StateLeader THEN [s EXCEPT !.pendingConfIndex = 0]
  ELSE IF r.state # StateLeader \/ r.Term # s.Term
  THEN [s EXCEPT !.pendingConfIndex = LastIndex(s.log) - 1]
  ELSE s

\* What reset and becomeLeader do to the added fields in a step from r to s.
Tracked(r, s) ==
  IF s.state # StateLeader THEN [s EXCEPT !.pendingConfIndex = 0, !.uncommittedSize = 0]
  ELSE IF r.state # StateLeader \/ r.Term # s.Term
  THEN [s EXCEPT !.pendingConfIndex = LastIndex(s.log) - 1, !.uncommittedSize = 0]
  ELSE s

----------------------------------------------------------------------------
(* Applying a change.                                                      *)

Known == 1                \* the Match of Changer for a peer that has a progress

Tracker(r) ==
  [cfg |-> r.cfg,
   prs |-> [id \in DOMAIN r.prs |-> [IsLearner |-> IsLearner(r, id), Match |-> Known]]]

\* The progress of a peer is kept, or made anew.
SwitchedProgress(r, t) ==
  LET new == MemberProgress(DOMAIN t.prs, LastIndex(r.log))
  IN  [id \in DOMAIN t.prs |-> IF t.prs[id].Match = Known THEN r.prs[id] ELSE new[id]]

\* Mutant: the commit index waits for the next acknowledgement.
SwitchWithoutCommit(r, t) ==
  LET s == [r EXCEPT !.cfg = t.cfg, !.prs = SwitchedProgress(r, t)]
  IN  IF s.state # StateLeader \/ ~Promotable(s) \/ Incoming(t) = {} THEN s
      ELSE AbortLeaderTransfer(SendAppends(s, Peers(s), FALSE))

\* Mutant: the transfer to a node that is gone goes on.
SwitchKeepsTransfer(r, t) ==
  LET s == [r EXCEPT !.cfg = t.cfg, !.prs = SwitchedProgress(r, t)]
  IN  IF s.state # StateLeader \/ ~Promotable(s) \/ Incoming(t) = {} THEN s
      ELSE IF CanCommit(s) THEN BcastAppend(MaybeCommit(s))
      ELSE SendAppends(s, Peers(s), FALSE)

\* A leader that is a member takes the new quorum into account, and sends to
\* the peers that are new.
SwitchToConfig(r, t) ==
  LET s == [r EXCEPT !.cfg = t.cfg, !.prs = SwitchedProgress(r, t)]
      sent == IF CanCommit(s) THEN BcastAppend(MaybeCommit(s))
              ELSE SendAppends(s, Peers(s), FALSE)
  IN  IF s.state # StateLeader \/ ~Promotable(s) \/ Incoming(t) = {} THEN s
      ELSE IF sent.leadTransferee \in IDs(t.cfg.Voters) THEN sent
      ELSE AbortLeaderTransfer(sent)

ApplyConfChange(r, d) ==
  LET cc == ChangeOf(d)
      res == Changed(Tracker(r), cc.transition, cc.ccs)
  IN  IF res.err # NoError THEN Panicked(r) ELSE SwitchToConfig(r, res.tracker)

\* RestartNode.  No snapshot is taken: the stored ConfState is empty, and the
\* node applies all the changes in its log again.
NewConfRaft(id, term, vote, log) ==
  [NewRaft(id, term, vote, log, {}) EXCEPT !.cfg = EmptyConfig] @@
  [applied |-> 0, ready |-> 0, cursor |-> 0, pendingConfIndex |-> 0, uncommittedSize |-> 0]

RestartConf(r) == NewConfRaft(r.id, r.Term, r.Vote, r.log)

\* StartNode: the changes that Bootstrap writes are applied at once, and again
\* when the application gets to them.
BootstrapConf(id) ==
  LET ents == [i \in 1..Len(Boot) |-> [Term |-> 1, Data |-> Boot[i]]]
      log == [ents |-> ents, offset |-> 0, committed |-> Len(ents)]
  IN  FoldLeft(ApplyConfChange, NewConfRaft(id, 1, None, log), Boot)

\* Mutant: a leader that had applied all before its election does not leave.
AdvanceBelowPending(r, e) ==
  LET size == Payload(r.log, r.applied, e)
      s == [r EXCEPT !.applied = e, !.cursor = e, !.ready = 0,
                     !.uncommittedSize = IF size > @ THEN 0 ELSE @ - size]
  IN  IF /\ r.cfg.AutoLeave /\ r.state = StateLeader
         /\ r.applied < r.pendingConfIndex /\ e >= r.pendingConfIndex
      THEN [AppendEntry(s, AutoLeaveData) EXCEPT !.pendingConfIndex = LastIndex(r.log) + 1]
      ELSE s

\* advance: entries are applied up to e.  A leader leaves a joint
\* configuration by itself, with an entry that it does not send yet.
AdvanceStep(r, e) ==
  LET size == Payload(r.log, r.applied, e)
      s == [r EXCEPT !.applied = e, !.cursor = e, !.ready = 0,
                     !.uncommittedSize = IF size > @ THEN 0 ELSE @ - size]
  IN  IF /\ r.cfg.AutoLeave /\ r.state = StateLeader
         /\ r.applied =< r.pendingConfIndex /\ e >= r.pendingConfIndex
      THEN [AppendEntry(s, AutoLeaveData) EXCEPT !.pendingConfIndex = LastIndex(r.log) + 1]
      ELSE s

----------------------------------------------------------------------------
(* Proposals at a leader.                                                  *)

\* appendEntry refuses a payload that exceeds what may be uncommitted.
ProposeData(r, data) ==
  LET size == PayloadSize(data)
  IN  IF r.uncommittedSize > 0 /\ size > 0 /\ r.uncommittedSize + size > MaxUncommittedSize
      THEN r
      ELSE ProposeStep([r EXCEPT !.uncommittedSize = @ + size], data)

\* Mutant: the change before need not be applied.
RefusedIfJoint(r, d) == Joint(Tracker(r)) # WantsLeaveJoint(ChangeOf(d).ccs)

Refused(r, d) ==
  \/ r.pendingConfIndex > r.applied
  \/ Joint(Tracker(r)) # WantsLeaveJoint(ChangeOf(d).ccs)

\* A change that is refused leaves an empty entry in its place.
ProposeConfStep(r, d) ==
  IF Refused(r, d) THEN ProposeData(r, NilData)
  ELSE ProposeData([r EXCEPT !.pendingConfIndex = LastIndex(r.log) + 1], d)

Drops(r) == r.id \notin DOMAIN r.prs \/ r.leadTransferee # None

----------------------------------------------------------------------------
(* Actions.                                                                *)

ConfDo(n, r) == Do(n, Tracked(rs[n], r))

\* Mutant: hup campaigns whatever is left to apply.
NoPendingConf(r) == FALSE

\* hup does not campaign while a committed change waits to be applied.
PendingConf(r) == Confs(r.log, r.applied, r.log.committed) # {}

ConfElectionTimeout(n) ==
  /\ rs[n].state # StateLeader
  /\ ~PendingConf(rs[n])
  /\ ConfDo(n, TickElection(rs[n]))

ConfLeaderTick(n) ==
  rs[n].state = StateLeader /\ ConfDo(n, TickHeartbeat(rs[n], FALSE, TRUE))

ConfPropose(n, v) ==
  /\ rs[n].state = StateLeader /\ ~Drops(rs[n])
  /\ ConfDo(n, ProposeData(rs[n], v))

ProposeConfChange(n, d) ==
  /\ rs[n].state = StateLeader /\ ~Drops(rs[n])
  /\ ConfDo(n, ProposeConfStep(rs[n], d))

\* A node that was asked to take over is under the same check.
ConfStep(r, m) ==
  IF m.type = "MsgTimeoutNow" /\ PendingConf(r) /\ m.Term >= r.Term THEN AdoptTerm(r, m)
  ELSE Step(r, m, FALSE)

ResponseMsgs == {"MsgAppResp", "MsgVoteResp", "MsgHeartbeatResp", "MsgPreVoteResp"}

\* run drops the answers of nodes that are not known.
ConfReceive(m) ==
  /\ m.type \in ResponseMsgs => m.from \in DOMAIN rs[m.to].prs
  /\ ConfDo(m.to, ConfStep(rs[m.to], m))

\* Where the Ready in hand, or the next one, ends; its size is limited.
Ends(r) == IF r.ready # 0 THEN {r.ready} ELSE (r.applied + 1)..r.log.committed

\* The application gets to the next change among the entries of a Ready.
ApplyConf(n) ==
  LET r == rs[n]
  IN  \E e \in Ends(r) :
        LET left == Confs(r.log, r.cursor, e)
            i == Min(left)
        IN  /\ left # {}
            /\ ConfDo(n, [ApplyConfChange(r, r.log.ents[i].Data) EXCEPT !.ready = e, !.cursor = i])

\* It is done with all of them.
Advance(n) ==
  LET r == rs[n]
  IN  \E e \in Ends(r) :
        /\ Confs(r.log, r.cursor, e) = {}
        /\ ConfDo(n, AdvanceStep(r, e))

ConfRestart(n) == Do(n, RestartConf(rs[n]))

ConfTransferLeadership(n, transferee) ==
  /\ rs[n].state = StateLeader
  /\ transferee \in DOMAIN rs[n].prs
  /\ ConfDo(n, TransferLeaderStep(rs[n], transferee))

ConfInit ==
  /\ rs = [n \in Server |-> BootstrapConf(n)]
  /\ msgs = {}
  /\ readStates = {}
  /\ issued = [c \in ReadCtx |-> -1]

ConfNext ==
  \/ \E n \in Server :
       \/ ConfElectionTimeout(n) \/ ConfLeaderTick(n)
       \/ \E v \in Value : ConfPropose(n, v)
       \/ \E d \in DOMAIN Change : ProposeConfChange(n, d)
       \/ \E p \in Server : ConfTransferLeadership(n, p)
       \/ ApplyConf(n) \/ Advance(n)
       \/ ConfRestart(n)
  \/ \E m \in msgs : ConfReceive(m)

----------------------------------------------------------------------------
(* Properties.                                                             *)

\* At most one change in a log is above the commit index that the node
\* itself knows: whoever holds the next change knows that the one before is
\* committed, and so may not campaign before it is in force (pendingConfIndex
\* in stepLeader and becomeLeader, and the commit index of an append).
OnePendingChange ==
  \A n \in Server :
    Cardinality(Confs(rs[n].log, rs[n].log.committed, LastIndex(rs[n].log))) =< 1

\* A leader in a joint configuration that is to be left without being asked
\* still has the entry to apply at which it will do so (advance, with
\* changes of leader in between).
AutoLeaveIsOnItsWay ==
  \A n \in Server : rs[n].state = StateLeader /\ rs[n].cfg.AutoLeave =>
    rs[n].applied =< rs[n].pendingConfIndex /\ rs[n].applied < LastIndex(rs[n].log)

\* A leader that is a voter never sits on entries that its quorum already
\* has, also when the quorum has just become smaller (switchToConfig).
CommitIsUpToDate ==
  \A n \in Server : rs[n].state = StateLeader /\ Promotable(rs[n]) => ~CanCommit(rs[n])

\* A leader that is a voter never waits for a transfer to a node that has lost
\* its vote meanwhile: it would drop proposals (switchToConfig).
TransfereeIsVoter ==
  \A n \in Server : rs[n].state = StateLeader /\ Promotable(rs[n]) =>
    rs[n].leadTransferee \in IDs(Voters(rs[n])) \cup {None}

\* The leader never believes that more payload is waiting than there is in
\* its log behind the applied index (increaseUncommittedSize and
\* reduceUncommittedSize).  The uncommitted tail, of which the comment in the
\* latter says "will never overestimate it", may well be smaller: what is
\* committed counts until Advance.
QuotaIsHonest ==
  \A n \in Server :
    rs[n].uncommittedSize =< Payload(rs[n].log, rs[n].applied, LastIndex(rs[n].log))
=============================================================================
