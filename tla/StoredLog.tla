------------------------------ MODULE StoredLog ------------------------------
(***************************************************************************)
(* The log of one node as it is stored (log.go, log_unstable.go,           *)
(* storage.go): a MemoryStorage, the entries and the snapshot that are not *)
(* in it yet, and the hand-over between the two: raft makes a Ready, the   *)
(* application saves it, sends the messages, applies the committed entries *)
(* and calls Advance, while messages keep changing the log.                *)
(*                                                                         *)
(* The application is not raftloop of raft/node.go, which stores no hard   *)
(* state and never compacts, but any one that handles a Ready as doc.go    *)
(* and the comments on Ready ask: it stores all of it, takes its state     *)
(* from a snapshot, and snapshots and compacts when it likes.              *)
(*                                                                         *)
(* An entry is its term: index and term determine the rest.  The data of a *)
(* snapshot is the sequence of entries that produced it.                   *)
(***************************************************************************)
EXTENDS Integers, Sequences, FiniteSets

CONSTANTS
  MaxTerm,
  LeaderLogs,    \* the histories of leaders a run looks at
  MaxNextEnts    \* Config.MaxCommittedSizePerReady, in entries

VARIABLES
  leaders,       \* leaders[t]: log, commit and snaps of the leader of term t
  Term,
  raftLog,       \* storage, unstable, committed, applied
  hardState,     \* Term and Commit in stable storage
  rd,            \* the Ready that waits for Advance
  ack,           \* the highest acknowledgement for the next Ready: Term, Index
  acked,         \* the highest acknowledgement that was sent
  app,           \* the entries that the application has applied
  panic

vars == <<leaders, Term, raftLog, hardState, rd, ack, acked, app, panic>>

MinOf(a, b) == IF a < b THEN a ELSE b
MaxOf(a, b) == IF a > b THEN a ELSE b

NoSnapshot == <<>>        \* a snapshot is the sequence of entries it stands for
Unavailable == -1         \* term returned an error

TermOf(ents, i) == IF i = 0 THEN 0 ELSE ents[i].Term
From(s, i) == SubSeq(s, i, Len(s))
LimitSize(s) == SubSeq(s, 1, MinOf(Len(s), MaxNextEnts))

----------------------------------------------------------------------------
(* MemoryStorage: ents[1] is the dummy entry, at index offset.             *)

NewStorage == [snapshot |-> NoSnapshot, ents |-> <<[Term |-> 0]>>, offset |-> 0]

StorageLast(st) == st.offset + Len(st.ents) - 1

StorageTerm(st, i) ==
  IF i < st.offset \/ i > StorageLast(st) THEN Unavailable ELSE st.ents[i - st.offset + 1].Term

\* Entries in [lo, hi)
StorageEntries(st, lo, hi) == SubSeq(st.ents, lo - st.offset + 1, hi - st.offset)

\* ErrSnapOutOfDate is ignored by the caller.
ApplySnapshot(st, snapshot) ==
  IF Len(st.snapshot) >= Len(snapshot) THEN st
  ELSE [snapshot |-> snapshot, ents |-> <<[Term |-> TermOf(snapshot, Len(snapshot))]>>,
        offset |-> Len(snapshot)]

\* A gap in front of the new entries is a panic.
StorageGap(st, index, ents) == ents # <<>> /\ index > StorageLast(st) + 1

\* Mutant: entries at indexes that are taken are not written.
StorageAppendNew(st, index, ents) ==
  IF index + Len(ents) - 1 =< StorageLast(st) THEN st
  ELSE [st EXCEPT !.ents = @ \o From(ents, StorageLast(st) + 2 - index)]

StorageAppend(st, index, ents) ==
  LET cut == MaxOf(0, st.offset + 1 - index)
      first == index + cut
  IN  IF Len(ents) =< cut THEN st
      ELSE [st EXCEPT !.ents = SubSeq(@, 1, first - st.offset) \o From(ents, cut + 1)]

CreateSnapshot(st, i, data) == IF i =< Len(st.snapshot) THEN st ELSE [st EXCEPT !.snapshot = data]

StorageCompact(st, i) ==
  IF i =< st.offset THEN st
  ELSE [st EXCEPT !.ents = <<[Term |-> StorageTerm(st, i)]>> \o From(@, i - st.offset + 2),
                  !.offset = i]

----------------------------------------------------------------------------
(* unstable: entries from index offset on, and a snapshot before them.     *)

\* maybeLastIndex: of the entries, or else of the snapshot.
UnstableLast(u) ==
  IF u.entries # <<>> THEN u.offset + Len(u.entries) - 1 ELSE Len(u.snapshot)

HasUnstable(u) == u.entries # <<>> \/ u.snapshot # NoSnapshot

\* maybeTerm
UnstableTerm(u, i) ==
  IF i < u.offset
  THEN IF u.snapshot # NoSnapshot /\ Len(u.snapshot) = i THEN TermOf(u.snapshot, i) ELSE Unavailable
  ELSE IF i > UnstableLast(u) THEN Unavailable
  ELSE u.entries[i - u.offset + 1].Term

StableTo(u, i, t) ==
  IF UnstableTerm(u, i) = t /\ i >= u.offset
  THEN [u EXCEPT !.entries = From(@, i - u.offset + 2), !.offset = i + 1]
  ELSE u

StableSnapTo(u, i) == IF Len(u.snapshot) = i THEN [u EXCEPT !.snapshot = NoSnapshot] ELSE u

\* Mutant: entries behind the conflict are not cut.
AppendWithoutTruncating(u, after, ents) ==
  IF after =< u.offset /\ after # u.offset + Len(u.entries)
  THEN [u EXCEPT !.offset = after, !.entries = ents]
  ELSE [u EXCEPT !.entries = @ \o ents]

\* The three cases: append, replace all, and cut and append.
TruncateAndAppend(u, after, ents) ==
  IF after =< u.offset /\ after # u.offset + Len(u.entries)
  THEN [u EXCEPT !.offset = after, !.entries = ents]
  ELSE [u EXCEPT !.entries = SubSeq(@, 1, after - u.offset) \o ents]

----------------------------------------------------------------------------
(* raftLog.                                                                *)

FirstIndex(l) ==
  IF l.unstable.snapshot # NoSnapshot THEN Len(l.unstable.snapshot) + 1 ELSE l.storage.offset + 1

LastIndex(l) == IF HasUnstable(l.unstable) THEN UnstableLast(l.unstable) ELSE StorageLast(l.storage)

TermAt(l, i) ==
  IF i < FirstIndex(l) - 1 \/ i > LastIndex(l) THEN 0
  ELSE IF UnstableTerm(l.unstable, i) # Unavailable THEN UnstableTerm(l.unstable, i)
  ELSE StorageTerm(l.storage, i)

MatchTerm(l, i, t) == TermAt(l, i) = t

\* The entries in [lo, hi), those that are in the storage from there.
Slice(l, lo, hi) ==
  LET off == l.unstable.offset
      stored == IF lo < off THEN StorageEntries(l.storage, lo, MinOf(hi, off)) ELSE <<>>
      rest == IF hi > off THEN SubSeq(l.unstable.entries, MaxOf(lo, off) - off + 1, hi - off) ELSE <<>>
  IN  stored \o rest

\* The panics of slice: the storage lacks what lies below the unstable part.
SlicePanics(l, lo, hi) ==
  /\ lo < hi
  /\ \/ hi > LastIndex(l) + 1
     \/ lo < l.unstable.offset /\ \/ lo =< l.storage.offset
                                  \/ MinOf(hi, l.unstable.offset) > StorageLast(l.storage) + 1
                                  \/ Len(l.storage.ents) = 1

CommitTo(l, tocommit) ==
  IF l.committed < tocommit /\ tocommit =< LastIndex(l)
  THEN [l EXCEPT !.committed = tocommit] ELSE l

\* findConflict, zero if there is none.
FindConflict(l, index, ents) ==
  LET conflicts == {j \in 1..Len(ents) : ~MatchTerm(l, index + j, ents[j].Term)}
  IN  IF conflicts = {} THEN 0
      ELSE index + CHOOSE j \in conflicts : \A k \in conflicts : j =< k

\* maybeAppend, once index and its term match.
MaybeAppend(l, index, committed, ents) ==
  LET ci == FindConflict(l, index, ents)
      appended == IF ci = 0 THEN l
                  ELSE [l EXCEPT !.unstable = TruncateAndAppend(@, ci, From(ents, ci - index))]
  IN  CommitTo(appended, MinOf(committed, index + Len(ents)))

AppendPanics(l, index, ents) ==
  LET ci == FindConflict(l, index, ents)
  IN  ci # 0 /\ (ci =< l.committed \/ ci > LastIndex(l) + 1)

Restore(l, snapshot) ==
  [l EXCEPT !.committed = Len(snapshot),
            !.unstable = [snapshot |-> snapshot, entries |-> <<>>, offset |-> Len(snapshot) + 1]]

\* Mutant: a snapshot that is not applied yet is overlooked.
NextFromApplied(l) == l.applied + 1

\* nextEnts: the committed entries that are next to be applied.
NextFrom(l) == MaxOf(l.applied + 1, FirstIndex(l))
NextEnts(l) == LimitSize(Slice(l, NextFrom(l), l.committed + 1))

NewLog(st) ==
  [storage |-> st, committed |-> st.offset, applied |-> st.offset,
   unstable |-> [snapshot |-> NoSnapshot, entries |-> <<>>, offset |-> StorageLast(st) + 1]]

----------------------------------------------------------------------------
(* Messages of leaders.                                                    *)

\* Of two acknowledgements the one of the later term, or else of the higher
\* index, promises more.
NoAck == [Term |-> 0, Index |-> 0]
Higher(a, b) == IF a.Term > b.Term \/ (a.Term = b.Term /\ a.Index > b.Index) THEN a ELSE b

Acknowledge(t, i) == ack' = Higher([Term |-> t, Index |-> i], ack)

\* handleAppendEntries, for the entries (prev, last] of the leader's log.
HandleAppendEntries(t, prev, last, commit) ==
  LET src == leaders[t].log
      ents == SubSeq(src, prev + 1, last)
      matches == MatchTerm(raftLog, prev, TermOf(src, prev))
  IN  /\ ~panic
      /\ t >= Term /\ Term' = t
      /\ IF prev < raftLog.committed
         THEN Acknowledge(t, raftLog.committed) /\ UNCHANGED <<raftLog, panic>>
         ELSE IF ~matches THEN UNCHANGED <<raftLog, ack, panic>>
         ELSE /\ raftLog' = IF AppendPanics(raftLog, prev, ents) THEN raftLog
                            ELSE MaybeAppend(raftLog, prev, commit, ents)
              /\ panic' = AppendPanics(raftLog, prev, ents)
              /\ Acknowledge(t, last)
      /\ UNCHANGED <<leaders, hardState, rd, acked, app>>

\* handleSnapshot and restore, for a snapshot at index i.
HandleSnapshot(t, i) ==
  LET s == SubSeq(leaders[t].log, 1, i)
  IN  /\ ~panic
      /\ t >= Term /\ Term' = t
      /\ raftLog' = IF i =< raftLog.committed THEN raftLog
                    ELSE IF MatchTerm(raftLog, i, TermOf(s, i)) THEN CommitTo(raftLog, i)
                    ELSE Restore(raftLog, s)
      /\ Acknowledge(t, raftLog'.committed)
      /\ UNCHANGED <<leaders, hardState, rd, acked, app, panic>>

----------------------------------------------------------------------------
(* Ready, the application, Advance.                                        *)

NoReady == [stage |-> "none"]

HasReady ==
  \/ [Term |-> Term, Commit |-> raftLog.committed] # hardState
  \/ raftLog.unstable.snapshot # NoSnapshot
  \/ raftLog.unstable.entries # <<>>
  \/ raftLog.committed + 1 > NextFrom(raftLog)
  \/ ack # NoAck

\* newReady and acceptReady.
TakeReady ==
  LET l == raftLog
      bad == SlicePanics(l, NextFrom(l), l.committed + 1)
  IN  /\ ~panic /\ rd.stage = "none" /\ HasReady
      /\ panic' = bad
      /\ rd' = IF bad THEN rd
               ELSE [stage |-> "taken", index |-> l.unstable.offset, Entries |-> l.unstable.entries,
                     Snapshot |-> l.unstable.snapshot,
                     HardState |-> [Term |-> Term, Commit |-> l.committed],
                     first |-> NextFrom(l), CommittedEntries |-> NextEnts(l), ack |-> ack]
      /\ ack' = IF bad THEN ack ELSE NoAck
      /\ UNCHANGED <<leaders, Term, raftLog, hardState, acked, app>>

\* The application stores snapshot, entries and hard state at once, and then
\* sends the messages.
Save ==
  LET snapped == ApplySnapshot(raftLog.storage, rd.Snapshot)
  IN  /\ ~panic /\ rd.stage = "taken"
      /\ panic' = StorageGap(snapped, rd.index, rd.Entries)
      /\ raftLog' = IF panic' THEN raftLog
                    ELSE [raftLog EXCEPT !.storage = StorageAppend(snapped, rd.index, rd.Entries)]
      /\ hardState' = rd.HardState
      /\ acked' = Higher(rd.ack, acked)
      /\ rd' = [rd EXCEPT !.stage = "saved"]
      /\ UNCHANGED <<leaders, Term, ack, app>>

\* The application takes its state from the snapshot, if there is one, and
\* applies the committed entries that it has not applied yet.
ApplyEntries ==
  LET base == IF Len(rd.Snapshot) > Len(app) THEN rd.Snapshot ELSE app
      new == From(rd.CommittedEntries, MaxOf(1, Len(base) + 2 - rd.first))
  IN  /\ ~panic /\ rd.stage = "saved"
      /\ app' = base \o new
      /\ rd' = [rd EXCEPT !.stage = "applied"]
      /\ UNCHANGED <<leaders, Term, raftLog, hardState, ack, acked, panic>>

AppliedCursor ==
  IF rd.CommittedEntries # <<>> THEN rd.first + Len(rd.CommittedEntries) - 1 ELSE Len(rd.Snapshot)

\* advance: appliedTo (with its panic), stableTo, stableSnapTo.
Advance ==
  LET i == AppliedCursor
      n == Len(rd.Entries)
      u == raftLog.unstable
      stable == IF n = 0 THEN u ELSE StableTo(u, rd.index + n - 1, rd.Entries[n].Term)
  IN  /\ ~panic /\ rd.stage = "applied"
      /\ panic' = (i # 0 /\ (raftLog.committed < i \/ i < raftLog.applied))
      /\ raftLog' = [raftLog EXCEPT
           !.applied = IF i = 0 THEN @ ELSE i,
           !.unstable = IF rd.Snapshot = NoSnapshot THEN stable
                        ELSE StableSnapTo(stable, Len(rd.Snapshot))]
      /\ rd' = NoReady
      /\ UNCHANGED <<leaders, Term, hardState, ack, acked, app>>

\* The application snapshots its state, and drops what a snapshot covers.
Snapshot(i) ==
  /\ ~panic /\ i \in 1..raftLog.applied
  /\ raftLog' = [raftLog EXCEPT !.storage = CreateSnapshot(@, i, SubSeq(app, 1, i))]
  /\ UNCHANGED <<leaders, Term, hardState, rd, ack, acked, app, panic>>

Compact(i) ==
  /\ ~panic /\ i \in 1..MinOf(raftLog.applied, Len(raftLog.storage.snapshot))
  /\ raftLog' = [raftLog EXCEPT !.storage = StorageCompact(@, i)]
  /\ UNCHANGED <<leaders, Term, hardState, rd, ack, acked, app, panic>>

\* A crash at any point, and newRaft (newLog and loadState with its panic).
Crash ==
  LET l == NewLog(raftLog.storage)
  IN  /\ ~panic
      /\ panic' = (hardState.Commit < l.committed \/ hardState.Commit > LastIndex(l))
      /\ raftLog' = [l EXCEPT !.committed = hardState.Commit]
      /\ Term' = hardState.Term
      /\ app' = raftLog.storage.snapshot
      /\ rd' = NoReady /\ ack' = NoAck
      /\ UNCHANGED <<leaders, hardState, acked>>

Init ==
  /\ leaders \in LeaderLogs
  /\ Term = 0
  /\ raftLog = NewLog(NewStorage)
  /\ hardState = [Term |-> 0, Commit |-> 0]
  /\ rd = NoReady /\ ack = NoAck /\ acked = NoAck
  /\ app = <<>> /\ panic = FALSE

Next ==
  \/ \E t \in 1..MaxTerm :
       \/ \E prev, last \in 0..Len(leaders[t].log), commit \in 0..leaders[t].commit :
            prev =< last /\ HandleAppendEntries(t, prev, last, commit)
       \/ \E i \in leaders[t].snaps : HandleSnapshot(t, i)
  \/ TakeReady \/ Save \/ ApplyEntries \/ Advance \/ Crash
  \/ \E i \in 1..Len(app) : Snapshot(i) \/ Compact(i)

Spec == Init /\ [][Next]_vars

----------------------------------------------------------------------------
(* Properties.                                                             *)

\* No append leaves a gap in the storage, no entry to be applied is missing
\* from it, no Advance moves the applied index back or beyond the commit index,
\* and a restart finds a commit index that fits the log (the panics of slice,
\* maybeAppend, Append, appliedTo and loadState), under an application that
\* handles each Ready as the library asks.
NoPanic == ~panic

\* An acknowledgement that was sent is backed by stable storage: after a crash
\* the node is in a later term or holds the entries it promised to keep.
AcksAreDurable ==
  LET st == raftLog.storage
      stored == SubSeq(st.snapshot, 1, st.offset) \o From(st.ents, 2)
  IN  \/ hardState.Term > acked.Term
      \/ acked = NoAck
      \/ /\ acked.Index =< Len(stored)
         /\ SubSeq(stored, 1, acked.Index) = SubSeq(leaders[acked.Term].log, 1, acked.Index)

\* The log as the rest of raft sees it.
View ==
  LET l == raftLog
      first == FirstIndex(l)
      past == IF l.unstable.snapshot # NoSnapshot THEN l.unstable.snapshot ELSE l.storage.snapshot
  IN  [ents |-> SubSeq(past, 1, first - 1) \o Slice(l, first, LastIndex(l) + 1),
       offset |-> first - 1, committed |-> l.committed]

Ideal == INSTANCE IdealLog
  WITH log <- View, applied <- app, Value <- {}, MaxSizePerMsg <- MaxNextEnts, MaxUint64 <- 0

\* Through all saves, snapshots, compactions, truncations under an outstanding
\* Ready and crashes, the stored log behaves as the log of RaftLog, and the
\* application is handed every entry in its turn.
RefinesIdealLog == Ideal!Spec
=============================================================================
