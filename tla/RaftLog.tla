------------------------------ MODULE RaftLog ------------------------------
(***************************************************************************)
(* The raft log as the rest of the protocol sees it (log.go).              *)
(*                                                                         *)
(* l.ents holds every entry from index 1 on, also those that a compaction  *)
(* dropped: a snapshot is the state that its prefix of entries produces,   *)
(* and the model keeps that prefix in its place.  l.offset is the index of *)
(* the dummy entry (firstIndex - 1), the point up to which the log is      *)
(* compacted; no operator reads the term of an entry below it.             *)
(***************************************************************************)
EXTENDS Integers, Sequences, JointQuorum

CONSTANTS
  Value,                  \* what clients propose
  MaxSizePerMsg           \* Config.MaxSizePerMsg, in entries per message

ASSUME MaxSizeAssumption == MaxSizePerMsg \in Nat \ {0}

\* Data of an entry: a client's value, the nil data of the entry a leader
\* appends when it is elected, or a configuration change.
NilData == "nil"
ConfChangeData == "ConfChange"

Entry == [Term : Nat, Data : Value \cup {NilData, ConfChangeData}]

LogType ==
  {l \in [ents : Seq(Entry), offset : Nat, committed : Nat \ {0}] :
     l.offset =< l.committed /\ l.committed =< Len(l.ents)}

LastIndex(l) == Len(l.ents)
FirstIndex(l) == l.offset + 1

\* term: zero outside the range from the dummy entry to the last index.
TermAt(l, i) ==
  IF i < l.offset \/ i > LastIndex(l) \/ i = 0 THEN 0 ELSE l.ents[i].Term

LastTerm(l) == TermAt(l, LastIndex(l))

MatchTerm(l, i, term) == TermAt(l, i) = term

IsUpToDate(l, lasti, term) ==
  \/ term > LastTerm(l)
  \/ term = LastTerm(l) /\ lasti >= LastIndex(l)

\* entries: as many as one message carries, none beyond the last index.
Compacted(l, i) == i < FirstIndex(l)

Entries(l, i) ==
  IF i > LastIndex(l) THEN <<>>
  ELSE SubSeq(l.ents, i, MinOf(i + MaxSizePerMsg - 1, LastIndex(l)))

----------------------------------------------------------------------------
\* commitTo reports failure, and changes nothing, beyond the last index.
CanCommitTo(l, tocommit) == l.committed >= tocommit \/ LastIndex(l) >= tocommit

\* Mutant: the commit index may decrease.
CommitToAny(l, tocommit) ==
  IF LastIndex(l) >= tocommit THEN [l EXCEPT !.committed = tocommit] ELSE l

CommitTo(l, tocommit) ==
  IF l.committed < tocommit /\ CanCommitTo(l, tocommit)
  THEN [l EXCEPT !.committed = tocommit]
  ELSE l

\* Mutant: entries of earlier terms are committed by counting.
CommitsAnyTerm(l, maxIndex, term) == maxIndex > l.committed

\* maybeCommit: only an entry of the current term is committed by counting.
Commits(l, maxIndex, term) == maxIndex > l.committed /\ TermAt(l, maxIndex) = term

LogMaybeCommit(l, maxIndex, term) ==
  IF Commits(l, maxIndex, term) THEN CommitTo(l, maxIndex) ELSE l

\* append with truncateAndAppend: ents replace whatever follows index after.
LogAppend(l, after, ents) ==
  [l EXCEPT !.ents = SubSeq(@, 1, after) \o ents]

\* findConflict: the first index of ents (they start at index + 1) that the
\* log does not hold with the same term, zero if it holds them all.
FindConflict(l, index, ents) ==
  LET conflicts == {j \in 1..Len(ents) : ~MatchTerm(l, index + j, ents[j].Term)}
  IN  IF conflicts = {} THEN 0
      ELSE index + CHOOSE j \in conflicts : \A k \in conflicts : j =< k

\* The panics of maybeAppend, append and truncateAndAppend: a conflict at a
\* committed index, or a gap behind the last one.
AppendPanics(l, index, ents) ==
  LET ci == FindConflict(l, index, ents)
  IN  ci # 0 /\ (ci =< l.committed \/ ci > LastIndex(l) + 1)

\* maybeAppend, once index and its term match.
MaybeAppend(l, index, committed, ents) ==
  LET ci == FindConflict(l, index, ents)
      appended == IF ci = 0 THEN l
                  ELSE LogAppend(l, ci - 1, SubSeq(ents, ci - index, Len(ents)))
  IN  CommitTo(appended, MinOf(committed, index + Len(ents)))

\* findConflictByTerm: walk down from index to the first term not above term.
FindConflictByTerm(l, index, term) ==
  LET below == {i \in 0..index : TermAt(l, i) =< term}
  IN  IF index > LastIndex(l) THEN index
      ELSE CHOOSE i \in below : \A j \in below : j =< i

\* Mutant: the entries are kept.
RestoreKeepsEntries(l, snapshot) ==
  [l EXCEPT !.offset = Len(snapshot), !.committed = Len(snapshot)]

\* restore: the log becomes the snapshot, which is committed.
LogRestore(l, snapshot) ==
  [ents |-> snapshot, offset |-> Len(snapshot), committed |-> Len(snapshot)]
=============================================================================
