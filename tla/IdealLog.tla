------------------------------ MODULE IdealLog ------------------------------
(***************************************************************************)
(* What the rest of raft relies on from the log of one node: the log of    *)
(* RaftLog, changed at once by each message, applied in order, and holding *)
(* after a crash all that was acknowledged to the current leader.          *)
(***************************************************************************)
EXTENDS RaftLog

CONSTANT MaxTerm

VARIABLES
  leaders,       \* leaders[t]: log, commit and snaps of the leader of term t
  Term,          \* the term of the node
  log,           \* its log
  applied,       \* the entries the application has applied
  acked          \* Term, Index: the highest acknowledgement that was sent

vars == <<leaders, Term, log, applied, acked>>

\* In term t the log l holds what the acknowledgement a says it does.
Honours(a, t, l) ==
  /\ a.Term =< t
  /\ a.Term = t /\ t # 0 =>
       a.Index =< LastIndex(l) /\ SubSeq(l.ents, 1, a.Index) = SubSeq(leaders[t].log, 1, a.Index)

Init ==
  /\ Term = 0
  /\ log = [ents |-> <<>>, offset |-> 0, committed |-> 0]
  /\ applied = <<>>
  /\ acked = [Term |-> 0, Index |-> 0]

\* A message of the leader of term t about the entries (prev, last].
Extend(t, prev, last, commit) ==
  /\ t >= Term /\ Term' = t
  /\ LET src == leaders[t].log
         matches == MatchTerm(log, prev, IF prev = 0 THEN 0 ELSE src[prev].Term)
     IN  log' = IF prev >= log.committed /\ matches
                THEN MaybeAppend(log, prev, commit, SubSeq(src, prev + 1, last))
                ELSE log
  /\ UNCHANGED <<leaders, applied, acked>>

Install(t, i) ==
  /\ t >= Term /\ Term' = t
  /\ LET s == SubSeq(leaders[t].log, 1, i)
     IN  log' = IF i =< log.committed THEN log
                ELSE IF MatchTerm(log, i, s[i].Term) THEN CommitTo(log, i)
                ELSE LogRestore(log, s)
  /\ UNCHANGED <<leaders, applied, acked>>

\* The application moves along the committed entries.
Apply ==
  /\ Len(applied') \in (Len(applied) + 1)..log.committed
  /\ applied' = SubSeq(log.ents, 1, Len(applied'))
  /\ UNCHANGED <<leaders, Term, log, acked>>

Compact ==
  /\ log'.offset \in (log.offset + 1)..Len(applied)
  /\ log' = [log EXCEPT !.offset = log'.offset]
  /\ UNCHANGED <<leaders, Term, applied, acked>>

\* An acknowledgement to the current leader is true when it is sent.
Acknowledge ==
  /\ acked'.Term >= acked.Term
  /\ Honours(acked', Term, log)
  /\ UNCHANGED <<leaders, Term, log, applied>>

\* A crash takes the node back to an earlier log of its own, but not behind
\* what it has acknowledged or applied.
Crash ==
  /\ Term' =< Term /\ leaders' = leaders /\ acked' = acked
  /\ Honours(acked, Term', log')
  /\ Len(applied) =< log'.committed /\ log'.committed =< log.committed
  /\ SubSeq(log'.ents, 1, log'.committed) = SubSeq(log.ents, 1, log'.committed)
  /\ Len(applied') \in log'.offset..log'.committed
  /\ applied' = SubSeq(log'.ents, 1, Len(applied'))

Next ==
  \/ \E t \in 1..MaxTerm :
       LET n == Len(leaders[t].log)
           c == leaders[t].commit
       IN  \/ \E prev, last \in 0..n, commit \in 0..c : prev =< last /\ Extend(t, prev, last, commit)
           \/ \E i \in leaders[t].snaps : Install(t, i)
  \/ Apply \/ Compact \/ Acknowledge \/ Crash

Spec == Init /\ [][Next]_vars
=============================================================================
