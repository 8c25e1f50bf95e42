------------------------------ MODULE Progress ------------------------------
(***************************************************************************)
(* Package tracker: what a leader knows of one peer.  The window of        *)
(* messages in flight is the queue of the last index of each message.      *)
(***************************************************************************)
EXTENDS Integers, Sequences, JointQuorum

CONSTANT MaxInflightMsgs  \* Config.MaxInflightMsgs

ASSUME MaxInflightAssumption == MaxInflightMsgs \in Nat \ {0}

StateProbe == "StateProbe"
StateReplicate == "StateReplicate"
StateSnapshot == "StateSnapshot"

ProgressStates == {StateProbe, StateReplicate, StateSnapshot}

ProgressType ==
  [Match : Nat, Next : Nat \ {0}, State : ProgressStates, PendingSnapshot : Nat,
   RecentActive : BOOLEAN, ProbeSent : BOOLEAN, Inflights : Seq(Nat)]

----------------------------------------------------------------------------
(* The window of messages in flight (inflights.go, as a queue).            *)
Full(q) == Len(q) = MaxInflightMsgs

Add(q, last) == Append(q, last)

\* Mutant: the index that is acknowledged stays in the window.
FreeLT(q, to) ==
  LET kept == {i \in 1..Len(q) : to =< q[i]}
      first == CHOOSE i \in kept : \A j \in kept : i =< j
  IN  IF kept = {} THEN <<>> ELSE SubSeq(q, first, Len(q))

\* The longest prefix of indexes that are not above to leaves the queue.
FreeLE(q, to) ==
  LET kept == {i \in 1..Len(q) : to < q[i]}
      first == CHOOSE i \in kept : \A j \in kept : i =< j
  IN  IF kept = {} THEN <<>> ELSE SubSeq(q, first, Len(q))

FreeFirstOne(q) == FreeLE(q, q[1])

----------------------------------------------------------------------------
ResetState(pr, st) ==
  [pr EXCEPT !.ProbeSent = FALSE, !.PendingSnapshot = 0,
             !.State = st, !.Inflights = <<>>]

\* From StateSnapshot the pending snapshot is taken as received.
BecomeProbe(pr) ==
  [ResetState(pr, StateProbe) EXCEPT !.Next =
     IF pr.State = StateSnapshot
     THEN MaxOf(pr.Match + 1, pr.PendingSnapshot + 1)
     ELSE pr.Match + 1]

BecomeReplicate(pr) ==
  [ResetState(pr, StateReplicate) EXCEPT !.Next = pr.Match + 1]

BecomeSnapshot(pr, sindex) ==
  [ResetState(pr, StateSnapshot) EXCEPT !.PendingSnapshot = sindex]

\* MaybeUpdate returns true when n is news.
Updates(pr, n) == pr.Match < n

MaybeUpdate(pr, n) ==
  [pr EXCEPT !.Match = IF Updates(pr, n) THEN n ELSE @,
             !.ProbeSent = @ /\ ~Updates(pr, n),
             !.Next = MaxOf(@, n + 1)]

OptimisticUpdate(pr, n) == [pr EXCEPT !.Next = n + 1]

\* MaybeDecrTo returns true unless it takes the rejection for a stale one.
Decrements(pr, rejected) ==
  IF pr.State = StateReplicate THEN rejected > pr.Match
  ELSE pr.Next - 1 = rejected

MaybeDecrTo(pr, rejected, matchHint) ==
  IF ~Decrements(pr, rejected) THEN pr
  ELSE IF pr.State = StateReplicate THEN [pr EXCEPT !.Next = pr.Match + 1]
  ELSE [pr EXCEPT !.Next = MaxOf(MinOf(rejected, matchHint + 1), 1),
                  !.ProbeSent = FALSE]

IsPaused(pr) ==
  \/ pr.State = StateProbe /\ pr.ProbeSent
  \/ pr.State = StateReplicate /\ Full(pr.Inflights)
  \/ pr.State = StateSnapshot
=============================================================================
