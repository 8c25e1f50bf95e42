----------------------------- MODULE NodeProofs -----------------------------
(***************************************************************************)
(* What the operators of Progress, RaftLog and RaftNode do to one          *)
(* instance: the type of its state, the windows of its peers, and how its  *)
(* term, vote, role and messages change.  Basis, what the proofs take from *)
(* quorums and arithmetic, is a hypothesis here; RaftProofs proves it.     *)
(***************************************************************************)
EXTENDS LogProofs

----------------------------------------------------------------------------
(* The progress of a peer.                                                 *)

\* FreeLE leaves a window.
LEMMA FreeLEType ==
  ASSUME Basis, NEW q \in Seq(Nat), NEW to
  PROVE  FreeLE(q, to) \in Seq(Nat)
  <1> DEFINE kept == {i \in 1..Len(q) : to < q[i]}
             first == CHOOSE i \in kept : \A j \in kept : i =< j
  <1>1. CASE kept = {}
    BY <1>1 DEF FreeLE
  <1>2. CASE kept # {}
    <2>1. FreeLE(q, to) = SubSeq(q, first, Len(q))
      BY <1>2, Zenon DEF FreeLE
    <2>2. kept \in SUBSET Nat /\ kept \in SUBSET (1..Len(q)) /\ Len(q) \in Nat
      BY SeqLen
    <2>3. \E i \in kept : \A j \in kept : i =< j
      <3> HIDE DEF kept
      <3>1. QED
        BY <1>2, <2>2, NatMin
    <2>4. first \in 1..Len(q)
      <3> HIDE DEF kept
      <3>1. QED
        BY <2>2, <2>3, Zenon
    <2> HIDE DEF first
    <2>5. QED
      BY <2>1, <2>2, <2>4, SubSeqType
  <1>3. QED
    BY <1>1, <1>2

\* The fields of a progress that an operation may set.
LEMMA SetProgress ==
  ASSUME NEW pr \in ProgressType
  PROVE  /\ \A b \in BOOLEAN : [pr EXCEPT !.RecentActive = b] \in ProgressType
         /\ \A b \in BOOLEAN : [pr EXCEPT !.ProbeSent = b] \in ProgressType
         /\ \A n \in Nat \ {0} : [pr EXCEPT !.Next = n] \in ProgressType
         /\ \A n \in Nat : [pr EXCEPT !.Match = n] \in ProgressType
         /\ \A n \in Nat : [pr EXCEPT !.PendingSnapshot = n] \in ProgressType
         /\ \A q \in Seq(Nat) : [pr EXCEPT !.Inflights = q] \in ProgressType
  BY Zenon DEF ProgressType

\* ResetState gives a progress.
LEMMA ResetStateType ==
  ASSUME NEW pr \in ProgressType, NEW st \in ProgressStates
  PROVE  /\ ResetState(pr, st) \in ProgressType
         /\ ResetState(pr, st).Match = pr.Match /\ ResetState(pr, st).Next = pr.Next
  <1> DEFINE e == <<>>
             no == FALSE
             zero == 0
  <1>1. e \in Seq(Nat) /\ no \in BOOLEAN /\ zero \in Nat
    OBVIOUS
  <1>2. ResetState(pr, st) = [pr EXCEPT !.ProbeSent = no, !.PendingSnapshot = zero,
                                        !.State = st, !.Inflights = e]
    BY DEF ResetState
  <1> HIDE DEF e, no, zero
  <1>3. ResetState(pr, st) \in ProgressType
    BY <1>1, <1>2, Zenon DEF ProgressType
  <1>4. ResetState(pr, st).Match = pr.Match /\ ResetState(pr, st).Next = pr.Next
    BY <1>2 DEF ProgressType
  <1>5. QED
    BY <1>3, <1>4

\* BecomeProbe gives a progress: Next stays above zero.
LEMMA BecomeProbeType ==
  ASSUME NEW pr \in ProgressType
  PROVE  BecomeProbe(pr) \in ProgressType
  <1> DEFINE s == ResetState(pr, StateProbe)
             next == IF pr.State = StateSnapshot
                     THEN MaxOf(pr.Match + 1, pr.PendingSnapshot + 1) ELSE pr.Match + 1
  <1>1. s \in ProgressType
    BY ResetStateType DEF ProgressStates
  <1>2. next \in Nat \ {0}
    BY ProgressFields DEF MaxOf
  <1>3. BecomeProbe(pr) = [s EXCEPT !.Next = next]
    BY DEF BecomeProbe
  <1> HIDE DEF s, next
  <1>4. QED
    BY <1>1, <1>2, <1>3, SetProgress

\* BecomeReplicate gives a progress.
LEMMA BecomeReplicateType ==
  ASSUME NEW pr \in ProgressType
  PROVE  BecomeReplicate(pr) \in ProgressType
  <1> DEFINE s == ResetState(pr, StateReplicate)
  <1>1. s \in ProgressType
    BY ResetStateType DEF ProgressStates
  <1>2. pr.Match + 1 \in Nat \ {0}
    BY ProgressFields
  <1>3. BecomeReplicate(pr) = [s EXCEPT !.Next = pr.Match + 1]
    BY DEF BecomeReplicate
  <1> HIDE DEF s
  <1>4. QED
    BY <1>1, <1>2, <1>3, SetProgress

\* BecomeSnapshot gives a progress.
LEMMA BecomeSnapshotType ==
  ASSUME NEW pr \in ProgressType, NEW i \in Nat
  PROVE  BecomeSnapshot(pr, i) \in ProgressType
  <1> DEFINE s == ResetState(pr, StateSnapshot)
  <1>1. s \in ProgressType
    BY ResetStateType DEF ProgressStates
  <1>2. BecomeSnapshot(pr, i) = [s EXCEPT !.PendingSnapshot = i]
    BY DEF BecomeSnapshot
  <1> HIDE DEF s
  <1>3. QED
    BY <1>1, <1>2, SetProgress

\* MaybeUpdate gives a progress.
LEMMA MaybeUpdateType ==
  ASSUME NEW pr \in ProgressType, NEW n \in Nat
  PROVE  MaybeUpdate(pr, n) \in ProgressType
  <1> DEFINE match == IF Updates(pr, n) THEN n ELSE pr.Match
             probe == pr.ProbeSent /\ ~Updates(pr, n)
             next == MaxOf(pr.Next, n + 1)
  <1>1. match \in Nat /\ next \in Nat \ {0}
    BY ProgressFields DEF MaxOf
  <1>2. probe \in BOOLEAN
    OBVIOUS
  <1>3. MaybeUpdate(pr, n) = [pr EXCEPT !.Match = match, !.ProbeSent = probe, !.Next = next]
    BY DEF MaybeUpdate
  <1> HIDE DEF match, probe, next
  <1>4. QED
    BY <1>1, <1>2, <1>3, Zenon DEF ProgressType

\* OptimisticUpdate gives a progress.
LEMMA OptimisticUpdateType ==
  ASSUME NEW pr \in ProgressType, NEW n \in Nat
  PROVE  OptimisticUpdate(pr, n) \in ProgressType
  <1> DEFINE k == n + 1
  <1>1. k \in Nat \ {0} /\ OptimisticUpdate(pr, n) = [pr EXCEPT !.Next = k]
    BY DEF OptimisticUpdate
  <1> HIDE DEF k
  <1>2. QED
    BY <1>1, SetProgress

\* MaybeDecrTo gives a progress: Next never falls below one.
LEMMA MaybeDecrToType ==
  ASSUME NEW pr \in ProgressType, NEW rejected \in Nat, NEW hint \in Nat
  PROVE  MaybeDecrTo(pr, rejected, hint) \in ProgressType
  <1> DEFINE next == MaxOf(MinOf(rejected, hint + 1), 1)
  <1>1. next \in Nat \ {0} /\ pr.Match + 1 \in Nat \ {0}
    BY ProgressFields DEF MinOf, MaxOf
  <1>2. \/ MaybeDecrTo(pr, rejected, hint) = pr
        \/ MaybeDecrTo(pr, rejected, hint) = [pr EXCEPT !.Next = pr.Match + 1]
        \/ MaybeDecrTo(pr, rejected, hint) = [pr EXCEPT !.Next = next, !.ProbeSent = FALSE]
    BY DEF MaybeDecrTo
  <1> HIDE DEF next
  <1>3. QED
    BY <1>1, <1>2, Zenon DEF ProgressType

----------------------------------------------------------------------------
(* The operations of a progress.                                           *)

\* A flag says nothing of the log.
LEMMA FlagsWithin ==
  ASSUME NEW pr \in ProgressType, NEW last \in Nat, Within(pr, last), NEW b \in BOOLEAN
  PROVE  /\ [pr EXCEPT !.RecentActive = b] \in ProgressType
         /\ Within([pr EXCEPT !.RecentActive = b], last)
         /\ [pr EXCEPT !.RecentActive = b].Match = pr.Match
         /\ [pr EXCEPT !.ProbeSent = b] \in ProgressType
         /\ Within([pr EXCEPT !.ProbeSent = b], last)
         /\ [pr EXCEPT !.ProbeSent = b].Match = pr.Match
  BY SetProgress DEF ProgressType, Within

\* Neither does the window.
LEMMA WindowWithin ==
  ASSUME NEW pr \in ProgressType, NEW last \in Nat, Within(pr, last), NEW q \in Seq(Nat)
  PROVE  /\ [pr EXCEPT !.Inflights = q] \in ProgressType
         /\ Within([pr EXCEPT !.Inflights = q], last)
         /\ [pr EXCEPT !.Inflights = q].Match = pr.Match
  BY SetProgress DEF ProgressType, Within

\* ResetState changes no index but that of the pending snapshot.
LEMMA ResetStateFields ==
  ASSUME NEW pr \in ProgressType, NEW st
  PROVE  /\ ResetState(pr, st).Match = pr.Match /\ ResetState(pr, st).Next = pr.Next
         /\ ResetState(pr, st).PendingSnapshot = 0
         /\ DOMAIN ResetState(pr, st) = DOMAIN pr
  BY DEF ResetState, ProgressType

\* BecomeProbe goes back to an index that the peer has, or is said to have.
LEMMA BecomeProbeWithin ==
  ASSUME NEW pr \in ProgressType, NEW last \in Nat, Within(pr, last)
  PROVE  Within(BecomeProbe(pr), last) /\ BecomeProbe(pr).Match = pr.Match
  <1> DEFINE b == ResetState(pr, StateProbe)
             next == IF pr.State = StateSnapshot
                     THEN MaxOf(pr.Match + 1, pr.PendingSnapshot + 1) ELSE pr.Match + 1
             s == [b EXCEPT !.Next = next]
  <1>1. BecomeProbe(pr) = s
    BY DEF BecomeProbe
  <1>2. next =< last + 1
    BY ProgressFields DEF MaxOf, Within
  <1>3. b \in ProgressType /\ b.Match = pr.Match /\ b.PendingSnapshot = 0
    BY ResetStateType, ResetStateFields DEF ProgressStates
  <1> HIDE DEF next, b
  <1>4. s.Match = pr.Match /\ s.PendingSnapshot = 0 /\ s.Next = next
    BY <1>3 DEF ProgressType
  <1> HIDE DEF s
  <1>5. QED
    BY <1>1, <1>2, <1>4 DEF Within

\* BecomeReplicate goes back to the index the peer has.
LEMMA BecomeReplicateWithin ==
  ASSUME NEW pr \in ProgressType, NEW last \in Nat, Within(pr, last)
  PROVE  Within(BecomeReplicate(pr), last) /\ BecomeReplicate(pr).Match = pr.Match
  <1> DEFINE b == ResetState(pr, StateReplicate)
             s == [b EXCEPT !.Next = pr.Match + 1]
  <1>1. BecomeReplicate(pr) = s
    BY DEF BecomeReplicate
  <1>2. b \in ProgressType /\ b.Match = pr.Match /\ b.PendingSnapshot = 0
    BY ResetStateType, ResetStateFields DEF ProgressStates
  <1> HIDE DEF b
  <1>3. s.Match = pr.Match /\ s.PendingSnapshot = 0 /\ s.Next = pr.Match + 1
    BY <1>2 DEF ProgressType
  <1> HIDE DEF s
  <1>4. QED
    BY <1>1, <1>3, ProgressFields DEF Within

\* BecomeSnapshot waits for an index of the log.
LEMMA BecomeSnapshotWithin ==
  ASSUME NEW pr \in ProgressType, NEW last \in Nat, Within(pr, last), NEW i \in Nat, i =< last
  PROVE  Within(BecomeSnapshot(pr, i), last) /\ BecomeSnapshot(pr, i).Match = pr.Match
  <1> DEFINE b == ResetState(pr, StateSnapshot)
             s == [b EXCEPT !.PendingSnapshot = i]
  <1>1. BecomeSnapshot(pr, i) = s
    BY DEF BecomeSnapshot
  <1>2. b \in ProgressType /\ b.Match = pr.Match /\ b.Next = pr.Next
    BY ResetStateType, ResetStateFields DEF ProgressStates
  <1> HIDE DEF b
  <1>3. s.Match = pr.Match /\ s.PendingSnapshot = i /\ s.Next = pr.Next
    BY <1>2 DEF ProgressType
  <1> HIDE DEF s
  <1>4. QED
    BY <1>1, <1>3 DEF Within

\* MaybeUpdate takes an index of the log.
LEMMA MaybeUpdateWithin ==
  ASSUME NEW pr \in ProgressType, NEW last \in Nat, Within(pr, last), NEW n \in Nat, n =< last
  PROVE  /\ Within(MaybeUpdate(pr, n), last)
         /\ MaybeUpdate(pr, n).Match = IF Updates(pr, n) THEN n ELSE pr.Match
  <1> DEFINE s == MaybeUpdate(pr, n)
  <1>1. /\ s.Match = (IF Updates(pr, n) THEN n ELSE pr.Match) /\ s.Next = MaxOf(pr.Next, n + 1)
        /\ s.PendingSnapshot = pr.PendingSnapshot
    BY DEF MaybeUpdate, ProgressType
  <1> HIDE DEF s
  <1>2. Within(s, last)
    BY <1>1, ProgressFields DEF Within, MaxOf
  <1>3. QED
    BY <1>1, <1>2 DEF s

\* MaybeDecrTo only goes back.
LEMMA MaybeDecrToWithin ==
  ASSUME NEW pr \in ProgressType, NEW last \in Nat, Within(pr, last), NEW rejected \in Nat,
         NEW hint \in Nat
  PROVE  Within(MaybeDecrTo(pr, rejected, hint), last) /\ MaybeDecrTo(pr, rejected, hint).Match = pr.Match
  <1> DEFINE s == MaybeDecrTo(pr, rejected, hint)
             next == MaxOf(MinOf(rejected, hint + 1), 1)
  <1>1. CASE ~Decrements(pr, rejected)
    BY <1>1 DEF MaybeDecrTo
  <1>2. CASE Decrements(pr, rejected) /\ pr.State = StateReplicate
    <2>1. s = [pr EXCEPT !.Next = pr.Match + 1]
      BY <1>2 DEF MaybeDecrTo
    <2>2. QED
      BY <2>1, ProgressFields DEF Within, ProgressType
  <1>3. CASE Decrements(pr, rejected) /\ pr.State # StateReplicate
    <2>1. s = [pr EXCEPT !.Next = next, !.ProbeSent = FALSE]
      BY <1>3 DEF MaybeDecrTo
    <2>2. pr.Next - 1 = rejected
      BY <1>3 DEF Decrements
    <2>3. next =< last + 1
      BY <2>2, ProgressFields DEF Within, MaxOf, MinOf
    <2> HIDE DEF next
    <2>4. s.Match = pr.Match /\ s.Next = next /\ s.PendingSnapshot = pr.PendingSnapshot
      BY <2>1 DEF ProgressType
    <2> HIDE DEF s
    <2>5. QED
      BY <2>3, <2>4 DEF Within, s
  <1>4. QED
    BY <1>1, <1>2, <1>3

----------------------------------------------------------------------------
(* The window of messages in flight.                                       *)

\* An empty window is in order.
LEMMA EmptyWindow ==
  ASSUME NEW pr, pr.Inflights = <<>>, pr.State = StateReplicate => pr.Match < pr.Next
  PROVE  Windowed(pr)
  BY MaxInflightAssumption DEF Windowed

\* Next may grow.
LEMMA SameWindow ==
  ASSUME NEW pr \in ProgressType, NEW s, Windowed(pr), s.Inflights = pr.Inflights,
         s.State = pr.State, s.Match = pr.Match, s.Next \in Nat, pr.Next =< s.Next
  PROVE  Windowed(s)
  <1>1. pr.Match \in Nat /\ pr.Next \in Nat /\ pr.Inflights \in Seq(Nat)
    BY ProgressFields
  <1>2. Len(pr.Inflights) \in Nat /\ \A i \in 1..Len(pr.Inflights) : pr.Inflights[i] \in Nat
    BY <1>1, SeqLen
  <1> QED
    BY <1>1, <1>2 DEF Windowed

\* The window after more messages: t are their last indexes.
LEMMA WindowGrows ==
  ASSUME NEW pr \in ProgressType, Windowed(pr), pr.State = StateReplicate, NEW t \in Seq(Nat),
         Len(pr.Inflights) + Len(t) =< MaxInflightMsgs,
         NEW s, s.State = StateReplicate, s.Match = pr.Match, s.Next \in Nat, pr.Next =< s.Next,
         s.Inflights = pr.Inflights \o t,
         \A i \in 1..Len(t) : pr.Next =< t[i] /\ t[i] < s.Next,
         \A i, j \in 1..Len(t) : i < j => t[i] < t[j]
  PROVE  Windowed(s)
  <1> DEFINE q == pr.Inflights
             n == Len(q)
             x == s.Inflights
  <1>1. pr.Match \in Nat /\ pr.Next \in Nat /\ q \in Seq(Nat) /\ n \in Nat /\ Len(t) \in Nat
    BY ProgressFields, SeqLen
  <1>2. \A i \in 1..n : q[i] \in Nat
    BY <1>1
  <1>3. \A i \in 1..Len(t) : t[i] \in Nat
    OBVIOUS
  <1>4. x = q \o t
    OBVIOUS
  <1>5. /\ n + Len(t) =< MaxInflightMsgs
        /\ pr.Match < pr.Next
        /\ \A i \in 1..n : pr.Match < q[i] /\ q[i] < pr.Next
        /\ \A i, j \in 1..n : i < j => q[i] < q[j]
    BY Zenon DEF Windowed
  <1> HIDE DEF q, x
  <1>6. /\ Len(x) = n + Len(t)
        /\ \A i \in 1..n : x[i] = q[i]
        /\ \A i \in 1..Len(t) : x[n + i] = t[i]
    BY <1>1, <1>4
  <1> HIDE DEF n
  <1>7. \A i \in 1..Len(x) : i \in 1..n \/ (i - n \in 1..Len(t) /\ x[i] = t[i - n])
    <2> TAKE i \in 1..Len(x)
    <2>1. CASE i =< n
      BY <1>1, <1>6, <2>1
    <2>2. CASE n < i
      <3>1. i - n \in 1..Len(t) /\ n + (i - n) = i
        BY <1>1, <1>6, <2>2
      <3> QED
        BY <1>6, <3>1
    <2> QED
      BY <1>1, <1>6, <2>1, <2>2
  <1>8. \A i \in 1..Len(x) : pr.Match < x[i] /\ x[i] < s.Next
    <2> TAKE i \in 1..Len(x)
    <2>1. CASE i \in 1..n
      <3>1. x[i] = q[i] /\ q[i] \in Nat /\ pr.Match < q[i] /\ q[i] < pr.Next
        BY <1>2, <1>5, <1>6, <2>1
      <3> QED
        BY <1>1, <3>1
    <2>2. CASE i - n \in 1..Len(t) /\ x[i] = t[i - n]
      <3>1. x[i] \in Nat /\ pr.Next =< x[i] /\ x[i] < s.Next
        BY <1>3, <2>2
      <3>2. pr.Match < pr.Next
        BY <1>5
      <3> QED
        BY <1>1, <3>1, <3>2
    <2> QED
      BY <1>7, <2>1, <2>2
  <1>9. ASSUME NEW i \in 1..Len(x), NEW j \in 1..Len(x), i < j
        PROVE  x[i] < x[j]
    <2>1. CASE i \in 1..n /\ j \in 1..n
      BY <1>5, <1>6, <1>9, <2>1
    <2>2. CASE i \in 1..n /\ j - n \in 1..Len(t) /\ x[j] = t[j - n]
      <3>1. x[i] = q[i] /\ q[i] < pr.Next /\ q[i] \in Nat
        BY <1>2, <1>5, <1>6, <2>2
      <3>2. pr.Next =< x[j] /\ x[j] \in Nat
        BY <1>3, <2>2
      <3> QED
        BY <1>1, <3>1, <3>2
    <2>3. CASE i - n \in 1..Len(t) /\ x[i] = t[i - n] /\ j - n \in 1..Len(t) /\ x[j] = t[j - n]
      <3>1. i - n < j - n
        BY <1>1, <1>6, <1>9
      <3> QED
        BY <2>3, <3>1
    <2>4. i \notin 1..n => j \notin 1..n
      BY <1>1, <1>6, <1>9
    <2> QED
      BY <1>7, <2>1, <2>2, <2>3, <2>4
  <1>10. Len(x) =< MaxInflightMsgs /\ pr.Match < s.Next
    BY <1>1, <1>5, <1>6
  <1>11. s.Inflights = x
    BY DEF x
  <1> QED
    BY <1>8, <1>9, <1>10, <1>11 DEF Windowed

\* What FreeLE leaves is above what is freed.
LEMMA FreeLEWindow ==
  ASSUME Basis, NEW q \in Seq(Nat), NEW to \in Nat, \A i, j \in 1..Len(q) : i < j => q[i] < q[j]
  PROVE  LET x == FreeLE(q, to)
         IN  /\ Len(x) =< Len(q)
             /\ \A i \in 1..Len(x) : to < x[i] /\ \E j \in 1..Len(q) : x[i] = q[j]
             /\ \A i, j \in 1..Len(x) : i < j => x[i] < x[j]
  <1> DEFINE kept == {i \in 1..Len(q) : to < q[i]}
             first == CHOOSE i \in kept : \A j \in kept : i =< j
             x == FreeLE(q, to)
  <1>1. Len(q) \in Nat /\ \A i \in 1..Len(q) : q[i] \in Nat
    BY SeqLen
  <1>2. CASE kept = {}
    <2>1. x = <<>>
      BY <1>2 DEF FreeLE
    <2>2. Len(x) = 0
      BY <2>1
    <2> QED
      BY <1>1, <2>2
  <1>3. CASE kept # {}
    <2>1. x = SubSeq(q, first, Len(q))
      BY <1>3, Zenon DEF FreeLE
    <2>2. kept \in SUBSET Nat
      BY <1>1
    <2>3. \E i \in kept : \A j \in kept : i =< j
      <3> HIDE DEF kept
      <3> QED
        BY <1>3, <2>2, NatMin
    <2>4. first \in kept
      <3> HIDE DEF kept
      <3> QED
        BY <2>3
    <2> HIDE DEF first, x
    <2>5. first \in 1..Len(q) /\ to < q[first]
      BY <2>4
    <2>6. Len(x) = Len(q) - first + 1
      BY <1>1, <2>1, <2>5
    <2>7. \A i \in 1..Len(x) : x[i] = q[first + i - 1] /\ first + i - 1 \in 1..Len(q)
      BY <1>1, <2>1, <2>5, <2>6
    <2>8. \A i \in 1..Len(x) : i > 1 => q[first] < q[first + i - 1]
      BY <1>1, <2>5, <2>7
    <2>9. \A i \in 1..Len(x) : to < x[i]
      <3> TAKE i \in 1..Len(x)
      <3>1. CASE i = 1
        <4>1. x[i] = q[first]
          BY <1>1, <2>5, <2>7, <3>1
        <4> QED
          BY <2>5, <4>1
      <3>2. CASE i > 1
        <4>1. x[i] = q[first + i - 1] /\ q[first] < x[i] /\ x[i] \in Nat /\ q[first] \in Nat
          BY <1>1, <2>5, <2>7, <2>8, <3>2, Zenon
        <4> QED
          BY <2>5, <4>1
      <3> QED
        BY <1>1, <2>6, <3>1, <3>2
    <2>10. ASSUME NEW i \in 1..Len(x), NEW j \in 1..Len(x), i < j
           PROVE  x[i] < x[j]
      <3>1. first + i - 1 < first + j - 1
        BY <1>1, <2>5, <2>6, <2>10
      <3> QED
        BY <2>7, <3>1, Zenon
    <2>11. Len(x) =< Len(q)
      BY <1>1, <2>5, <2>6
    <2>12. \A i \in 1..Len(x) : \E j \in 1..Len(q) : x[i] = q[j]
      BY <2>7, Zenon
    <2> QED
      BY <2>9, <2>10, <2>11, <2>12 DEF x
  <1> QED
    BY <1>2, <1>3

\* An acknowledgement or a heartbeat's answer frees a part of the window.
LEMMA WindowShrinks ==
  ASSUME Basis, NEW pr \in ProgressType, Windowed(pr), pr.State = StateReplicate, NEW to \in Nat,
         NEW s, s.State = StateReplicate, s.Match \in Nat, s.Next \in Nat,
         s.Match = pr.Match \/ s.Match =< to, s.Match < s.Next, pr.Next =< s.Next,
         s.Inflights = FreeLE(pr.Inflights, to)
  PROVE  Windowed(s)
  <1> DEFINE q == pr.Inflights
             x == FreeLE(q, to)
  <1>1. pr.Match \in Nat /\ pr.Next \in Nat /\ q \in Seq(Nat) /\ Len(q) \in Nat
        /\ \A i \in 1..Len(q) : q[i] \in Nat
    BY ProgressFields, SeqLen
  <1>2. /\ Len(q) =< MaxInflightMsgs
        /\ \A i \in 1..Len(q) : pr.Match < q[i] /\ q[i] < pr.Next
        /\ \A i, j \in 1..Len(q) : i < j => q[i] < q[j]
    BY DEF Windowed
  <1> HIDE DEF q
  <1>3. /\ Len(x) =< Len(q)
        /\ \A i \in 1..Len(x) : to < x[i] /\ \E j \in 1..Len(q) : x[i] = q[j]
        /\ \A i, j \in 1..Len(x) : i < j => x[i] < x[j]
    BY <1>1, <1>2, FreeLEWindow
  <1>4. x \in Seq(Nat)
    BY <1>1, FreeLEType
  <1>5. Len(x) \in Nat /\ \A i \in 1..Len(x) : x[i] \in Nat
    BY <1>4, SeqLen
  <1>6. s.Inflights = x
    BY DEF q
  <1> HIDE DEF x
  <1>7. \A i \in 1..Len(x) : s.Match < x[i] /\ x[i] < s.Next
    <2> TAKE i \in 1..Len(x)
    <2>1. PICK j \in 1..Len(q) : x[i] = q[j]
      BY <1>3
    <2>2. q[j] \in Nat /\ pr.Match < q[j] /\ q[j] < pr.Next
      BY <1>1, <1>2
    <2>3. to < x[i]
      BY <1>3
    <2> QED
      BY <1>1, <2>1, <2>2, <2>3
  <1>8. Len(x) =< MaxInflightMsgs
    BY <1>1, <1>2, <1>3, <1>5, MaxInflightAssumption
  <1> QED
    BY <1>3, <1>6, <1>7, <1>8 DEF Windowed

\* The flags say nothing of it.
LEMMA FlagsWindowed ==
  ASSUME NEW pr \in ProgressType, Windowed(pr), NEW b \in BOOLEAN
  PROVE  /\ Windowed([pr EXCEPT !.RecentActive = b])
         /\ [pr EXCEPT !.RecentActive = b].Inflights = pr.Inflights
         /\ Windowed([pr EXCEPT !.ProbeSent = b])
         /\ [pr EXCEPT !.ProbeSent = b].Inflights = pr.Inflights
  <1> DEFINE x == [pr EXCEPT !.RecentActive = b]
             y == [pr EXCEPT !.ProbeSent = b]
  <1>1. /\ x.Inflights = pr.Inflights /\ x.State = pr.State /\ x.Match = pr.Match /\ x.Next = pr.Next
        /\ y.Inflights = pr.Inflights /\ y.State = pr.State /\ y.Match = pr.Match /\ y.Next = pr.Next
    BY DEF ProgressType
  <1>2. pr.Next \in Nat /\ pr.Next =< pr.Next
    BY ProgressFields
  <1> HIDE DEF x, y
  <1>3. Windowed(x) /\ Windowed(y)
    BY <1>1, <1>2, SameWindow
  <1> QED
    BY <1>1, <1>3 DEF x, y

\* A change of state begins with an empty window.
LEMMA BecomeWindowed ==
  ASSUME NEW pr \in ProgressType
  PROVE  /\ Windowed(BecomeProbe(pr)) /\ BecomeProbe(pr).Inflights = <<>>
         /\ Windowed(BecomeReplicate(pr)) /\ BecomeReplicate(pr).Inflights = <<>>
         /\ \A i : Windowed(BecomeSnapshot(pr, i)) /\ BecomeSnapshot(pr, i).Inflights = <<>>
  <1>1. BecomeProbe(pr).Inflights = <<>> /\ BecomeProbe(pr).State = StateProbe
    BY DEF BecomeProbe, ResetState, ProgressType
  <1>2. \A i : BecomeSnapshot(pr, i).Inflights = <<>> /\ BecomeSnapshot(pr, i).State = StateSnapshot
    BY DEF BecomeSnapshot, ResetState, ProgressType
  <1>3. /\ BecomeReplicate(pr).Inflights = <<>> /\ BecomeReplicate(pr).Match = pr.Match
        /\ BecomeReplicate(pr).Next = pr.Match + 1
    BY DEF BecomeReplicate, ResetState, ProgressType
  <1>4. pr.Match < pr.Match + 1
    BY ProgressFields
  <1>5. Windowed(BecomeProbe(pr))
    BY <1>1, EmptyWindow DEF StateProbe, StateReplicate
  <1>6. \A i : Windowed(BecomeSnapshot(pr, i))
    BY <1>2, EmptyWindow DEF StateSnapshot, StateReplicate
  <1>7. Windowed(BecomeReplicate(pr))
    BY <1>3, <1>4, EmptyWindow
  <1> QED
    BY <1>1, <1>2, <1>3, <1>5, <1>6, <1>7

\* MaybeUpdate leaves the window alone: a stale index is below it, and a leader's own is empty.
LEMMA MaybeUpdateWindowed ==
  ASSUME NEW pr \in ProgressType, Windowed(pr), NEW n \in Nat,
         ~Updates(pr, n) \/ pr.Inflights = <<>>
  PROVE  Windowed(MaybeUpdate(pr, n)) /\ MaybeUpdate(pr, n).Inflights = pr.Inflights
  <1> DEFINE s == MaybeUpdate(pr, n)
  <1>1. /\ s.Match = (IF Updates(pr, n) THEN n ELSE pr.Match) /\ s.Next = MaxOf(pr.Next, n + 1)
        /\ s.Inflights = pr.Inflights /\ s.State = pr.State
    BY DEF MaybeUpdate, ProgressType
  <1>2. s.Next \in Nat /\ pr.Next =< s.Next /\ n < s.Next
    BY <1>1, ProgressFields DEF MaxOf
  <1> HIDE DEF s
  <1>3. CASE ~Updates(pr, n)
    <2>1. s.Match = pr.Match
      BY <1>1, <1>3
    <2>2. Windowed(s)
      BY <1>1, <1>2, <2>1, SameWindow
    <2> QED
      BY <1>1, <2>2 DEF s
  <1>4. CASE Updates(pr, n) /\ pr.Inflights = <<>>
    <2>1. s.Match = n /\ s.Inflights = <<>>
      BY <1>1, <1>4
    <2>2. Windowed(s)
      BY <1>2, <2>1, EmptyWindow
    <2> QED
      BY <1>1, <2>2 DEF s
  <1> QED
    BY <1>3, <1>4

\* What is acknowledged leaves the window.
LEMMA AcknowledgedWindowed ==
  ASSUME Basis, NEW pr \in ProgressType, Windowed(pr), NEW n \in Nat, Updates(pr, n)
  PROVE  Windowed(Acknowledged(pr, n))
  <1> DEFINE up == MaybeUpdate(pr, n)
             probe == BecomeProbe(up)
             s == [up EXCEPT !.Inflights = FreeLE(@, n)]
  <1>1. up \in ProgressType /\ probe \in ProgressType
    BY MaybeUpdateType, BecomeProbeType
  <1>2. /\ up.Match = n /\ up.Next = MaxOf(pr.Next, n + 1)
        /\ up.Inflights = pr.Inflights /\ up.State = pr.State
    BY DEF MaybeUpdate, ProgressType
  <1>3. up.Next \in Nat /\ pr.Next =< up.Next /\ n < up.Next
    BY <1>2, ProgressFields DEF MaxOf
  <1>4. Windowed(BecomeReplicate(up)) /\ Windowed(BecomeReplicate(probe))
    BY <1>1, BecomeWindowed
  <1> HIDE DEF up, probe
  <1>5. CASE up.State = StateProbe
    BY <1>4, <1>5 DEF Acknowledged, up
  <1>6. CASE up.State = StateSnapshot
    <2>1. up.Inflights = <<>> /\ up.State # StateReplicate
      BY <1>2, <1>6 DEF Windowed, StateSnapshot, StateReplicate
    <2>2. Windowed(up)
      BY <2>1, EmptyWindow
    <2>3. Acknowledged(pr, n) = up \/ Acknowledged(pr, n) = BecomeReplicate(probe)
      BY <1>6 DEF Acknowledged, up, probe, StateProbe, StateSnapshot
    <2> QED
      BY <1>4, <2>2, <2>3, Zenon
  <1>7. CASE up.State = StateReplicate
    <2>1. Acknowledged(pr, n) = s
      BY <1>7 DEF Acknowledged, up, StateProbe, StateSnapshot, StateReplicate
    <2>2. /\ s.Match = n /\ s.Next = up.Next /\ s.State = StateReplicate
          /\ s.Inflights = FreeLE(pr.Inflights, n)
      BY <1>1, <1>2, <1>7 DEF ProgressType
    <2> HIDE DEF s
    <2>3. pr.State = StateReplicate /\ s.Match \in Nat /\ s.Match =< n /\ s.Match < s.Next
      BY <1>2, <1>3, <1>7, <2>2
    <2>4. Windowed(s)
      BY <1>3, <2>2, <2>3, WindowShrinks
    <2> QED
      BY <2>1, <2>4
  <1>8. up.State \in {StateProbe, StateReplicate, StateSnapshot}
    BY <1>1, ProgressFields DEF ProgressStates
  <1> QED
    BY <1>5, <1>6, <1>7, <1>8

\* A rejection is believed by a peer without a window, or ends it.
LEMMA RejectedWindowed ==
  ASSUME NEW pr \in ProgressType, Windowed(pr), NEW rejected \in Nat, NEW hint \in Nat
  PROVE  LET decr == MaybeDecrTo(pr, rejected, hint)
         IN  Windowed(IF decr.State = StateReplicate THEN BecomeProbe(decr) ELSE decr)
  <1> DEFINE decr == MaybeDecrTo(pr, rejected, hint)
             next == MaxOf(MinOf(rejected, hint + 1), 1)
  <1>1. decr \in ProgressType
    BY MaybeDecrToType
  <1>2. CASE decr.State = StateReplicate
    BY <1>1, <1>2, BecomeWindowed
  <1>3. CASE decr.State # StateReplicate
    <2>1. \/ decr = pr
          \/ decr = [pr EXCEPT !.Next = pr.Match + 1]
          \/ decr = [pr EXCEPT !.Next = next, !.ProbeSent = FALSE]
      BY DEF MaybeDecrTo
    <2> HIDE DEF next
    <2>2. decr.State = pr.State /\ decr.Inflights = pr.Inflights
      BY <2>1, Zenon DEF ProgressType
    <2>3. decr.Inflights = <<>>
      BY <1>3, <2>2 DEF Windowed
    <2> HIDE DEF decr
    <2>4. Windowed(decr)
      BY <1>3, <2>3, EmptyWindow
    <2> QED
      BY <1>3, <2>4 DEF decr
  <1> QED
    BY <1>2, <1>3

\* A heartbeat's answer frees one slot of a full window.
LEMMA FreeFirstWindowed ==
  ASSUME Basis, NEW pr \in ProgressType, Windowed(pr), pr.State = StateReplicate, Full(pr.Inflights)
  PROVE  Windowed([pr EXCEPT !.Inflights = FreeFirstOne(pr.Inflights)])
  <1> DEFINE s == [pr EXCEPT !.Inflights = FreeFirstOne(pr.Inflights)]
             to == pr.Inflights[1]
  <1>1. pr.Match \in Nat /\ pr.Next \in Nat /\ pr.Inflights \in Seq(Nat)
    BY ProgressFields
  <1>2. Len(pr.Inflights) > 0 /\ Len(pr.Inflights) \in Nat
    BY <1>1, MaxInflightAssumption, SeqLen DEF Full
  <1>3. to \in Nat
    BY <1>1, <1>2
  <1>4. pr.Match < pr.Next
    BY DEF Windowed
  <1>5. /\ s.Match = pr.Match /\ s.Next = pr.Next /\ s.State = StateReplicate
        /\ s.Inflights = FreeLE(pr.Inflights, to)
    BY DEF ProgressType, FreeFirstOne
  <1>6. pr.Next =< pr.Next
    BY <1>1
  <1> HIDE DEF s, to
  <1>7. Windowed(s)
    BY <1>1, <1>3, <1>4, <1>5, <1>6, WindowShrinks
  <1> QED
    BY <1>7 DEF s

----------------------------------------------------------------------------
(* The operations of the log.                                             *)

\* term never fails on an index.
LEMMA TermAtType ==
  ASSUME NEW l \in LogType, NEW i \in Nat
  PROVE  TermAt(l, i) \in Nat
  <1>1. CASE i \in 1..Len(l.ents)
    <2>1. l.ents[i] \in Entry
      BY <1>1, LogFields
    <2>2. l.ents[i].Term \in Nat
      BY <2>1 DEF Entry
    <2>3. QED
      BY <2>2 DEF TermAt
  <1>2. CASE i \notin 1..Len(l.ents)
    BY <1>2, LogFields DEF TermAt
  <1>3. QED
    BY <1>1, <1>2

\* lastTerm never fails.
LEMMA LastTermType ==
  ASSUME NEW l \in LogType
  PROVE  LastTerm(l) \in Nat
  BY LogFields, TermAtType DEF LastTerm

\* entries hands out entries of the log, at most MaxSizePerMsg of them.
LEMMA EntriesType ==
  ASSUME NEW l \in LogType, NEW i \in Nat \ {0}
  PROVE  /\ Entries(l, i) \in Seq(Entry)
         /\ i =< LastIndex(l) => i + Len(Entries(l, i)) - 1 =< LastIndex(l)
  <1> DEFINE j == MinOf(i + MaxSizePerMsg - 1, LastIndex(l))
  <1>1. LastIndex(l) \in Nat /\ LastIndex(l) = Len(l.ents) /\ l.ents \in Seq(Entry)
    BY LogFields
  <1>2. j \in 0..Len(l.ents)
    BY <1>1, MaxSizeAssumption DEF MinOf
  <1> HIDE DEF j
  <1>3. /\ SubSeq(l.ents, i, j) \in Seq(Entry)
        /\ Len(SubSeq(l.ents, i, j)) = IF i =< j THEN j - i + 1 ELSE 0
    BY <1>1, <1>2, SubSeqType
  <1>4. CASE i > LastIndex(l)
    <2>1. Entries(l, i) = <<>>
      BY <1>4 DEF Entries
    <2>2. QED
      BY <1>1, <1>4, <2>1
  <1>5. CASE ~(i > LastIndex(l))
    <2>1. Entries(l, i) = SubSeq(l.ents, i, j)
      BY <1>5, Zenon DEF Entries, j
    <2>2. j \in Nat /\ j =< LastIndex(l)
      BY <1>1, <1>2
    <2>3. Len(Entries(l, i)) = IF i =< j THEN j - i + 1 ELSE 0
      BY <1>3, <2>1
    <2>4. i + Len(Entries(l, i)) - 1 =< LastIndex(l)
      BY <1>1, <1>5, <2>2, <2>3
    <2>5. QED
      BY <1>3, <2>1, <2>4
  <1>6. QED
    BY <1>4, <1>5

\* A snapshot is a prefix of the log.
LEMMA SnapshotPrefix ==
  ASSUME NEW l \in LogType
  PROVE  SubSeq(l.ents, 1, l.offset) \in Seq(Entry)
  BY LogFields, SubSeqType

\* commitTo keeps the commit index within the log.
LEMMA CommitToType ==
  ASSUME NEW l \in LogType, NEW i \in Nat
  PROVE  CommitTo(l, i) \in LogType
  <1>1. CASE l.committed < i /\ CanCommitTo(l, i)
    <2>1. i =< Len(l.ents)
      BY <1>1, LogFields DEF CanCommitTo
    <2>2. [l EXCEPT !.committed = i] \in LogType
      BY <1>1, <2>1, LogFields DEF LogType
    <2>3. QED
      BY <1>1, <2>2 DEF CommitTo
  <1>2. QED
    BY <1>1 DEF CommitTo

\* maybeCommit keeps the commit index within the log.
LEMMA LogMaybeCommitType ==
  ASSUME NEW l \in LogType, NEW i \in Nat, NEW t
  PROVE  LogMaybeCommit(l, i, t) \in LogType
  BY CommitToType DEF LogMaybeCommit

\* findConflict returns zero or the index of one of the entries.
LEMMA FindConflictType ==
  ASSUME Basis, NEW l \in LogType, NEW index \in Nat, NEW e \in Seq(Entry)
  PROVE  FindConflict(l, index, e) = 0 \/ FindConflict(l, index, e) \in (index + 1)..(index + Len(e))
  <1> DEFINE conflicts == {j \in 1..Len(e) : ~MatchTerm(l, index + j, e[j].Term)}
  <1>1. CASE conflicts = {}
    BY <1>1 DEF FindConflict
  <1>2. CASE conflicts # {}
    <2>1. FindConflict(l, index, e) = index + CHOOSE j \in conflicts : \A k \in conflicts : j =< k
      BY <1>2 DEF FindConflict
    <2>2. conflicts \in SUBSET Nat /\ conflicts \in SUBSET (1..Len(e))
      BY SeqLen
    <2> HIDE DEF conflicts
    <2>3. \E j \in conflicts : \A k \in conflicts : j =< k
      BY <1>2, <2>2, NatMin
    <2>4. (CHOOSE j \in conflicts : \A k \in conflicts : j =< k) \in 1..Len(e)
      BY <2>2, <2>3, Zenon
    <2>5. QED
      BY <2>1, <2>4, SeqLen
  <1>3. QED
    BY <1>1, <1>2

\* maybeAppend, where it does not panic, gives a log.
LEMMA MaybeAppendType ==
  ASSUME Basis, NEW l \in LogType, NEW index \in Nat, NEW committed \in Nat, NEW e \in Seq(Entry),
         ~AppendPanics(l, index, e)
  PROVE  MaybeAppend(l, index, committed, e) \in LogType
  <1> DEFINE ci == FindConflict(l, index, e)
             suffix == SubSeq(e, ci - index, Len(e))
             appended == IF ci = 0 THEN l ELSE LogAppend(l, ci - 1, suffix)
  <1>1. MaybeAppend(l, index, committed, e) = CommitTo(appended, MinOf(committed, index + Len(e)))
    BY DEF MaybeAppend
  <1>2. Len(e) \in Nat /\ index + Len(e) \in Nat
    BY SeqLen
  <1>3. Len(e) \in Nat /\ MinOf(committed, index + Len(e)) \in Nat
    BY <1>2, MinMaxNat, Zenon
  <1>4. appended \in LogType
    <2>1. CASE ci = 0
      BY <2>1
    <2>2. CASE ci # 0
      <3>1. ci \in (index + 1)..(index + Len(e))
        BY <2>2, FindConflictType
      <3>2. ci > l.committed /\ ci =< LastIndex(l) + 1
        BY <2>2, <3>1, LogFields DEF AppendPanics
      <3> HIDE DEF ci
      <3>3. ci - 1 \in l.committed..LastIndex(l)
        BY <1>3, <3>1, <3>2, LogFields
      <3>4. suffix \in Seq(Entry)
        BY <1>3, <3>1, SubSeqType
      <3> HIDE DEF suffix
      <3>5. QED
        BY <2>2, <3>3, <3>4, LogAppendType
    <2>3. QED
      BY <2>1, <2>2
  <1> HIDE DEF appended
  <1>5. QED
    BY <1>1, <1>3, <1>4, CommitToType

\* findConflictByTerm stops at an index: the term at 0 is 0.
LEMMA FindConflictByTermType ==
  ASSUME Basis, NEW l \in LogType, NEW index \in Nat, NEW term \in Nat
  PROVE  FindConflictByTerm(l, index, term) \in Nat
  <1> DEFINE below == {i \in 0..index : TermAt(l, i) =< term}
  <1>1. CASE index > LastIndex(l)
    BY <1>1 DEF FindConflictByTerm
  <1>2. CASE ~(index > LastIndex(l))
    <2>1. FindConflictByTerm(l, index, term) = CHOOSE i \in below : \A j \in below : j =< i
      BY <1>2 DEF FindConflictByTerm
    <2>2. TermAt(l, 0) = 0
      BY LogFields DEF TermAt
    <2>3. 0 \in below /\ below \in SUBSET Nat /\ \A i \in below : i =< index
      BY <2>2
    <2> HIDE DEF below
    <2>4. \E i \in below : \A j \in below : j =< i
      BY <2>3, NatMax, Zenon DEF Basis
    <2>5. (CHOOSE i \in below : \A j \in below : j =< i) \in below
      BY <2>4
    <2>6. QED
      BY <2>1, <2>3, <2>5, Zenon
  <1>3. QED
    BY <1>1, <1>2

\* restore gives a log that ends with the snapshot.
LEMMA LogRestoreType ==
  ASSUME NEW l \in LogType, NEW s \in Seq(Entry), Len(s) > 0
  PROVE  LogRestore(l, s) \in LogType /\ LastIndex(LogRestore(l, s)) = Len(s)
  BY SeqLen DEF LogRestore, LogType, LastIndex

\* What an election depends on is left alone.
Stays(r, s) ==
  /\ s \in NodeType /\ s.id = r.id /\ s.Term = r.Term /\ s.Vote = r.Vote
  /\ s.state = r.state /\ s.granted \subseteq r.granted

\* No new message speaks for a leader or grants a vote.
Silent(r, s) ==
  \A m \in s.msgs : m \in r.msgs \/ (m.type \notin LeaderMsgs /\ m.type # "MsgVoteResp")

\* New messages that speak for a leader are those of the node, in its term.
Led(r, s) ==
  \A m \in s.msgs : m \in r.msgs \/
    (m.type # "MsgVoteResp" /\ (m.type \in LeaderMsgs => m.from = r.id /\ m.Term = r.Term))

LeaderStep(r, s) == Stays(r, s) /\ Led(r, s)

MemberStep(r, s) == Stays(r, s) /\ Silent(r, s)

\* Steps compose: one method calls the next.
LEMMA StepTrans ==
  ASSUME NEW r, NEW s, NEW t
  PROVE  /\ LeaderStep(r, s) /\ LeaderStep(s, t) => LeaderStep(r, t)
         /\ MemberStep(r, s) /\ MemberStep(s, t) => MemberStep(r, t)
         /\ MemberStep(r, s) => LeaderStep(r, s)
  BY DEF LeaderStep, MemberStep, Stays, Silent, Led

\* An update of a field that no election depends on.
Internal(r, s) == Stays(r, s) /\ s.msgs = r.msgs

\* A change of the log touches no election.
LEMMA SetLog ==
  ASSUME NEW r \in NodeType, NEW x \in LogType
  PROVE  Internal(r, [r EXCEPT !.log = x])
  BY Zenon DEF Internal, Stays, NodeType

\* A change of the progress map touches no election.
LEMMA SetPrs ==
  ASSUME NEW r \in NodeType, NEW x \in [Server -> ProgressType]
  PROVE  Internal(r, [r EXCEPT !.prs = x])
  BY Zenon DEF Internal, Stays, NodeType

\* A change of the known leader touches no vote.
LEMMA SetLead ==
  ASSUME NEW r \in NodeType, NEW x \in Server \cup {None}
  PROVE  Internal(r, [r EXCEPT !.lead = x])
  BY Zenon DEF Internal, Stays, NodeType

\* A change of the transferee touches no election.
LEMMA SetTransferee ==
  ASSUME NEW r \in NodeType, NEW x \in Server \cup {None}
  PROVE  Internal(r, [r EXCEPT !.leadTransferee = x])
  BY Zenon DEF Internal, Stays, NodeType

\* A change of the pending reads touches no election.
LEMMA SetReadOnly ==
  ASSUME NEW r \in NodeType, NEW x \in SUBSET ReadRequest
  PROVE  Internal(r, [r EXCEPT !.readOnly = x])
  BY Zenon DEF Internal, Stays, NodeType

\* A change of the postponed reads touches no election.
LEMMA SetPending ==
  ASSUME NEW r \in NodeType, NEW x \in Seq([Ctx : ReadCtx, From : Server])
  PROVE  Internal(r, [r EXCEPT !.pendingReads = x])
  BY Zenon DEF Internal, Stays, NodeType

\* An answer to a read touches no election.
LEMMA SetReadStates ==
  ASSUME NEW r \in NodeType, NEW x \in SUBSET [Index : Nat, Ctx : ReadCtx]
  PROVE  Internal(r, [r EXCEPT !.readStates = x])
  BY Zenon DEF Internal, Stays, NodeType

\* The panic flag touches no election.
LEMMA SetPanic ==
  ASSUME NEW r \in NodeType, NEW x \in BOOLEAN
  PROVE  Internal(r, [r EXCEPT !.panic = x])
  BY Zenon DEF Internal, Stays, NodeType

\* A change of such a field is a step of a leader and of any member.
LEMMA LocalStep ==
  ASSUME NEW r, NEW s, Internal(r, s)
  PROVE  LeaderStep(r, s) /\ MemberStep(r, s)
  BY DEF Internal, LeaderStep, MemberStep, Silent, Led

----------------------------------------------------------------------------
(* Sending.                                                                *)

\* The fields that sending leaves alone.
Data(r, s) ==
  /\ s.log = r.log /\ s.prs = r.prs /\ s.lead = r.lead /\ s.leadTransferee = r.leadTransferee
  /\ s.readOnly = r.readOnly /\ s.pendingReads = r.pendingReads

\* send only adds messages.
LEMMA SendAllStays ==
  ASSUME NEW r \in NodeType, NEW ms, \A m \in ms : Stamped(r, m) \in Message
  PROVE  /\ Stays(r, SendAll(r, ms)) /\ Data(r, SendAll(r, ms))
         /\ SendAll(r, ms).msgs = r.msgs \cup {Stamped(r, m) : m \in ms}
  <1> DEFINE out == r.msgs \cup {Stamped(r, m) : m \in ms}
             bad == r.panic \/ \E m \in ms : WrongTerm(m)
  <1>1. out \in SUBSET Message
    BY NodeFields
  <1>2. bad \in BOOLEAN
    OBVIOUS
  <1>3. SendAll(r, ms) = [r EXCEPT !.msgs = out, !.panic = bad]
    BY DEF SendAll
  <1> HIDE DEF out, bad
  <1>4. Stays(r, SendAll(r, ms))
    BY <1>1, <1>2, <1>3, ZenonT(30) DEF Stays, NodeType
  <1>5. Data(r, SendAll(r, ms)) /\ SendAll(r, ms).msgs = out
    BY <1>3 DEF Data, NodeType
  <1>6. QED
    BY <1>4, <1>5 DEF out

\* The same for one message.
LEMMA SendStays ==
  ASSUME NEW r \in NodeType, NEW m, Stamped(r, m) \in Message
  PROVE  Stays(r, Send(r, m)) /\ Send(r, m).msgs = r.msgs \cup {Stamped(r, m)}
  <1>1. \A x \in {m} : Stamped(r, x) \in Message
    OBVIOUS
  <1>2. {Stamped(r, x) : x \in {m}} = {Stamped(r, m)}
    OBVIOUS
  <1>3. QED
    BY <1>1, <1>2, SendAllStays DEF Send

\* send fills in the term and keeps kind, sender and the rest.
LEMMA StampedHeader ==
  ASSUME NEW r, NEW m
  PROVE  /\ m.type \in LeaderMsgs \cup {"MsgReadIndexResp", "MsgTimeoutNow", "MsgAppResp",
                                      "MsgHeartbeatResp", "MsgTransferLeader"} =>
              Stamped(r, m) = [m EXCEPT !.Term = r.Term]
         /\ m.type \in CampaignMsgs \cup {"MsgProp", "MsgReadIndex"} => Stamped(r, m) = m
  BY DEF Stamped, LeaderMsgs, CampaignMsgs

FromLeader(r, m) ==
  /\ Stamped(r, m) \in Message /\ Stamped(r, m).type # "MsgVoteResp"
  /\ Stamped(r, m).type \in LeaderMsgs => /\ Stamped(r, m).from = r.id
                                         /\ Stamped(r, m).Term = r.Term

FromMember(r, m) ==
  /\ Stamped(r, m) \in Message
  /\ Stamped(r, m).type \notin LeaderMsgs /\ Stamped(r, m).type # "MsgVoteResp"

\* A leader's messages carry its identity and its term.
LEMMA SendAllStep ==
  ASSUME NEW r \in NodeType, NEW ms
  PROVE  /\ (\A m \in ms : FromLeader(r, m)) => LeaderStep(r, SendAll(r, ms)) /\ Data(r, SendAll(r, ms))
         /\ (\A m \in ms : FromMember(r, m)) => MemberStep(r, SendAll(r, ms)) /\ Data(r, SendAll(r, ms))
  BY SendAllStays DEF FromLeader, FromMember, LeaderStep, MemberStep, Led, Silent

\* The same for one message.
LEMMA SendStep ==
  ASSUME NEW r \in NodeType, NEW m
  PROVE  /\ FromLeader(r, m) => LeaderStep(r, Send(r, m)) /\ Data(r, Send(r, m))
         /\ FromMember(r, m) => MemberStep(r, Send(r, m)) /\ Data(r, Send(r, m))
  <1>1. \A x \in {m} : x = m
    OBVIOUS
  <1>2. QED
    BY <1>1, SendAllStep DEF Send

\* maybeSendAppend makes a MsgApp.
LEMMA AppMsgType ==
  ASSUME NEW r \in NodeType, NEW to \in Server, NEW index \in Nat, NEW ents \in Seq(Entry)
  PROVE  FromLeader(r, AppMsg(r, to, index, ents))
  <1> DEFINE m == AppMsg(r, to, index, ents)
             logTerm == TermAt(r.log, index)
             commit == r.log.committed
             s == [type |-> "MsgApp", from |-> r.id, to |-> to, Term |-> r.Term, Index |-> index,
                   LogTerm |-> logTerm, Entries |-> ents, Commit |-> commit]
  <1>1. logTerm \in Nat /\ commit \in Nat
    BY NodeFields, TermAtType, LogFields, Zenon
  <1>2. Stamped(r, m) = s
    BY StampedHeader DEF AppMsg, LeaderMsgs
  <1> HIDE DEF m, logTerm, commit
  <1>3. s \in AppMessage
    BY <1>1, NodeFields DEF AppMessage
  <1>4. QED
    BY <1>2, <1>3 DEF FromLeader, Message, m

\* maybeSendAppend makes a MsgSnap.
LEMMA SnapMsgType ==
  ASSUME NEW r \in NodeType, NEW to \in Server
  PROVE  FromLeader(r, SnapMsg(r, to))
  <1> DEFINE snap == Snapshot(r.log)
             s == [type |-> "MsgSnap", from |-> r.id, to |-> to, Term |-> r.Term, Snapshot |-> snap]
  <1>1. snap \in Seq(Entry)
    BY NodeFields, SnapshotPrefix DEF Snapshot
  <1>2. Stamped(r, SnapMsg(r, to)) = s
    BY StampedHeader DEF SnapMsg, LeaderMsgs
  <1> HIDE DEF snap
  <1>3. s \in SnapMessage
    BY <1>1, NodeFields DEF SnapMessage
  <1>4. QED
    BY <1>2, <1>3 DEF FromLeader, Message

----------------------------------------------------------------------------
(* Sending entries.                                                        *)

\* The entries for a peer are entries of the log.
LEMMA EntriesForType ==
  ASSUME NEW r \in NodeType, NEW pr \in ProgressType
  PROVE  EntriesFor(r, pr) \in Seq(Entry)
  <1>1. r.log \in LogType /\ pr.Next \in Nat \ {0}
    BY NodeFields, ProgressFields
  <1>2. Entries(r.log, pr.Next) \in Seq(Entry)
    BY <1>1, EntriesType
  <1>3. QED
    BY <1>2 DEF EntriesFor

\* A progress stays one when a message is sent to its peer.
LEMMA AfterSendingType ==
  ASSUME NEW r \in NodeType, NEW to \in Server
  PROVE  AfterSending(r, to) \in ProgressType
  <1> DEFINE pr == r.prs[to]
             ents == EntriesFor(r, pr)
             last == pr.Next + Len(ents) - 1
             up == OptimisticUpdate(pr, last)
             window == Add(up.Inflights, last)
  <1>1. pr \in ProgressType /\ r.log.offset \in Nat
    BY NodeFields, LogFields
  <1>2. ents \in Seq(Entry)
    BY <1>1, EntriesForType
  <1>3. last \in Nat
    BY <1>1, <1>2, ProgressFields, SeqLen
  <1>4. up \in ProgressType
    BY <1>1, <1>3, OptimisticUpdateType
  <1>5. window \in Seq(Nat)
    <2>1. up.Inflights \in Seq(Nat)
      BY <1>4, ProgressFields
    <2> HIDE DEF up, last
    <2>2. QED
      BY <1>3, <2>1, SeqAppend DEF Add
  <1>6. \/ AfterSending(r, to) = BecomeSnapshot(pr, r.log.offset)
        \/ AfterSending(r, to) = pr
        \/ AfterSending(r, to) = [up EXCEPT !.Inflights = window]
        \/ AfterSending(r, to) = [pr EXCEPT !.ProbeSent = TRUE]
    BY DEF AfterSending
  <1> HIDE DEF pr, up, window
  <1>7. /\ BecomeSnapshot(pr, r.log.offset) \in ProgressType
        /\ [up EXCEPT !.Inflights = window] \in ProgressType
        /\ [pr EXCEPT !.ProbeSent = TRUE] \in ProgressType
    BY <1>1, <1>4, <1>5, BecomeSnapshotType, SetProgress, Zenon
  <1>8. QED
    BY <1>1, <1>6, <1>7, Zenon

\* Either message is one of the leader.
LEMMA AppendOrSnapshotType ==
  ASSUME NEW r \in NodeType, NEW to \in Server
  PROVE  FromLeader(r, AppendOrSnapshot(r, to))
  <1> DEFINE pr == r.prs[to]
  <1>1. pr \in ProgressType
    BY NodeFields
  <1>2. pr.Next - 1 \in Nat /\ EntriesFor(r, pr) \in Seq(Entry)
    BY <1>1, ProgressFields, EntriesForType
  <1>3. QED
    BY <1>2, SnapMsgType, AppMsgType DEF AppendOrSnapshot

\* maybeSendAppend to a set of peers is a step of a leader.
LEMMA SendAppendsStep ==
  ASSUME NEW r \in NodeType, NEW tos \in SUBSET Server, NEW b
  PROVE  LeaderStep(r, SendAppends(r, tos, b)) /\ SendAppends(r, tos, b).log = r.log
  <1> DEFINE going == {to \in tos : Sends(r, to, b)}
             ms == {AppendOrSnapshot(r, to) : to \in going}
             s == SendAll(r, ms)
             prs == SentProgress(r, going)
  <1>1. \A m \in ms : FromLeader(r, m)
    BY AppendOrSnapshotType
  <1> HIDE DEF ms
  <1>2. LeaderStep(r, s) /\ Data(r, s)
    BY <1>1, SendAllStep
  <1>3. prs \in [Server -> ProgressType]
    <2>1. \A p \in Server : AfterSending(r, p) \in ProgressType /\ r.prs[p] \in ProgressType
      BY NodeFields, AfterSendingType
    <2>2. DOMAIN r.prs = Server
      BY NodeFields
    <2> HIDE DEF going
    <2>3. QED
      BY <2>1, <2>2 DEF SentProgress
  <1>4. SendAppends(r, tos, b) = [s EXCEPT !.prs = prs]
    BY DEF SendAppends, ms
  <1> HIDE DEF s, prs
  <1>5. s \in NodeType
    BY <1>2 DEF LeaderStep, Stays
  <1>6. LeaderStep(s, [s EXCEPT !.prs = prs])
    BY <1>3, <1>5, SetPrs, LocalStep
  <1>7. [s EXCEPT !.prs = prs].log = r.log
    BY <1>2, <1>5 DEF NodeType, Data
  <1>8. QED
    BY <1>2, <1>4, <1>6, <1>7, StepTrans

\* sendAppend is a step of a leader.
LEMMA SendAppendStep ==
  ASSUME NEW r \in NodeType, NEW to \in Server
  PROVE  LeaderStep(r, SendAppend(r, to)) /\ SendAppend(r, to).log = r.log
  BY SendAppendsStep, Zenon DEF SendAppend

\* bcastAppend is a step of a leader.
LEMMA BcastAppendStep ==
  ASSUME NEW r \in NodeType
  PROVE  LeaderStep(r, BcastAppend(r)) /\ BcastAppend(r).log = r.log
  <1>1. Peers(r) \in SUBSET Server
    BY NodeFields DEF Peers
  <1>2. QED
    BY <1>1, SendAppendsStep, Zenon DEF BcastAppend

\* The loop that fills the window of a peer is a step of a leader.
LEMMA DrainAppendsStep ==
  ASSUME NEW r \in NodeType, NEW to \in Server
  PROVE  LeaderStep(r, DrainAppends(r, to)) /\ DrainAppends(r, to).log = r.log
  <1> DEFINE pr == r.prs[to]
             left == LastIndex(r.log) + 1 - pr.Next
             batches == (left + MaxSizePerMsg - 1) \div MaxSizePerMsg
             k == MinOf(MaxInflightMsgs - Len(pr.Inflights), batches)
             prev(b) == pr.Next - 1 + (b - 1) * MaxSizePerMsg
             last(b) == MinOf(prev(b) + MaxSizePerMsg, LastIndex(r.log))
             ms == {AppMsg(r, to, prev(b), Entries(r.log, prev(b) + 1)) : b \in 1..k}
             s == SendAll(r, ms)
             up == OptimisticUpdate(pr, last(k))
             lasts == [b \in 1..k |-> last(b)]
             window == up.Inflights \o lasts
             new == [up EXCEPT !.Inflights = window]
             prs == [r.prs EXCEPT ![to] = new]
  <1>1. CASE pr.State # StateReplicate \/ NeedsSnapshot(r, pr) \/ k =< 0
    <2>1. DrainAppends(r, to) = r
      BY <1>1, Zenon DEF DrainAppends
    <2>2. LeaderStep(r, r)
      BY DEF LeaderStep, Stays, Led
    <2>3. QED
      BY <2>1, <2>2
  <1>2. CASE ~(pr.State # StateReplicate \/ NeedsSnapshot(r, pr) \/ k =< 0)
    <2>1. /\ pr \in ProgressType /\ pr.Next \in Nat /\ pr.Next > 0 /\ Len(pr.Inflights) \in Nat
          /\ r.log \in LogType /\ LastIndex(r.log) \in Nat
          /\ MaxSizePerMsg \in Nat /\ MaxSizePerMsg > 0 /\ MaxInflightMsgs \in Nat
      BY NodeFields, ProgressFields, LogFields, SeqLen, MaxSizeAssumption, MaxInflightAssumption
    <2> HIDE DEF pr
    <2>2. k \in Int /\ k > 0
      <3>1. left + MaxSizePerMsg - 1 \in Int
        BY <2>1
      <3>2. batches \in Int
        BY <2>1, <3>1
      <3> HIDE DEF batches
      <3>3. k \in Int
        BY <2>1, <3>2 DEF MinOf
      <3>4. QED
        BY <1>2, <3>3
    <2> HIDE DEF k
    <2>3. \A b \in 1..k : prev(b) \in Nat
      <3> SUFFICES ASSUME NEW b \in 1..k PROVE prev(b) \in Nat
        OBVIOUS
      <3>1. b - 1 \in Nat
        BY <2>2
      <3>2. (b - 1) * MaxSizePerMsg \in Nat
        BY <2>1, <3>1
      <3>3. QED
        BY <2>1, <3>2
    <2> HIDE DEF prev
    <2>4. \A b \in 1..k : last(b) \in Nat
      BY <2>1, <2>3 DEF MinOf
    <2> HIDE DEF last
    <2>5. \A m \in ms : FromLeader(r, m)
      <3> SUFFICES ASSUME NEW b \in 1..k
                   PROVE  FromLeader(r, AppMsg(r, to, prev(b), Entries(r.log, prev(b) + 1)))
        OBVIOUS
      <3>1. prev(b) \in Nat /\ prev(b) + 1 \in Nat \ {0}
        BY <2>3
      <3>2. Entries(r.log, prev(b) + 1) \in Seq(Entry)
        BY <2>1, <3>1, EntriesType
      <3>3. QED
        BY <3>1, <3>2, AppMsgType
    <2> HIDE DEF ms
    <2>6. LeaderStep(r, s) /\ Data(r, s)
      BY <2>5, SendAllStep
    <2>7. up \in ProgressType
      <3>1. last(k) \in Nat
        BY <2>2, <2>4
      <3>2. QED
        BY <2>1, <3>1, OptimisticUpdateType
    <2>8. window \in Seq(Nat)
      <3>1. lasts \in Seq(Nat)
        BY <2>2, <2>4
      <3>2. up.Inflights \in Seq(Nat)
        BY <2>7, ProgressFields
      <3> HIDE DEF lasts, up
      <3>3. QED
        BY <3>1, <3>2, SeqConcat
    <2>9. new \in ProgressType
      <3> HIDE DEF window, up
      <3>1. QED
        BY <2>7, <2>8, SetProgress
    <2>10. prs \in [Server -> ProgressType]
      <3> HIDE DEF new
      <3>1. QED
        BY <2>9, NodeFields
    <2>11. s \in NodeType /\ s.prs = r.prs
      BY <2>6 DEF LeaderStep, Stays, Data
    <2>12. DrainAppends(r, to) = [s EXCEPT !.prs[to] = new]
      BY <1>2 DEF DrainAppends, pr, k, prev, last, ms
    <2> HIDE DEF s, new
    <2>13. [s EXCEPT !.prs[to] = new] = [s EXCEPT !.prs = prs]
      BY <2>11
    <2> HIDE DEF prs
    <2>14. LeaderStep(s, [s EXCEPT !.prs = prs])
      BY <2>10, <2>11, SetPrs, LocalStep
    <2>15. [s EXCEPT !.prs = prs].log = r.log
      BY <2>6, <2>11 DEF NodeType, Data
    <2>16. QED
      BY <2>6, <2>12, <2>13, <2>14, <2>15, StepTrans
  <1>3. QED
    BY <1>1, <1>2

----------------------------------------------------------------------------
(* Heartbeats and reads.                                                   *)

\* bcastHeartbeatWithCtx is a step of a leader.
LEMMA BcastHeartbeatWithCtxStep ==
  ASSUME NEW r \in NodeType, NEW ctxs \in SUBSET (ReadCtx \cup {NoCtx})
  PROVE  LeaderStep(r, BcastHeartbeatWithCtx(r, ctxs)) /\ BcastHeartbeatWithCtx(r, ctxs).log = r.log
  <1> DEFINE ms == {HeartbeatMsg(r, to, c) : to \in Peers(r), c \in ctxs}
  <1>1. ASSUME NEW to \in Server, NEW c \in ReadCtx \cup {NoCtx}
        PROVE  FromLeader(r, HeartbeatMsg(r, to, c))
    <2> DEFINE commit == MinOf(r.prs[to].Match, r.log.committed)
               s == [type |-> "MsgHeartbeat", from |-> r.id, to |-> to, Term |-> r.Term,
                     Commit |-> commit, Context |-> c]
    <2>1. r.prs[to].Match \in Nat /\ r.log.committed \in Nat
      BY NodeFields, ProgressFields, LogFields
    <2>2. commit \in Nat
      BY <2>1, MinMaxNat, Zenon
    <2>3. Stamped(r, HeartbeatMsg(r, to, c)) = s
      BY StampedHeader DEF HeartbeatMsg, LeaderMsgs
    <2> HIDE DEF commit
    <2>4. s \in HeartbeatMessage
      BY <1>1, <2>2, NodeFields DEF HeartbeatMessage
    <2>5. QED
      BY <2>3, <2>4 DEF FromLeader, Message
  <1>2. \A m \in ms : FromLeader(r, m)
    BY <1>1, NodeFields DEF Peers
  <1> HIDE DEF ms
  <1>3. LeaderStep(r, SendAll(r, ms)) /\ Data(r, SendAll(r, ms))
    BY <1>2, SendAllStep
  <1>4. QED
    BY <1>3 DEF BcastHeartbeatWithCtx, ms, Data

\* bcastHeartbeat is a step of a leader.
LEMMA BcastHeartbeatStep ==
  ASSUME NEW r \in NodeType
  PROVE  LeaderStep(r, BcastHeartbeat(r))
  <1>1. LastPendingRequestCtx(r) \in ReadCtx \cup {NoCtx}
    <2>1. CASE \E q \in r.readOnly : IsLastRead(r, q)
      <3> DEFINE q == CHOOSE o \in r.readOnly : IsLastRead(r, o)
      <3>1. q \in r.readOnly /\ LastPendingRequestCtx(r) = q.Ctx
        BY <2>1 DEF LastPendingRequestCtx
      <3> HIDE DEF q
      <3>2. q \in ReadRequest
        BY <3>1, NodeFields
      <3>3. QED
        BY <3>1, <3>2 DEF ReadRequest
    <2>2. CASE ~\E q \in r.readOnly : IsLastRead(r, q)
      BY <2>2 DEF LastPendingRequestCtx
    <2>3. QED
      BY <2>1, <2>2
  <1>2. QED
    BY <1>1, BcastHeartbeatWithCtxStep DEF BcastHeartbeat

\* The last place in the queue of reads is a number.
LEMMA LastReadPosType ==
  ASSUME NEW r \in NodeType
  PROVE  LastReadPos(r) \in Nat
  <1>1. CASE \E q \in r.readOnly : IsLastRead(r, q)
    <2> DEFINE q == CHOOSE o \in r.readOnly : IsLastRead(r, o)
    <2>1. q \in r.readOnly /\ LastReadPos(r) = q.pos
      BY <1>1 DEF LastReadPos
    <2> HIDE DEF q
    <2>2. q \in ReadRequest
      BY <2>1, NodeFields
    <2>3. QED
      BY <2>1, <2>2 DEF ReadRequest
  <1>2. CASE ~\E q \in r.readOnly : IsLastRead(r, q)
    BY <1>2 DEF LastReadPos
  <1>3. QED
    BY <1>1, <1>2

\* responseToReadIndexReq is a step of any member.
LEMMA RespondToReadsStep ==
  ASSUME NEW r \in NodeType, NEW reqs,
         \A q \in reqs : q.Ctx \in ReadCtx /\ q.From \in Server /\ q.Index \in Nat
  PROVE  LeaderStep(r, RespondToReads(r, reqs))
  <1> DEFINE answers == r.readStates \cup {[Index |-> q.Index, Ctx |-> q.Ctx] :
                                           q \in {o \in reqs : o.From = r.id}}
             s == [r EXCEPT !.readStates = answers]
             answer(q) == [type |-> "MsgReadIndexResp", from |-> r.id, to |-> q.From,
                           Term |-> 0, Index |-> q.Index, Context |-> q.Ctx]
             ms == {answer(q) : q \in {o \in reqs : o.From # r.id}}
  <1>1. answers \in SUBSET [Index : Nat, Ctx : ReadCtx]
    BY NodeFields
  <1>2. RespondToReads(r, reqs) = SendAll(s, ms)
    BY DEF RespondToReads
  <1> HIDE DEF answers
  <1>3. LeaderStep(r, s) /\ s \in NodeType /\ s.id = r.id /\ s.Term = r.Term
    <2>1. Internal(r, s)
      BY <1>1, SetReadStates
    <2>2. QED
      BY <2>1, LocalStep DEF LeaderStep, Stays
  <1> HIDE DEF s
  <1>4. ASSUME NEW q \in reqs
        PROVE  FromLeader(s, answer(q))
    <2> DEFINE to == q.From
               index == q.Index
               ctx == q.Ctx
               m == [type |-> "MsgReadIndexResp", from |-> r.id, to |-> to,
                     Term |-> s.Term, Index |-> index, Context |-> ctx]
    <2>1. to \in Server /\ index \in Nat /\ ctx \in ReadCtx
      OBVIOUS
    <2>2. Stamped(s, answer(q)) = m
      BY StampedHeader
    <2> HIDE DEF to, index, ctx
    <2>3. m \in ReadIndexRespMessage
      BY <1>3, <2>1, NodeFields DEF ReadIndexRespMessage
    <2>4. m.type = "MsgReadIndexResp"
      OBVIOUS
    <2> HIDE DEF m, answer
    <2>5. QED
      BY <2>2, <2>3, <2>4 DEF FromLeader, Message, LeaderMsgs
  <1>5. \A m \in ms : FromLeader(s, m)
    BY <1>4
  <1> HIDE DEF ms
  <1>6. LeaderStep(s, SendAll(s, ms))
    BY <1>3, <1>5, SendAllStep
  <1>7. QED
    BY <1>2, <1>3, <1>6, StepTrans

\* sendMsgReadIndexResponse is a step of a leader.
LEMMA SendMsgReadIndexResponseStep ==
  ASSUME NEW r \in NodeType, NEW reqs \in Seq([Ctx : ReadCtx, From : Server])
  PROVE  LeaderStep(r, SendMsgReadIndexResponse(r, reqs)) /\ SendMsgReadIndexResponse(r, reqs).log = r.log
  <1> DEFINE ctxAt(i) == reqs[i].Ctx
             pending == {q.Ctx : q \in r.readOnly}
             new == {i \in DOMAIN reqs : /\ ctxAt(i) \notin pending
                                         /\ \A j \in 1..(i - 1) : ctxAt(j) # ctxAt(i)}
             request(i) == [Ctx |-> ctxAt(i), From |-> reqs[i].From, Index |-> r.log.committed,
                            acks |-> {r.id}, pos |-> LastReadPos(r) + i]
             added == {request(i) : i \in new}
             queue == r.readOnly \cup added
             s == [r EXCEPT !.readOnly = queue]
             ctxs == {ctxAt(i) : i \in DOMAIN reqs}
  <1>1. \A i \in DOMAIN reqs : /\ i \in Nat /\ reqs[i] \in [Ctx : ReadCtx, From : Server]
                               /\ reqs[i].Ctx \in ReadCtx /\ reqs[i].From \in Server
    <2> DEFINE R == [Ctx : ReadCtx, From : Server]
    <2>1. \A q \in R : q.Ctx \in ReadCtx /\ q.From \in Server
      OBVIOUS
    <2>2. reqs \in Seq(R)
      OBVIOUS
    <2> HIDE DEF R
    <2>3. \A i \in DOMAIN reqs : i \in Nat /\ reqs[i] \in R
      BY <2>2, SeqLen
    <2>4. QED
      BY <2>1, <2>3 DEF R
  <1>2. ASSUME NEW i \in DOMAIN reqs
        PROVE  request(i) \in ReadRequest
    <2> DEFINE c == reqs[i].Ctx
               f == reqs[i].From
               x == r.log.committed
               a == {r.id}
               p == LastReadPos(r) + i
    <2>1. c \in ReadCtx /\ f \in Server /\ x \in Nat /\ a \in SUBSET Server /\ p \in Nat
      BY <1>1, NodeFields, LogFields, LastReadPosType
    <2>2. request(i) = [Ctx |-> c, From |-> f, Index |-> x, acks |-> a, pos |-> p]
      OBVIOUS
    <2> HIDE DEF c, f, x, a, p, request
    <2>3. QED
      BY <2>1, <2>2 DEF ReadRequest
  <1>3. queue \in SUBSET ReadRequest
    <2>1. \A i \in new : request(i) \in ReadRequest
      BY <1>2
    <2> HIDE DEF request, new
    <2>2. QED
      BY <2>1, NodeFields
  <1>4. ctxs \in SUBSET (ReadCtx \cup {NoCtx})
    BY <1>1
  <1>5. SendMsgReadIndexResponse(r, reqs) = BcastHeartbeatWithCtx(s, ctxs)
    BY DEF SendMsgReadIndexResponse
  <1> HIDE DEF queue, ctxs
  <1>6. Internal(r, s) /\ s.log = r.log
    <2>1. Internal(r, s)
      BY <1>3, SetReadOnly, Zenon
    <2>2. s.log = r.log
      BY DEF NodeType
    <2>3. QED
      BY <2>1, <2>2
  <1>7. s \in NodeType /\ LeaderStep(r, s)
    BY <1>6, LocalStep DEF LeaderStep, Stays
  <1> HIDE DEF s
  <1>8. LeaderStep(s, BcastHeartbeatWithCtx(s, ctxs)) /\ BcastHeartbeatWithCtx(s, ctxs).log = s.log
    BY <1>4, <1>7, BcastHeartbeatWithCtxStep
  <1>9. QED
    BY <1>5, <1>6, <1>7, <1>8, StepTrans

\* releasePendingReadIndexMessages is a step of a leader.
LEMMA ReleasePendingStep ==
  ASSUME NEW r \in NodeType
  PROVE  /\ LeaderStep(r, ReleasePendingReadIndexMessages(r))
         /\ ReleasePendingReadIndexMessages(r).log = r.log
  <1> DEFINE none == <<>>
             s == [r EXCEPT !.pendingReads = none]
  <1>1. none \in Seq([Ctx : ReadCtx, From : Server])
    OBVIOUS
  <1>2. \/ ReleasePendingReadIndexMessages(r) = r
        \/ ReleasePendingReadIndexMessages(r) = SendMsgReadIndexResponse(s, r.pendingReads)
    BY DEF ReleasePendingReadIndexMessages
  <1> HIDE DEF none
  <1>3. Internal(r, s)
    BY <1>1, SetPending, Zenon
  <1>4. s.log = r.log
    BY DEF NodeType
  <1>5. s \in NodeType /\ LeaderStep(r, s)
    BY <1>3, LocalStep DEF LeaderStep, Stays
  <1> HIDE DEF s
  <1>6. /\ LeaderStep(s, SendMsgReadIndexResponse(s, r.pendingReads))
        /\ SendMsgReadIndexResponse(s, r.pendingReads).log = r.log
    BY <1>4, <1>5, NodeFields, SendMsgReadIndexResponseStep, Zenon
  <1>7. LeaderStep(r, r)
    BY DEF LeaderStep, Stays, Led
  <1>8. QED
    BY <1>2, <1>5, <1>6, <1>7, StepTrans

\* recvAck and advance of the reads are a step of any member.
LEMMA AckReadStep ==
  ASSUME NEW r \in NodeType, NEW from \in Server, NEW ctx
  PROVE  LeaderStep(r, AckRead(r, from, ctx))
  <1> DEFINE ack(q) == IF q.Ctx = ctx THEN [q EXCEPT !.acks = @ \cup {from}] ELSE q
             acked == {ack(q) : q \in r.readOnly}
             won == {q \in acked : q.Ctx = ctx /\ VoteResult(Voters(r), q.acks, {}) = VoteWon}
             served == {q \in acked : \E w \in won : q.pos =< w.pos}
             left == acked \ served
             s == [r EXCEPT !.readOnly = left]
  <1>1. ASSUME NEW q \in ReadRequest
        PROVE  ack(q) \in ReadRequest
    BY DEF ReadRequest
  <1>2. acked \in SUBSET ReadRequest
    <2> HIDE DEF ack
    <2>1. QED
      BY <1>1, NodeFields
  <1> HIDE DEF acked
  <1>3. left \in SUBSET ReadRequest /\ served \in SUBSET ReadRequest
    BY <1>2
  <1>4. AckRead(r, from, ctx) = RespondToReads(s, served)
    BY DEF AckRead, acked
  <1> HIDE DEF served, left
  <1>5. s \in NodeType /\ LeaderStep(r, s)
    BY <1>3, SetReadOnly, LocalStep DEF LeaderStep, Stays
  <1> HIDE DEF s
  <1>6. \A q \in served : q.Ctx \in ReadCtx /\ q.From \in Server /\ q.Index \in Nat
    BY <1>3 DEF ReadRequest
  <1>7. LeaderStep(s, RespondToReads(s, served))
    BY <1>5, <1>6, RespondToReadsStep
  <1>8. QED
    BY <1>4, <1>5, <1>7, StepTrans

----------------------------------------------------------------------------
(* Changes of role.                                                        *)

\* A new progress is one, if the log has an entry to send next.
LEMMA NewProgressType ==
  ASSUME NEW n \in Nat \ {0}
  PROVE  NewProgress(n) \in ProgressType
  <1> DEFINE e == <<>>
  <1>1. e \in Seq(Nat)
    OBVIOUS
  <1>2. NewProgress(n) = [Match |-> 0, Next |-> n, State |-> StateProbe, PendingSnapshot |-> 0,
                          RecentActive |-> FALSE, ProbeSent |-> FALSE, Inflights |-> e]
    BY DEF NewProgress
  <1> HIDE DEF e
  <1>3. QED
    BY <1>1, <1>2 DEF ProgressType, ProgressStates

\* reset gives every peer a new progress.
LEMMA ResetProgressType ==
  ASSUME NEW r \in NodeType
  PROVE  ResetProgress(r) \in [Server -> ProgressType]
  <1> DEFINE base == NewProgress(LastIndex(r.log) + 1)
             match(p) == IF p = r.id THEN LastIndex(r.log) ELSE 0
             pr(p) == [base EXCEPT !.Match = match(p)]
  <1>1. LastIndex(r.log) \in Nat /\ LastIndex(r.log) + 1 \in Nat \ {0} /\ DOMAIN r.prs = Server
    BY NodeFields, LogFields
  <1>2. base \in ProgressType
    BY <1>1, NewProgressType
  <1>3. \A p \in Server : match(p) \in Nat
    BY <1>1
  <1>4. ResetProgress(r) = [p \in Server |-> pr(p)]
    BY <1>1 DEF ResetProgress
  <1> HIDE DEF base, match
  <1>5. \A p \in Server : pr(p) \in ProgressType
    BY <1>2, <1>3, SetProgress, Zenon
  <1> HIDE DEF pr
  <1>6. QED
    BY <1>4, <1>5

\* reset keeps the vote within the term and drops it with the term.
LEMMA ResetFields ==
  ASSUME NEW r \in NodeType, NEW term \in Terms
  PROVE  /\ Reset(r, term) \in NodeType
         /\ Reset(r, term).id = r.id /\ Reset(r, term).Term = term
         /\ Reset(r, term).Vote = IF r.Term # term THEN None ELSE r.Vote
         /\ Reset(r, term).state = r.state /\ Reset(r, term).granted = {}
         /\ Reset(r, term).msgs = r.msgs /\ Reset(r, term).log = r.log
  <1> DEFINE vote == IF r.Term # term THEN None ELSE r.Vote
             prs == ResetProgress(r)
             none == {}
  <1>1. /\ vote \in Server \cup {None} /\ prs \in [Server -> ProgressType]
        /\ none \in SUBSET Server /\ none \in SUBSET ReadRequest
    BY ResetProgressType, NodeFields
  <1>2. Reset(r, term) = [r EXCEPT !.Term = term, !.Vote = vote, !.lead = None,
                            !.leadTransferee = None, !.granted = none, !.rejected = none,
                            !.prs = prs, !.readOnly = none]
    BY DEF Reset
  <1> HIDE DEF vote, prs, none
  <1>3. Reset(r, term) \in NodeType
    <2> DEFINE a == [r EXCEPT !.Term = term, !.Vote = vote, !.lead = None, !.leadTransferee = None]
               b == [a EXCEPT !.granted = none, !.rejected = none, !.prs = prs, !.readOnly = none]
    <2>1. a \in NodeType
      BY <1>1, Zenon DEF NodeType
    <2>2. Reset(r, term) = b
      BY <1>2
    <2> HIDE DEF a
    <2>3. b \in NodeType
      BY <1>1, <2>1, Zenon DEF NodeType
    <2>4. QED
      BY <2>2, <2>3
  <1>4. /\ Reset(r, term).id = r.id /\ Reset(r, term).Term = term /\ Reset(r, term).Vote = vote
        /\ Reset(r, term).state = r.state /\ Reset(r, term).granted = none
        /\ Reset(r, term).msgs = r.msgs /\ Reset(r, term).log = r.log
    BY <1>2 DEF NodeType
  <1>5. QED
    BY <1>3, <1>4 DEF vote, none

\* becomeFollower: the term it is given, and the vote of that term.
LEMMA BecomeFollowerFields ==
  ASSUME NEW r \in NodeType, NEW term \in Terms, NEW lead \in Server \cup {None}
  PROVE  LET s == BecomeFollower(r, term, lead)
         IN  /\ s \in NodeType /\ s.id = r.id /\ s.Term = term /\ s.state = StateFollower
             /\ s.Vote = (IF r.Term # term THEN None ELSE r.Vote)
             /\ s.granted = {} /\ s.msgs = r.msgs
  <1> DEFINE b == Reset(r, term)
  <1>1. /\ b \in NodeType /\ b.id = r.id /\ b.Term = term /\ b.granted = {} /\ b.msgs = r.msgs
        /\ b.Vote = IF r.Term # term THEN None ELSE r.Vote
    BY ResetFields
  <1>2. BecomeFollower(r, term, lead) = [b EXCEPT !.lead = lead, !.state = StateFollower]
    BY DEF BecomeFollower
  <1> HIDE DEF b
  <1>3. [b EXCEPT !.lead = lead, !.state = StateFollower] \in NodeType
    BY <1>1, Zenon DEF NodeType
  <1>4. QED
    BY <1>1, <1>2, <1>3 DEF NodeType

\* becomeCandidate: the next term, and the node's own vote in it.
LEMMA BecomeCandidateFields ==
  ASSUME NEW r \in NodeType
  PROVE  LET s == BecomeCandidate(r)
         IN  /\ s \in NodeType /\ s.id = r.id /\ s.Term = r.Term + 1 /\ s.state = StateCandidate
             /\ s.Vote = r.id /\ s.granted = {} /\ s.msgs = r.msgs
  <1> DEFINE b == Reset(r, r.Term + 1)
  <1>1. r.Term + 1 \in Terms /\ r.id \in Server \cup {None}
    BY NodeFields DEF Terms
  <1>2. b \in NodeType /\ b.id = r.id /\ b.Term = r.Term + 1 /\ b.granted = {} /\ b.msgs = r.msgs
    BY <1>1, ResetFields
  <1>3. BecomeCandidate(r) = [b EXCEPT !.Vote = r.id, !.state = StateCandidate]
    BY DEF BecomeCandidate
  <1> HIDE DEF b
  <1>4. [b EXCEPT !.Vote = r.id, !.state = StateCandidate] \in NodeType
    BY <1>1, <1>2, Zenon DEF NodeType
  <1>5. QED
    BY <1>2, <1>3, <1>4 DEF NodeType

\* becomePreCandidate changes neither the term nor the vote.
LEMMA BecomePreCandidateFields ==
  ASSUME NEW r \in NodeType
  PROVE  LET s == BecomePreCandidate(r)
         IN  /\ s \in NodeType /\ s.id = r.id /\ s.Term = r.Term /\ s.state = StatePreCandidate
             /\ s.Vote = r.Vote /\ s.granted = {} /\ s.msgs = r.msgs
  <1> DEFINE none == {}
  <1>1. none \in SUBSET Server
    OBVIOUS
  <1>2. BecomePreCandidate(r) = [r EXCEPT !.granted = none, !.rejected = none, !.lead = None,
                                          !.state = StatePreCandidate]
    BY DEF BecomePreCandidate
  <1> HIDE DEF none
  <1>3. BecomePreCandidate(r) \in NodeType
    <2> DEFINE b == [r EXCEPT !.granted = none, !.rejected = none]
    <2>1. b \in NodeType
      BY <1>1, Zenon DEF NodeType
    <2>2. BecomePreCandidate(r) = [b EXCEPT !.lead = None, !.state = StatePreCandidate]
      BY <1>2 DEF NodeType
    <2> HIDE DEF b
    <2>3. QED
      BY <2>1, <2>2, Zenon DEF NodeType
  <1>4. QED
    BY <1>2, <1>3 DEF NodeType, none

\* The configuration never changes, so that its committed index is a natural.
LEMMA CommittedIndexType ==
  ASSUME Basis, NEW r \in NodeType
  PROVE  CommittedIndex(Voters(r), MatchIndexes(r)) \in Nat
  <1> DEFINE acked == MatchIndexes(r)
  <1>1. \A id \in Server : AckedIndex(acked, id) \in Nat
    <2>1. DOMAIN r.prs = Server /\ \A id \in Server : r.prs[id].Match \in Nat
      BY NodeFields, ProgressFields
    <2>2. QED
      BY <2>1 DEF MatchIndexes, AckedIndex
  <1> HIDE DEF acked
  <1>2. MajorityCommittedIndex(Server, acked) \in Nat
    BY <1>1, Zenon DEF Basis
  <1>3. MajorityCommittedIndex({}, acked) = MaxUint64
    BY DEF MajorityCommittedIndex
  <1>4. Voters(r)[1] = Server /\ Voters(r)[2] = {}
    BY NodeFields
  <1>5. QED
    BY <1>2, <1>3, <1>4, MaxUint64Assumption, MinMaxNat DEF CommittedIndex, acked

\* maybeCommit touches no election.
LEMMA MaybeCommitStep ==
  ASSUME Basis, NEW r \in NodeType
  PROVE  Internal(r, MaybeCommit(r)) /\ MaybeCommit(r) \in NodeType
  <1> DEFINE l == LogMaybeCommit(r.log, CommittedIndex(Voters(r), MatchIndexes(r)), r.Term)
  <1>1. l \in LogType
    BY NodeFields, CommittedIndexType, LogMaybeCommitType
  <1>2. MaybeCommit(r) = [r EXCEPT !.log = l]
    BY DEF MaybeCommit
  <1> HIDE DEF l
  <1>3. QED
    BY <1>1, <1>2, SetLog DEF Internal, Stays

\* Changes of such fields compose.
LEMMA LocalTrans ==
  ASSUME NEW r, NEW s, NEW t, Internal(r, s), Internal(s, t)
  PROVE  Internal(r, t)
  BY DEF Internal, Stays

\* A change of one peer's progress touches no election.
LEMMA SetPeer ==
  ASSUME NEW r \in NodeType, NEW p \in Server, NEW pr \in ProgressType
  PROVE  /\ Internal(r, [r EXCEPT !.prs[p] = pr]) /\ [r EXCEPT !.prs[p] = pr] \in NodeType
         /\ [r EXCEPT !.prs[p] = pr].log = r.log
  <1> DEFINE prs == [r.prs EXCEPT ![p] = pr]
  <1>1. prs \in [Server -> ProgressType]
    BY NodeFields
  <1>2. [r EXCEPT !.prs[p] = pr] = [r EXCEPT !.prs = prs]
    BY DEF NodeType
  <1> HIDE DEF prs
  <1>3. Internal(r, [r EXCEPT !.prs = prs])
    BY <1>1, SetPrs
  <1>4. [r EXCEPT !.prs = prs].log = r.log
    BY DEF NodeType
  <1>5. QED
    BY <1>2, <1>3, <1>4 DEF Internal, Stays

\* appendEntry touches no election.
LEMMA AppendEntryStep ==
  ASSUME Basis, NEW r \in NodeType, NEW data \in Value \cup {NilData, ConfChangeData}
  PROVE  Internal(r, AppendEntry(r, data)) /\ AppendEntry(r, data) \in NodeType
  <1> DEFINE li == LastIndex(r.log)
             e == <<[Term |-> r.Term, Data |-> data]>>
             l == LogAppend(r.log, li, e)
             pr == MaybeUpdate(r.prs[r.id], li + 1)
             a == [r EXCEPT !.log = l]
             b == [a EXCEPT !.prs[r.id] = pr]
  <1>1. r.log \in LogType /\ li \in Nat /\ li \in r.log.committed..LastIndex(r.log)
    BY NodeFields, LogFields
  <1>2. e \in Seq(Entry)
    <2>1. [Term |-> r.Term, Data |-> data] \in Entry
      BY NodeFields DEF Entry
    <2>2. QED
      BY <2>1
  <1>3. l \in LogType
    <2> HIDE DEF e, li
    <2>1. QED
      BY <1>1, <1>2, LogAppendType
  <1>4. pr \in ProgressType
    <2>1. r.prs[r.id] \in ProgressType /\ li + 1 \in Nat
      BY <1>1, NodeFields
    <2> HIDE DEF li
    <2>2. QED
      BY <2>1, MaybeUpdateType
  <1>5. AppendEntry(r, data) = MaybeCommit([r EXCEPT !.log = l, !.prs[r.id] = pr])
    BY DEF AppendEntry
  <1> HIDE DEF l, pr
  <1>6. Internal(r, a) /\ a \in NodeType /\ a.id = r.id
    BY <1>3, SetLog DEF Internal, Stays
  <1>7. [r EXCEPT !.log = l, !.prs[r.id] = pr] = b
    BY DEF NodeType
  <1> HIDE DEF a
  <1>8. Internal(a, b) /\ b \in NodeType
    BY <1>4, <1>6, NodeFields, SetPeer
  <1> HIDE DEF b
  <1>9. Internal(b, MaybeCommit(b)) /\ MaybeCommit(b) \in NodeType
    BY <1>8, MaybeCommitStep
  <1>10. QED
    BY <1>5, <1>6, <1>7, <1>8, <1>9, LocalTrans, Zenon

\* becomeLeader keeps term and vote, and sends nothing yet.
LEMMA BecomeLeaderFields ==
  ASSUME Basis, NEW r \in NodeType
  PROVE  LET s == BecomeLeader(r)
         IN  /\ s \in NodeType /\ s.id = r.id /\ s.Term = r.Term /\ s.state = StateLeader
             /\ s.Vote = r.Vote /\ s.msgs = r.msgs
  <1> DEFINE b == Reset(r, r.Term)
             c == [b EXCEPT !.lead = r.id, !.state = StateLeader]
             pr == BecomeReplicate(b.prs[r.id])
             d == [c EXCEPT !.prs[r.id] = pr]
  <1>1. b \in NodeType /\ b.id = r.id /\ b.Term = r.Term /\ b.msgs = r.msgs /\ b.Vote = r.Vote
    BY NodeFields, ResetFields
  <1>2. pr \in ProgressType
    BY <1>1, NodeFields, BecomeReplicateType
  <1>3. BecomeLeader(r) = AppendEntry([b EXCEPT !.lead = r.id, !.state = StateLeader,
                                                !.prs[r.id] = pr], NilData)
    BY DEF BecomeLeader
  <1> HIDE DEF b, pr
  <1>4. c \in NodeType
    BY <1>1, NodeFields, Zenon DEF NodeType
  <1>5. c.id = r.id /\ c.Term = r.Term /\ c.Vote = r.Vote /\ c.msgs = r.msgs /\ c.state = StateLeader
    BY <1>1 DEF NodeType
  <1>6. [b EXCEPT !.lead = r.id, !.state = StateLeader, !.prs[r.id] = pr] = d
    BY <1>1 DEF NodeType
  <1> HIDE DEF c
  <1>7. Internal(c, d) /\ d \in NodeType
    BY <1>2, <1>4, NodeFields, SetPeer
  <1> HIDE DEF d
  <1>8. Internal(d, AppendEntry(d, NilData)) /\ AppendEntry(d, NilData) \in NodeType
    BY <1>7, AppendEntryStep
  <1>9. QED
    BY <1>3, <1>5, <1>6, <1>7, <1>8, Zenon DEF Internal, Stays

\* A new term in which the node votes for itself, and leads it only if its
\* own vote is enough.
NewCampaign(r, s) ==
  /\ s \in NodeType /\ s.id = r.id /\ s.Term = r.Term + 1 /\ s.Vote = r.id
  /\ Silent(r, s)
  /\ \/ s.state = StateCandidate /\ s.granted \subseteq {r.id}
     \/ s.state = StateLeader /\ Wins({r.id})

PreCampaign(r, s) ==
  /\ s \in NodeType /\ s.id = r.id /\ s.Term = r.Term /\ s.Vote = r.Vote
  /\ Silent(r, s) /\ s.state = StatePreCandidate

\* More votes win as well.
LEMMA WinsMore ==
  ASSUME Basis, NEW P, NEW Q, NEW no, P \subseteq Q, VoteResult(<<Server, {}>>, P, no) = VoteWon
  PROVE  Wins(Q)
  BY Zenon DEF Basis

\* RecordVote counts at most the vote it is given.
LEMMA RecordVoteFields ==
  ASSUME NEW r \in NodeType, NEW id \in Server, NEW v \in BOOLEAN
  PROVE  LET s == RecordVote(r, id, v)
         IN  /\ s \in NodeType /\ s.id = r.id /\ s.Term = r.Term /\ s.Vote = r.Vote
             /\ s.state = r.state /\ s.msgs = r.msgs /\ s.log = r.log
             /\ s.granted \subseteq r.granted \cup {id}
             /\ ~v => s.granted = r.granted
  <1> DEFINE g == r.granted \cup {id}
             j == r.rejected \cup {id}
  <1>1. g \in SUBSET Server /\ j \in SUBSET Server
    BY NodeFields
  <1>2. \/ RecordVote(r, id, v) = r
        \/ v /\ RecordVote(r, id, v) = [r EXCEPT !.granted = g]
        \/ RecordVote(r, id, v) = [r EXCEPT !.rejected = j]
    BY DEF RecordVote
  <1> DEFINE a == [r EXCEPT !.granted = g]
             b == [r EXCEPT !.rejected = j]
  <1>3. /\ a \in NodeType /\ a.id = r.id /\ a.Term = r.Term /\ a.Vote = r.Vote
        /\ a.state = r.state /\ a.msgs = r.msgs /\ a.log = r.log /\ a.granted = g
    <2> HIDE DEF g
    <2>1. a \in NodeType
      BY <1>1, Zenon DEF NodeType
    <2>2. QED
      BY <2>1, Zenon DEF NodeType
  <1>4. /\ b \in NodeType /\ b.id = r.id /\ b.Term = r.Term /\ b.Vote = r.Vote
        /\ b.state = r.state /\ b.msgs = r.msgs /\ b.log = r.log /\ b.granted = r.granted
    <2> HIDE DEF j
    <2>1. b \in NodeType
      BY <1>1, Zenon DEF NodeType
    <2>2. QED
      BY <2>1, Zenon DEF NodeType
  <1> HIDE DEF a, b
  <1>5. QED
    BY <1>2, <1>3, <1>4, Zenon DEF a, b

\* campaign makes vote requests.
LEMMA VoteMsgType ==
  ASSUME NEW r \in NodeType, NEW type \in {"MsgVote", "MsgPreVote"}, NEW to \in Server,
         NEW term \in Terms, NEW transfer \in BOOLEAN
  PROVE  FromMember(r, VoteMsg(r, type, to, term, transfer))
  <1> DEFINE li == LastIndex(r.log)
             lt == LastTerm(r.log)
             m == [type |-> type, from |-> r.id, to |-> to, Term |-> term, Index |-> li,
                   LogTerm |-> lt, Transfer |-> transfer]
  <1>1. li \in Nat /\ lt \in Nat
    BY NodeFields, LogFields, LastTermType
  <1>2. VoteMsg(r, type, to, term, transfer) = m
    BY DEF VoteMsg
  <1>3. Stamped(r, m) = m
    BY StampedHeader DEF CampaignMsgs
  <1> HIDE DEF li, lt
  <1>4. m \in VoteMessage
    BY <1>1, NodeFields DEF VoteMessage
  <1>5. m.type = type
    OBVIOUS
  <1> HIDE DEF m
  <1>6. QED
    BY <1>2, <1>3, <1>4, <1>5, Zenon DEF FromMember, Message, LeaderMsgs

\* A vote request is neither a grant nor the word of a leader.
LEMMA RequestVotesStep ==
  ASSUME NEW r \in NodeType, NEW type \in {"MsgVote", "MsgPreVote"}, NEW term \in Terms,
         NEW transfer \in BOOLEAN
  PROVE  MemberStep(r, RequestVotes(r, type, term, transfer))
  <1> DEFINE ms == {VoteMsg(r, type, to, term, transfer) : to \in IDs(Voters(r)) \ {r.id}}
  <1>1. IDs(Voters(r)) = Server
    BY NodeFields DEF IDs
  <1>2. \A m \in ms : FromMember(r, m)
    BY <1>1, VoteMsgType
  <1> HIDE DEF ms
  <1>3. QED
    BY <1>2, SendAllStep DEF RequestVotes, ms

\* campaign(campaignElection) and campaign(campaignTransfer).
LEMMA CampaignElectionStep ==
  ASSUME Basis, NEW r \in NodeType, NEW transfer \in BOOLEAN
  PROVE  NewCampaign(r, CampaignElection(r, transfer))
  <1> DEFINE b == BecomeCandidate(r)
             c == RecordVote(b, r.id, TRUE)
  <1>1. /\ b \in NodeType /\ b.id = r.id /\ b.Term = r.Term + 1 /\ b.state = StateCandidate
        /\ b.Vote = r.id /\ b.granted = {} /\ b.msgs = r.msgs
    BY BecomeCandidateFields
  <1>2. r.id \in Server
    BY NodeFields
  <1> HIDE DEF b
  <1>3. /\ c \in NodeType /\ c.id = r.id /\ c.Term = r.Term + 1 /\ c.Vote = r.id
        /\ c.state = StateCandidate /\ c.msgs = r.msgs /\ c.granted \subseteq {r.id}
    BY <1>1, <1>2, RecordVoteFields, Zenon
  <1>4. CampaignElection(r, transfer) = IF TallyVotes(c) = VoteWon THEN BecomeLeader(c)
                                        ELSE RequestVotes(c, "MsgVote", c.Term, transfer)
    BY DEF CampaignElection, b
  <1> HIDE DEF c
  <1>5. CASE TallyVotes(c) = VoteWon
    <2>1. VoteResult(<<Server, {}>>, c.granted, c.rejected) = VoteWon
      BY <1>3, <1>5, NodeFields, Zenon DEF TallyVotes
    <2>2. Wins({r.id})
      BY <1>3, <2>1, WinsMore
    <2>3. QED
      BY <1>3, <1>4, <1>5, <2>2, BecomeLeaderFields DEF NewCampaign, Silent
  <1>6. CASE TallyVotes(c) # VoteWon
    <2>1. MemberStep(c, RequestVotes(c, "MsgVote", c.Term, transfer))
      BY <1>3, NodeFields, RequestVotesStep
    <2>2. QED
      BY <1>3, <1>4, <1>6, <2>1, Zenon DEF NewCampaign, MemberStep, Stays, Silent
  <1>7. QED
    BY <1>5, <1>6

\* campaign(campaignPreElection), and the election it starts when it is won.
LEMMA CampaignPreElectionStep ==
  ASSUME Basis, NEW r \in NodeType
  PROVE  NewCampaign(r, CampaignPreElection(r)) \/ PreCampaign(r, CampaignPreElection(r))
  <1> DEFINE b == BecomePreCandidate(r)
             c == RecordVote(b, r.id, TRUE)
  <1>1. /\ b \in NodeType /\ b.id = r.id /\ b.Term = r.Term /\ b.state = StatePreCandidate
        /\ b.Vote = r.Vote /\ b.msgs = r.msgs
    BY BecomePreCandidateFields
  <1>2. r.id \in Server
    BY NodeFields
  <1> HIDE DEF b
  <1>3. /\ c \in NodeType /\ c.id = r.id /\ c.Term = r.Term /\ c.Vote = r.Vote
        /\ c.state = StatePreCandidate /\ c.msgs = r.msgs
    BY <1>1, <1>2, RecordVoteFields, Zenon
  <1>4. CampaignPreElection(r) = IF TallyVotes(c) = VoteWon THEN CampaignElection(c, FALSE)
                                 ELSE RequestVotes(c, "MsgPreVote", c.Term + 1, FALSE)
    BY DEF CampaignPreElection, b
  <1> HIDE DEF c
  <1>5. NewCampaign(c, CampaignElection(c, FALSE))
    BY <1>3, CampaignElectionStep, Zenon
  <1>6. NewCampaign(r, CampaignElection(c, FALSE))
    BY <1>3, <1>5, Zenon DEF NewCampaign, Silent
  <1>7. c.Term + 1 \in Terms
    BY <1>3, NodeFields DEF Terms
  <1>8. MemberStep(c, RequestVotes(c, "MsgPreVote", c.Term + 1, FALSE))
    BY <1>3, <1>7, RequestVotesStep, Zenon
  <1>9. PreCampaign(r, RequestVotes(c, "MsgPreVote", c.Term + 1, FALSE))
    BY <1>3, <1>8, Zenon DEF PreCampaign, MemberStep, Stays, Silent
  <1>10. QED
    BY <1>4, <1>6, <1>9, Zenon

\* What MsgHup may lead to; a leader ignores it.
Campaigns(r, s) ==
  s = r \/ (r.state # StateLeader /\ (NewCampaign(r, s) \/ PreCampaign(r, s)))

\* hup, with pre-vote or without, or refused.
LEMMA HupStep ==
  ASSUME Basis, NEW r \in NodeType
  PROVE  Campaigns(r, Hup(r)) /\ Campaigns(r, HupTransfer(r))
  BY CampaignElectionStep, CampaignPreElectionStep, Zenon DEF Hup, HupTransfer, CanHup, Campaigns

----------------------------------------------------------------------------
(* The messages of a leader, at a follower.                                *)

\* An acknowledgement is a message.
LEMMA AppRespMsgType ==
  ASSUME NEW r \in NodeType, NEW to \in Server, NEW index \in Nat, NEW hint \in Nat,
         NEW term \in Nat, NEW reject \in BOOLEAN,
         NEW m, m = [type |-> "MsgAppResp", from |-> r.id, to |-> to, Term |-> 0,
                     Index |-> index, Reject |-> reject, RejectHint |-> hint, LogTerm |-> term]
  PROVE  FromMember(r, m)
  <1> DEFINE s == [type |-> "MsgAppResp", from |-> r.id, to |-> to, Term |-> r.Term,
                   Index |-> index, Reject |-> reject, RejectHint |-> hint, LogTerm |-> term]
  <1>1. Stamped(r, m) = [m EXCEPT !.Term = r.Term]
    BY StampedHeader
  <1>2. Stamped(r, m) = s
    BY <1>1
  <1>3. s \in AppRespMessage
    BY NodeFields DEF AppRespMessage
  <1>4. s.type = "MsgAppResp"
    OBVIOUS
  <1> HIDE DEF s
  <1>5. QED
    BY <1>2, <1>3, <1>4 DEF FromMember, Message, LeaderMsgs

\* So is the one that handleAppendEntries sends.
LEMMA AcceptMsgType ==
  ASSUME NEW r \in NodeType, NEW to \in Server, NEW index \in Nat
  PROVE  FromMember(r, AppRespMsg(r, to, index))
  <1> DEFINE zero == 0
             no == FALSE
  <1>1. AppRespMsg(r, to, index) =
          [type |-> "MsgAppResp", from |-> r.id, to |-> to, Term |-> 0,
           Index |-> index, Reject |-> no, RejectHint |-> zero, LogTerm |-> zero]
    BY DEF AppRespMsg
  <1>2. zero \in Nat /\ no \in BOOLEAN
    OBVIOUS
  <1> HIDE DEF zero, no
  <1>3. QED
    BY <1>1, <1>2, AppRespMsgType

\* And so is the one that refuses entries.
LEMMA RejectMsgType ==
  ASSUME Basis, NEW r \in NodeType, NEW m \in AppMessage
  PROVE  /\ FromMember(r, RejectMsg(r, m))
         /\ \E hint, term \in Nat : RejectMsg(r, m) =
              [type |-> "MsgAppResp", from |-> r.id, to |-> m.from, Term |-> 0,
               Index |-> m.Index, Reject |-> TRUE, RejectHint |-> hint, LogTerm |-> term]
  <1>1. m.from \in Server /\ m.Index \in Nat /\ m.LogTerm \in Nat
    BY DEF AppMessage
  <1>2. r.log \in LogType /\ LastIndex(r.log) \in Nat
    BY NodeFields, LogFields
  <1> DEFINE low == MinOf(m.Index, LastIndex(r.log))
             hint == FindConflictByTerm(r.log, low, m.LogTerm)
             term == TermAt(r.log, hint)
  <1>3. low \in Nat
    BY <1>1, <1>2, MinMaxNat, Zenon
  <1> HIDE DEF low
  <1>4. hint \in Nat
    BY <1>1, <1>2, <1>3, FindConflictByTermType, Zenon
  <1> HIDE DEF hint
  <1>5. term \in Nat
    BY <1>2, <1>4, TermAtType
  <1> DEFINE yes == TRUE
             a == AppRespMsg(r, m.from, m.Index)
             b == [type |-> "MsgAppResp", from |-> r.id, to |-> m.from, Term |-> 0,
                   Index |-> m.Index, Reject |-> yes, RejectHint |-> hint, LogTerm |-> term]
  <1>6. RejectMsg(r, m) = [a EXCEPT !.Reject = yes, !.RejectHint = hint, !.LogTerm = term]
    BY DEF RejectMsg, hint, low
  <1>7. yes \in BOOLEAN
    OBVIOUS
  <1> HIDE DEF term, yes
  <1>8. RejectMsg(r, m) = b
    BY <1>6, Zenon DEF AppRespMsg
  <1> HIDE DEF a
  <1>9. FromMember(r, RejectMsg(r, m))
    BY <1>1, <1>4, <1>5, <1>7, <1>8, AppRespMsgType
  <1>10. QED
    BY <1>4, <1>5, <1>8, <1>9, Zenon DEF yes

\* handleAppendEntries is a step of any member.
LEMMA HandleAppendEntriesStep ==
  ASSUME Basis, NEW r \in NodeType, NEW m \in AppMessage
  PROVE  MemberStep(r, HandleAppendEntries(r, m))
  <1>1. /\ m.from \in Server /\ m.Index \in Nat /\ m.LogTerm \in Nat /\ m.Entries \in Seq(Entry)
        /\ m.Commit \in Nat
    BY DEF AppMessage
  <1>2. r.log \in LogType /\ r.log.committed \in Nat /\ LastIndex(r.log) \in Nat
    BY NodeFields, LogFields, Zenon
  <1>3. MemberStep(r, Send(r, AppRespMsg(r, m.from, r.log.committed)))
    BY <1>1, <1>2, AcceptMsgType, SendStep
  <1>4. MemberStep(r, Send(r, RejectMsg(r, m)))
    BY RejectMsgType, SendStep
  <1>5. MemberStep(r, Panicked(r))
    BY SetPanic, LocalStep, Zenon DEF Panicked
  <1>6. ASSUME ~AppendPanics(r.log, m.Index, m.Entries)
        PROVE  MemberStep(r, Send([r EXCEPT !.log = MaybeAppend(r.log, m.Index, m.Commit, m.Entries)],
                                  AppRespMsg(r, m.from, m.Index + Len(m.Entries))))
    <2> DEFINE l == MaybeAppend(r.log, m.Index, m.Commit, m.Entries)
               s == [r EXCEPT !.log = l]
               i == m.Index + Len(m.Entries)
    <2>1. l \in LogType
      BY <1>1, <1>2, <1>6, MaybeAppendType
    <2> HIDE DEF l
    <2>2. Internal(r, s)
      BY <2>1, SetLog
    <2>3. s \in NodeType /\ s.id = r.id /\ MemberStep(r, s)
      BY <2>2, LocalStep DEF MemberStep, Stays
    <2> HIDE DEF s
    <2>4. i \in Nat
      BY <1>1, SeqLen
    <2> HIDE DEF i
    <2>5. AppRespMsg(r, m.from, i) = AppRespMsg(s, m.from, i)
      BY <2>3 DEF AppRespMsg
    <2>6. MemberStep(s, Send(s, AppRespMsg(s, m.from, i)))
      BY <1>1, <2>3, <2>4, AcceptMsgType, SendStep
    <2>7. MemberStep(r, Send(s, AppRespMsg(r, m.from, i)))
      BY <2>3, <2>5, <2>6, StepTrans
    <2>8. QED
      BY <2>7 DEF s, l, i
  <1>7. QED
    BY <1>3, <1>4, <1>5, <1>6 DEF HandleAppendEntries

\* handleHeartbeat is a step of any member.
LEMMA HandleHeartbeatStep ==
  ASSUME NEW r \in NodeType, NEW m \in HeartbeatMessage
  PROVE  MemberStep(r, HandleHeartbeat(r, m))
  <1> DEFINE l == CommitTo(r.log, m.Commit)
             s == [r EXCEPT !.log = l]
             from == m.from
             ctx == m.Context
             resp == [type |-> "MsgHeartbeatResp", from |-> r.id, to |-> from, Term |-> 0,
                      Context |-> ctx]
             sent == [type |-> "MsgHeartbeatResp", from |-> r.id, to |-> from, Term |-> r.Term,
                      Context |-> ctx]
  <1>1. from \in Server /\ m.Commit \in Nat /\ ctx \in ReadCtx \cup {NoCtx}
    BY DEF HeartbeatMessage
  <1>2. l \in LogType
    BY <1>1, NodeFields, CommitToType
  <1>3. HandleHeartbeat(r, m) = r \/ HandleHeartbeat(r, m) = Send(s, resp)
    BY DEF HandleHeartbeat
  <1> HIDE DEF l, from, ctx
  <1>4. Internal(r, s)
    BY <1>2, SetLog
  <1>5. s \in NodeType /\ s.Term = r.Term /\ MemberStep(r, s)
    BY <1>4, LocalStep DEF MemberStep, Stays
  <1> HIDE DEF s
  <1>6. Stamped(s, resp) = sent
    BY <1>5, StampedHeader
  <1>7. sent \in HeartbeatRespMessage /\ sent.type = "MsgHeartbeatResp"
    BY <1>1, NodeFields DEF HeartbeatRespMessage
  <1> HIDE DEF sent, resp
  <1>8. FromMember(s, resp)
    BY <1>6, <1>7 DEF FromMember, Message, LeaderMsgs
  <1>9. MemberStep(s, Send(s, resp))
    BY <1>5, <1>8, SendStep
  <1>10. MemberStep(r, r)
    BY DEF MemberStep, Stays, Silent
  <1>11. QED
    BY <1>3, <1>5, <1>9, <1>10, StepTrans

\* The progress that restore sets up.
LEMMA RestoredProgressType ==
  ASSUME NEW r \in NodeType, NEW last \in Nat \ {0}
  PROVE  RestoredProgress(r, last) \in [Server -> ProgressType]
  <1> DEFINE base == NewProgress(last)
             active == [base EXCEPT !.RecentActive = TRUE]
             own == MaybeUpdate(active, last - 1)
             prs == RestoredProgress(r, last)
  <1>1. base \in ProgressType
    BY NewProgressType
  <1> HIDE DEF base
  <1>2. active \in ProgressType
    BY <1>1, SetProgress, Zenon
  <1> HIDE DEF active
  <1>3. own \in ProgressType
    BY <1>2, MaybeUpdateType
  <1>4. prs = [p \in Server |-> IF p = r.id THEN own ELSE active]
    BY NodeFields DEF RestoredProgress, active, base
  <1> HIDE DEF own, prs
  <1>5. prs \in [Server -> ProgressType]
    BY <1>2, <1>3, <1>4
  <1>6. QED
    BY <1>5 DEF prs

\* handleSnapshot, with restore, is a step of any member.
LEMMA HandleSnapshotStep ==
  ASSUME NEW r \in NodeType, NEW m \in SnapMessage
  PROVE  MemberStep(r, HandleSnapshot(r, m))
  <1> DEFINE snap == m.Snapshot
             from == m.from
  <1>1. from \in Server /\ snap \in Seq(Entry) /\ Len(snap) \in Nat
    BY SeqLen, Zenon DEF SnapMessage
  <1>2. r.log \in LogType /\ r.log.committed \in Nat
    BY NodeFields, LogFields
  <1> HIDE DEF snap, from
  <1>3. CASE Restores(r, snap)
    <2> DEFINE l == LogRestore(r.log, snap)
               prs == RestoredProgress(r, Len(snap))
               none == {}
               s == [r EXCEPT !.log = l, !.granted = none, !.rejected = none, !.prs = prs]
    <2>1. Len(snap) \in Nat \ {0}
      BY <1>1, <1>2, <1>3 DEF Restores
    <2>2. l \in LogType
      BY <1>1, <1>2, <2>1, LogRestoreType
    <2>3. prs \in [Server -> ProgressType]
      BY <2>1, RestoredProgressType
    <2>4. none \in SUBSET Server /\ none \subseteq r.granted
      OBVIOUS
    <2>5. HandleSnapshot(r, m) = Send(s, AppRespMsg(r, from, Len(snap)))
      BY <1>3 DEF HandleSnapshot, snap, from
    <2> HIDE DEF l, prs, none
    <2>6. s \in NodeType
      BY <2>2, <2>3, <2>4, Zenon DEF NodeType
    <2>7. /\ s.id = r.id /\ s.Term = r.Term /\ s.Vote = r.Vote /\ s.state = r.state
          /\ s.msgs = r.msgs /\ s.granted = none
      BY DEF NodeType
    <2> HIDE DEF s
    <2>8. MemberStep(r, s)
      BY <2>4, <2>6, <2>7 DEF MemberStep, Stays, Silent
    <2>9. AppRespMsg(r, from, Len(snap)) = AppRespMsg(s, from, Len(snap))
      BY <2>7 DEF AppRespMsg
    <2>10. MemberStep(s, Send(s, AppRespMsg(s, from, Len(snap))))
      BY <1>1, <2>6, AcceptMsgType, SendStep
    <2>11. QED
      BY <2>5, <2>8, <2>9, <2>10, StepTrans
  <1>4. CASE ~Restores(r, snap)
    <2> DEFINE l == IF Len(snap) > r.log.committed THEN CommitTo(r.log, Len(snap)) ELSE r.log
               s == [r EXCEPT !.log = l]
    <2>1. l \in LogType
      BY <1>1, <1>2, CommitToType
    <2>2. HandleSnapshot(r, m) = Send(s, AppRespMsg(r, from, l.committed))
      BY <1>4 DEF HandleSnapshot, snap, from
    <2> HIDE DEF l
    <2>3. Internal(r, s)
      BY <2>1, SetLog
    <2>4. s \in NodeType /\ s.id = r.id /\ MemberStep(r, s)
      BY <2>3, LocalStep DEF MemberStep, Stays
    <2> HIDE DEF s
    <2>5. l.committed \in Nat
      BY <2>1, LogFields
    <2>6. AppRespMsg(r, from, l.committed) = AppRespMsg(s, from, l.committed)
      BY <2>4 DEF AppRespMsg
    <2>7. MemberStep(s, Send(s, AppRespMsg(s, from, l.committed)))
      BY <1>1, <2>4, <2>5, AcceptMsgType, SendStep
    <2>8. QED
      BY <2>2, <2>4, <2>6, <2>7, StepTrans
  <1>5. QED
    BY <1>3, <1>4

\* Whatever a leader sends, to handle it is a step of any member.
LEMMA HandleLeaderMsgStep ==
  ASSUME Basis, NEW r \in NodeType, NEW m \in Message, m.type \in LeaderMsgs
  PROVE  MemberStep(r, HandleLeaderMsg(r, m))
  BY MessageKinds, HandleAppendEntriesStep, HandleHeartbeatStep, HandleSnapshotStep
     DEF HandleLeaderMsg, LeaderMsgs

----------------------------------------------------------------------------
(* stepLeader.                                                             *)

\* To do nothing is such a step.
LEMMA LeaderRefl ==
  ASSUME NEW r \in NodeType
  PROVE  LeaderStep(r, r) /\ MemberStep(r, r)
  BY DEF LeaderStep, MemberStep, Stays, Led, Silent

\* A step of a leader gives an instance.
LEMMA LeaderStepType ==
  ASSUME NEW r, NEW s, LeaderStep(r, s)
  PROVE  s \in NodeType
  BY DEF LeaderStep, Stays

\* MsgProp at a leader.
LEMMA ProposeStepStep ==
  ASSUME Basis, NEW r \in NodeType, NEW data \in Value
  PROVE  LeaderStep(r, ProposeStep(r, data))
  <1> DEFINE a == AppendEntry(r, data)
  <1>1. Internal(r, a) /\ a \in NodeType
    BY AppendEntryStep
  <1> HIDE DEF a
  <1>2. LeaderStep(r, BcastAppend(a))
    BY <1>1, LocalStep, BcastAppendStep, StepTrans
  <1>3. QED
    BY <1>2, LeaderRefl DEF ProposeStep, a

\* MsgReadIndex at a leader.
LEMMA ReadIndexStepStep ==
  ASSUME NEW r \in NodeType, NEW from \in Server, NEW ctx \in ReadCtx
  PROVE  LeaderStep(r, ReadIndexStep(r, from, ctx))
  <1> DEFINE req == [Ctx |-> ctx, From |-> from]
             now == [Ctx |-> ctx, From |-> from, Index |-> r.log.committed]
             queue == Append(r.pendingReads, req)
  <1>1. req \in [Ctx : ReadCtx, From : Server] /\ r.log.committed \in Nat
    BY NodeFields, LogFields
  <1>2. LeaderStep(r, RespondToReads(r, {now}))
    <2>1. \A q \in {now} : q.Ctx \in ReadCtx /\ q.From \in Server /\ q.Index \in Nat
      BY <1>1
    <2> HIDE DEF now
    <2>2. QED
      BY <2>1, RespondToReadsStep
  <1>3. LeaderStep(r, [r EXCEPT !.pendingReads = queue])
    <2> HIDE DEF req
    <2>1. queue \in Seq([Ctx : ReadCtx, From : Server])
      BY <1>1, NodeFields, SeqAppend, Zenon
    <2> HIDE DEF queue
    <2>2. QED
      BY <2>1, SetPending, LocalStep, Zenon
  <1>4. LeaderStep(r, SendMsgReadIndexResponse(r, <<req>>))
    <2> HIDE DEF req
    <2>1. <<req>> \in Seq([Ctx : ReadCtx, From : Server])
      BY <1>1
    <2>2. QED
      BY <2>1, SendMsgReadIndexResponseStep, Zenon
  <1>5. \/ ReadIndexStep(r, from, ctx) = RespondToReads(r, {now})
        \/ ReadIndexStep(r, from, ctx) = [r EXCEPT !.pendingReads = queue]
        \/ ReadIndexStep(r, from, ctx) = SendMsgReadIndexResponse(r, <<req>>)
    BY DEF ReadIndexStep
  <1>6. QED
    BY <1>2, <1>3, <1>4, <1>5, Zenon

\* sendTimeoutNow speaks for no leader: MsgTimeoutNow is a request.
LEMMA SendTimeoutNowStep ==
  ASSUME NEW r \in NodeType, NEW to \in Server
  PROVE  LeaderStep(r, SendTimeoutNow(r, to))
  <1> DEFINE m == [type |-> "MsgTimeoutNow", from |-> r.id, to |-> to, Term |-> 0]
             s == [type |-> "MsgTimeoutNow", from |-> r.id, to |-> to, Term |-> r.Term]
  <1>1. Stamped(r, m) = s
    BY StampedHeader
  <1>2. s \in BareMessage /\ s.type = "MsgTimeoutNow"
    BY NodeFields DEF BareMessage
  <1>3. SendTimeoutNow(r, to) = Send(r, m)
    BY DEF SendTimeoutNow
  <1> HIDE DEF m, s
  <1>4. FromLeader(r, m)
    BY <1>1, <1>2 DEF FromLeader, Message, LeaderMsgs
  <1>5. QED
    BY <1>3, <1>4, SendStep

\* A progress that is marked active.
LEMMA ActiveType ==
  ASSUME NEW r \in NodeType, NEW p \in Server
  PROVE  [r.prs[p] EXCEPT !.RecentActive = TRUE] \in ProgressType
  BY NodeFields, SetProgress, Zenon

\* MsgAppResp with a rejection, at a leader.
LEMMA AppRejectedStepStep ==
  ASSUME Basis, NEW r \in NodeType, NEW m \in AppRespMessage
  PROVE  LeaderStep(r, AppRejectedStep(r, m))
  <1> DEFINE pr == [r.prs[m.from] EXCEPT !.RecentActive = TRUE]
             next == IF m.LogTerm > 0 THEN FindConflictByTerm(r.log, m.RejectHint, m.LogTerm)
                     ELSE m.RejectHint
             decr == MaybeDecrTo(pr, m.Index, next)
             new == IF decr.State = StateReplicate THEN BecomeProbe(decr) ELSE decr
             s == [r EXCEPT !.prs[m.from] = new]
  <1>1. m.from \in Server /\ m.Index \in Nat /\ m.RejectHint \in Nat /\ m.LogTerm \in Nat
    BY DEF AppRespMessage
  <1>2. pr \in ProgressType
    BY <1>1, ActiveType
  <1>3. next \in Nat
    BY <1>1, NodeFields, FindConflictByTermType, Zenon
  <1>4. AppRejectedStep(r, m) = IF ~Decrements(pr, m.Index) THEN [r EXCEPT !.prs[m.from] = pr]
                                ELSE SendAppend(s, m.from)
    BY DEF AppRejectedStep
  <1> HIDE DEF pr, next
  <1>5. decr \in ProgressType
    BY <1>1, <1>2, <1>3, MaybeDecrToType
  <1> HIDE DEF decr
  <1>6. new \in ProgressType
    BY <1>5, BecomeProbeType
  <1> HIDE DEF new
  <1>7. LeaderStep(r, [r EXCEPT !.prs[m.from] = pr])
    BY <1>1, <1>2, SetPeer, LocalStep
  <1>8. LeaderStep(r, s) /\ s \in NodeType
    BY <1>1, <1>6, SetPeer, LocalStep
  <1> HIDE DEF s
  <1>9. LeaderStep(s, SendAppend(s, m.from))
    BY <1>1, <1>8, SendAppendStep
  <1>10. QED
    BY <1>4, <1>7, <1>8, <1>9, StepTrans

\* A progress stays one when an acknowledgement is counted.
LEMMA AcknowledgedType ==
  ASSUME Basis, NEW pr \in ProgressType, NEW index \in Nat
  PROVE  Acknowledged(pr, index) \in ProgressType
  <1> DEFINE up == MaybeUpdate(pr, index)
             window == FreeLE(up.Inflights, index)
  <1>1. up \in ProgressType
    BY MaybeUpdateType
  <1>2. \/ Acknowledged(pr, index) = BecomeReplicate(up)
        \/ Acknowledged(pr, index) = BecomeReplicate(BecomeProbe(up))
        \/ Acknowledged(pr, index) = up
        \/ Acknowledged(pr, index) = [up EXCEPT !.Inflights = window]
    BY DEF Acknowledged
  <1> HIDE DEF up
  <1>3. window \in Seq(Nat)
    BY <1>1, ProgressFields, FreeLEType
  <1> HIDE DEF window
  <1>4. QED
    BY <1>1, <1>2, <1>3, BecomeReplicateType, BecomeProbeType, SetProgress

\* MsgAppResp with an acknowledgement, at a leader.
LEMMA AppAcceptedStepStep ==
  ASSUME Basis, NEW r \in NodeType, NEW m \in AppRespMessage
  PROVE  LeaderStep(r, AppAcceptedStep(r, m))
  <1> DEFINE pr == [r.prs[m.from] EXCEPT !.RecentActive = TRUE]
             new == Acknowledged(pr, m.Index)
             acked == [r EXCEPT !.prs[m.from] = new]
             commit == MaybeCommit(acked)
             release == ReleasePendingReadIndexMessages(commit)
             sent == IF CanCommit(acked) THEN BcastAppend(release)
                     ELSE IF IsPaused(pr) THEN SendAppend(acked, m.from)
                     ELSE acked
             drained == DrainAppends(sent, m.from)
             old == MaybeUpdate(pr, m.Index)
  <1>1. m.from \in Server /\ m.Index \in Nat
    BY DEF AppRespMessage
  <1>2. pr \in ProgressType
    BY <1>1, ActiveType, Zenon
  <1>3. \/ AppAcceptedStep(r, m) = [r EXCEPT !.prs[m.from] = old]
        \/ AppAcceptedStep(r, m) = SendTimeoutNow(drained, m.from)
        \/ AppAcceptedStep(r, m) = drained
    BY DEF AppAcceptedStep
  <1> HIDE DEF pr
  <1>4. new \in ProgressType /\ old \in ProgressType
    BY <1>1, <1>2, AcknowledgedType, MaybeUpdateType
  <1> HIDE DEF new, old
  <1>5. LeaderStep(r, [r EXCEPT !.prs[m.from] = old])
    BY <1>1, <1>4, SetPeer, LocalStep
  <1>6. LeaderStep(r, acked) /\ acked \in NodeType
    BY <1>1, <1>4, SetPeer, LocalStep
  <1> HIDE DEF acked
  <1>7. LeaderStep(acked, commit) /\ commit \in NodeType
    BY <1>6, MaybeCommitStep, LocalStep
  <1> HIDE DEF commit
  <1>8. LeaderStep(commit, release) /\ release \in NodeType
    BY <1>7, ReleasePendingStep, LeaderStepType
  <1> HIDE DEF release
  <1>9. LeaderStep(release, BcastAppend(release))
    BY <1>8, BcastAppendStep
  <1>10. LeaderStep(acked, BcastAppend(release))
    BY <1>7, <1>8, <1>9, StepTrans
  <1>11. LeaderStep(acked, SendAppend(acked, m.from)) /\ LeaderStep(acked, acked)
    BY <1>1, <1>6, SendAppendStep, LeaderRefl
  <1>12. LeaderStep(acked, sent) /\ sent \in NodeType
    BY <1>10, <1>11, LeaderStepType
  <1> HIDE DEF sent
  <1>13. LeaderStep(sent, drained) /\ drained \in NodeType
    BY <1>1, <1>12, DrainAppendsStep, LeaderStepType
  <1> HIDE DEF drained
  <1>14. LeaderStep(r, drained)
    BY <1>6, <1>12, <1>13, StepTrans
  <1>15. LeaderStep(r, SendTimeoutNow(drained, m.from))
    BY <1>1, <1>13, <1>14, SendTimeoutNowStep, StepTrans
  <1>16. QED
    BY <1>3, <1>5, <1>14, <1>15

\* MsgHeartbeatResp at a leader.
LEMMA HeartbeatRespStepStep ==
  ASSUME Basis, NEW r \in NodeType, NEW m \in HeartbeatRespMessage
  PROVE  LeaderStep(r, HeartbeatRespStep(r, m))
  <1> DEFINE pr == r.prs[m.from]
             freed == IF pr.State = StateReplicate /\ Full(pr.Inflights)
                      THEN FreeFirstOne(pr.Inflights) ELSE pr.Inflights
             new == [pr EXCEPT !.RecentActive = TRUE, !.ProbeSent = FALSE, !.Inflights = freed]
             awake == [r EXCEPT !.prs[m.from] = new]
             sent == IF pr.Match < LastIndex(r.log) THEN SendAppend(awake, m.from) ELSE awake
  <1>1. m.from \in Server
    BY DEF HeartbeatRespMessage
  <1>2. pr \in ProgressType
    BY <1>1, NodeFields
  <1>3. HeartbeatRespStep(r, m) = sent \/ HeartbeatRespStep(r, m) = AckRead(sent, m.from, m.Context)
    BY DEF HeartbeatRespStep
  <1> HIDE DEF pr
  <1>4. freed \in Seq(Nat)
    BY <1>2, ProgressFields, FreeLEType DEF FreeFirstOne
  <1> HIDE DEF freed
  <1>5. new \in ProgressType
    BY <1>2, <1>4, Zenon DEF ProgressType
  <1> HIDE DEF new
  <1>6. LeaderStep(r, awake) /\ awake \in NodeType
    BY <1>1, <1>5, SetPeer, LocalStep
  <1> HIDE DEF awake
  <1>7. LeaderStep(r, SendAppend(awake, m.from))
    BY <1>1, <1>6, SendAppendStep, StepTrans
  <1>8. LeaderStep(r, sent) /\ sent \in NodeType
    BY <1>6, <1>7, LeaderStepType
  <1> HIDE DEF sent
  <1>9. LeaderStep(r, AckRead(sent, m.from, m.Context))
    BY <1>1, <1>8, AckReadStep, StepTrans
  <1>10. QED
    BY <1>3, <1>8, <1>9

\* MsgSnapStatus at a leader.
LEMMA SnapStatusStepStep ==
  ASSUME NEW r \in NodeType, NEW from \in Server, NEW reject \in BOOLEAN
  PROVE  LeaderStep(r, SnapStatusStep(r, from, reject))
  <1> DEFINE pending == IF reject THEN 0 ELSE r.prs[from].PendingSnapshot
             pr == [r.prs[from] EXCEPT !.PendingSnapshot = pending]
             probe == BecomeProbe(pr)
             new == [probe EXCEPT !.ProbeSent = TRUE]
  <1>1. r.prs[from] \in ProgressType
    BY NodeFields
  <1>2. pending \in Nat
    BY <1>1, ProgressFields
  <1>3. \/ SnapStatusStep(r, from, reject) = r
        \/ SnapStatusStep(r, from, reject) = [r EXCEPT !.prs[from] = new]
    BY DEF SnapStatusStep
  <1> HIDE DEF pending
  <1>4. pr \in ProgressType
    BY <1>1, <1>2, SetProgress
  <1> HIDE DEF pr
  <1>5. probe \in ProgressType
    BY <1>4, BecomeProbeType
  <1> HIDE DEF probe
  <1>6. new \in ProgressType
    BY <1>5, SetProgress, Zenon
  <1> HIDE DEF new
  <1>7. QED
    BY <1>3, <1>6, LeaderRefl, SetPeer, LocalStep

\* MsgUnreachable at a leader.
LEMMA UnreachableStepStep ==
  ASSUME NEW r \in NodeType, NEW from \in Server
  PROVE  LeaderStep(r, UnreachableStep(r, from))
  <1> DEFINE new == BecomeProbe(r.prs[from])
  <1>1. new \in ProgressType
    BY NodeFields, BecomeProbeType
  <1>2. UnreachableStep(r, from) = r \/ UnreachableStep(r, from) = [r EXCEPT !.prs[from] = new]
    BY DEF UnreachableStep
  <1> HIDE DEF new
  <1>3. QED
    BY <1>1, <1>2, LeaderRefl, SetPeer, LocalStep

\* MsgTransferLeader at a leader.
LEMMA TransferLeaderStepStep ==
  ASSUME NEW r \in NodeType, NEW p \in Server
  PROVE  LeaderStep(r, TransferLeaderStep(r, p))
  <1> DEFINE started == [r EXCEPT !.leadTransferee = p]
  <1>1. LeaderStep(r, started) /\ started \in NodeType
    BY SetTransferee, LocalStep, LeaderStepType
  <1>2. LeaderStep(r, AbortLeaderTransfer(r))
    BY SetTransferee, LocalStep DEF AbortLeaderTransfer
  <1>3. \/ TransferLeaderStep(r, p) = r
        \/ TransferLeaderStep(r, p) = AbortLeaderTransfer(r)
        \/ TransferLeaderStep(r, p) = SendTimeoutNow(started, p)
        \/ TransferLeaderStep(r, p) = SendAppend(started, p)
    BY DEF TransferLeaderStep
  <1> HIDE DEF started
  <1>4. LeaderStep(r, SendTimeoutNow(started, p)) /\ LeaderStep(r, SendAppend(started, p))
    BY <1>1, SendTimeoutNowStep, SendAppendStep, StepTrans
  <1>5. QED
    BY <1>2, <1>3, <1>4, LeaderRefl

\* stepLeader as a whole.
LEMMA StepLeaderStep ==
  ASSUME Basis, NEW r \in NodeType, NEW m \in Message
  PROVE  LeaderStep(r, StepLeader(r, m))
  <1>1. m.from \in Server /\ DOMAIN r.prs = Server
    BY MessageKinds, NodeFields
  <1>2. CASE m.type = "MsgProp"
    <2>1. m.Data \in Value
      BY <1>2, MessageKinds DEF PropMessage
    <2>2. StepLeader(r, m) = ProposeStep(r, m.Data)
      BY <1>1, <1>2 DEF StepLeader
    <2>3. QED
      BY <2>1, <2>2, ProposeStepStep
  <1>3. CASE m.type = "MsgReadIndex"
    <2>1. m.Context \in ReadCtx
      BY <1>3, MessageKinds DEF ReadIndexMessage
    <2>2. StepLeader(r, m) = ReadIndexStep(r, m.from, m.Context)
      BY <1>1, <1>3 DEF StepLeader
    <2>3. QED
      BY <1>1, <2>1, <2>2, ReadIndexStepStep
  <1>4. CASE m.type = "MsgAppResp"
    <2>1. StepLeader(r, m) = AppRespStep(r, m)
      BY <1>1, <1>4 DEF StepLeader
    <2>2. QED
      BY <1>4, <2>1, MessageKinds, AppRejectedStepStep, AppAcceptedStepStep DEF AppRespStep
  <1>5. CASE m.type = "MsgHeartbeatResp"
    <2>1. StepLeader(r, m) = HeartbeatRespStep(r, m)
      BY <1>1, <1>5 DEF StepLeader
    <2>2. QED
      BY <1>5, <2>1, MessageKinds, HeartbeatRespStepStep
  <1>6. CASE m.type = "MsgTransferLeader"
    <2>1. StepLeader(r, m) = TransferLeaderStep(r, m.from)
      BY <1>1, <1>6 DEF StepLeader
    <2>2. QED
      BY <1>1, <2>1, TransferLeaderStepStep
  <1>7. CASE m.type \notin {"MsgProp", "MsgReadIndex", "MsgAppResp", "MsgHeartbeatResp",
                            "MsgTransferLeader"}
    <2>1. StepLeader(r, m) = r
      BY <1>1, <1>7 DEF StepLeader
    <2>2. QED
      BY <2>1, LeaderRefl
  <1>8. QED
    BY <1>2, <1>3, <1>4, <1>5, <1>6, <1>7

----------------------------------------------------------------------------
(* Ticks of a leader.                                                      *)

\* A step down without a change of term keeps the vote.
StepsDown(r, s) ==
  /\ s \in NodeType /\ s.id = r.id /\ s.Term = r.Term /\ s.Vote = r.Vote
  /\ s.state = StateFollower /\ s.msgs = r.msgs

\* MsgCheckQuorum keeps the leader, or makes it a follower that keeps its vote.
LEMMA CheckQuorumStepStep ==
  ASSUME NEW r \in NodeType
  PROVE  Internal(r, CheckQuorumStep(r)) \/ StepsDown(r, CheckQuorumStep(r))
  <1> DEFINE active == {p \in DOMAIN r.prs : p = r.id \/ r.prs[p].RecentActive}
             quorumActive == VoteResult(Voters(r), active, DOMAIN r.prs \ active) = VoteWon
             own == [r.prs[r.id] EXCEPT !.RecentActive = TRUE]
             up == [r EXCEPT !.prs[r.id] = own]
             down == BecomeFollower(r, r.Term, None)
             s == IF quorumActive THEN up ELSE down
             idle(p) == IF p = r.id THEN s.prs[p] ELSE [s.prs[p] EXCEPT !.RecentActive = FALSE]
             prs == [p \in DOMAIN s.prs |-> idle(p)]
  <1>1. own \in ProgressType /\ r.id \in Server
    BY NodeFields, ActiveType
  <1>2. [r EXCEPT !.prs[r.id].RecentActive = TRUE] = up
    BY DEF NodeType
  <1>3. Internal(r, up)
    <2> HIDE DEF own
    <2>1. QED
      BY <1>1, SetPeer, Zenon
  <1>4. StepsDown(r, down)
    BY NodeFields, BecomeFollowerFields DEF StepsDown
  <1>5. CheckQuorumStep(r) = [s EXCEPT !.prs = prs]
    BY <1>2 DEF CheckQuorumStep
  <1> HIDE DEF up, down, quorumActive
  <1>6. s \in NodeType /\ (Internal(r, s) \/ StepsDown(r, s))
    BY <1>3, <1>4 DEF Internal, Stays, StepsDown
  <1> HIDE DEF s
  <1>7. prs \in [Server -> ProgressType]
    <2>1. DOMAIN s.prs = Server
      BY <1>6, NodeFields
    <2>2. \A p \in Server : idle(p) \in ProgressType
      BY <1>6, NodeFields, SetProgress, Zenon
    <2> HIDE DEF idle
    <2>3. QED
      BY <2>1, <2>2, Zenon
  <1> HIDE DEF prs
  <1>8. Internal(s, [s EXCEPT !.prs = prs])
    BY <1>6, <1>7, SetPrs
  <1>9. QED
    BY <1>5, <1>6, <1>8 DEF Internal, Stays, StepsDown

\* tickHeartbeat as a whole.
LEMMA TickHeartbeatStep ==
  ASSUME NEW r \in NodeType, NEW e \in BOOLEAN, NEW h \in BOOLEAN
  PROVE  LeaderStep(r, TickHeartbeat(r, e, h)) \/ StepsDown(r, TickHeartbeat(r, e, h))
  <1> DEFINE checked == IF e /\ CheckQuorum THEN CheckQuorumStep(r) ELSE r
             aborted == IF e /\ checked.state = StateLeader THEN AbortLeaderTransfer(checked)
                        ELSE checked
  <1>1. TickHeartbeat(r, e, h) = IF h /\ aborted.state = StateLeader THEN BcastHeartbeat(aborted)
                                 ELSE aborted
    BY DEF TickHeartbeat
  <1>2. Internal(r, r)
    BY DEF Internal, Stays
  <1>3. checked \in NodeType /\ (Internal(r, checked) \/ StepsDown(r, checked))
    BY <1>2, CheckQuorumStepStep DEF Internal, Stays, StepsDown
  <1> HIDE DEF checked
  <1>4. checked.state = StateLeader => Internal(checked, AbortLeaderTransfer(checked))
    BY <1>3, SetTransferee DEF AbortLeaderTransfer
  <1>5. aborted \in NodeType /\ (Internal(r, aborted) \/ StepsDown(r, aborted))
    BY <1>3, <1>4, LocalTrans DEF Internal, Stays, StepsDown, StateLeader, StateFollower
  <1> HIDE DEF aborted
  <1>6. CASE h /\ aborted.state = StateLeader
    <2>1. Internal(r, aborted)
      BY <1>5, <1>6 DEF StepsDown, StateLeader, StateFollower
    <2>2. LeaderStep(r, BcastHeartbeat(aborted))
      BY <1>5, <2>1, LocalStep, BcastHeartbeatStep, StepTrans
    <2>3. QED
      BY <1>1, <1>6, <2>2
  <1>7. CASE ~(h /\ aborted.state = StateLeader)
    BY <1>1, <1>5, <1>7, LocalStep
  <1>8. QED
    BY <1>6, <1>7

\* Whether Step hands m to the step function of the role of r: Term is 0 for
\* a local message, and a pre-vote does not change the receiver's term.
Current(r, m) ==
  m.Term = 0 \/ m.Term = r.Term \/ (KeepsTerm(m) /\ m.Term > r.Term)

----------------------------------------------------------------------------
(* stepFollower.                                                           *)

\* A follower that forwards a request says nothing on an election.
LEMMA ForwardToLeaderStep ==
  ASSUME NEW r \in NodeType, NEW m \in Message,
         m.type \in {"MsgProp", "MsgReadIndex", "MsgTransferLeader"}
  PROVE  MemberStep(r, ForwardToLeader(r, m))
  <1> DEFINE lead == r.lead
             f == [m EXCEPT !.to = lead]
             g == [f EXCEPT !.Term = r.Term]
  <1>1. ForwardToLeader(r, m) = r \/ (lead # None /\ ForwardToLeader(r, m) = Send(r, f))
    BY DEF ForwardToLeader
  <1>2. lead \in Server \cup {None} /\ r.Term \in Nat
    BY NodeFields
  <1> HIDE DEF lead
  <1>3. ASSUME lead # None
        PROVE  FromMember(r, f)
    <2>1. lead \in Server
      BY <1>2, <1>3
    <2>2. CASE m.type = "MsgProp"
      <3>1. m \in PropMessage
        BY <2>2, MessageKinds
      <3>2. f \in PropMessage /\ f.type = "MsgProp"
        BY <2>1, <3>1 DEF PropMessage
      <3> HIDE DEF f
      <3>3. Stamped(r, f) = f
        BY <3>2, StampedHeader
      <3>4. QED
        BY <3>2, <3>3 DEF FromMember, Message, LeaderMsgs
    <2>3. CASE m.type = "MsgReadIndex"
      <3>1. m \in ReadIndexMessage
        BY <2>3, MessageKinds
      <3>2. f \in ReadIndexMessage /\ f.type = "MsgReadIndex"
        BY <2>1, <3>1 DEF ReadIndexMessage
      <3> HIDE DEF f
      <3>3. Stamped(r, f) = f
        BY <3>2, StampedHeader
      <3>4. QED
        BY <3>2, <3>3 DEF FromMember, Message, LeaderMsgs
    <2>4. CASE m.type = "MsgTransferLeader"
      <3>1. m \in BareMessage
        BY <2>4, MessageKinds
      <3>2. f \in BareMessage /\ f.type = "MsgTransferLeader"
        BY <2>1, <2>4, <3>1 DEF BareMessage
      <3>3. g \in BareMessage /\ g.type = "MsgTransferLeader"
        <4> HIDE DEF f
        <4>1. QED
          BY <1>2, <3>2 DEF BareMessage
      <3>4. Stamped(r, f) = g
        <4> HIDE DEF f
        <4>1. QED
          BY <3>2, StampedHeader
      <3> HIDE DEF f, g
      <3>5. QED
        BY <3>3, <3>4 DEF FromMember, Message, LeaderMsgs
    <2>5. QED
      BY <2>2, <2>3, <2>4
  <1> HIDE DEF f
  <1>4. QED
    BY <1>1, <1>3, SendStep, LeaderRefl

----------------------------------------------------------------------------
(* Votes.                                                                  *)

\* The answer to a vote request is a message, with the term it was given.
LEMMA VoteRespMsgType ==
  ASSUME NEW r \in NodeType, NEW m \in VoteMessage, NEW term \in Terms, NEW reject \in BOOLEAN
  PROVE  LET v == VoteRespMsg(r, m, term, reject)
         IN  /\ v \in VoteRespMessage /\ Stamped(r, v) = v
             /\ v.from = r.id /\ v.to = m.from /\ v.Term = term /\ v.Reject = reject
             /\ v.type = "MsgVoteResp" => m.type = "MsgVote"
             /\ v.type \notin LeaderMsgs
  <1> DEFINE type == IF m.type = "MsgVote" THEN "MsgVoteResp" ELSE "MsgPreVoteResp"
             from == m.from
             v == [type |-> type, from |-> r.id, to |-> from, Term |-> term, Reject |-> reject]
  <1>1. VoteRespMsg(r, m, term, reject) = v
    BY DEF VoteRespMsg
  <1>2. from \in Server /\ type \in {"MsgVoteResp", "MsgPreVoteResp"}
        /\ (type = "MsgVoteResp" => m.type = "MsgVote")
    BY DEF VoteMessage
  <1>3. from = m.from
    OBVIOUS
  <1> HIDE DEF type, from
  <1>4. v \in VoteRespMessage
    BY <1>2, NodeFields DEF VoteRespMessage
  <1>5. v.type = type /\ v.from = r.id /\ v.to = from /\ v.Term = term /\ v.Reject = reject
    OBVIOUS
  <1> HIDE DEF v
  <1>6. Stamped(r, v) = v
    BY <1>2, <1>5, StampedHeader, Zenon DEF CampaignMsgs
  <1>7. QED
    BY <1>1, <1>2, <1>3, <1>4, <1>5, <1>6, Zenon DEF LeaderMsgs

\* newRaft makes a follower with the term, the vote and the log it is given.
LEMMA NewRaftType ==
  ASSUME NEW id \in Server, NEW term \in Terms, NEW vote \in Server \cup {None}, NEW log \in LogType
  PROVE  LET s == NewRaft(id, term, vote, log, Server)
         IN  /\ s \in NodeType /\ s.id = id /\ s.Term = term /\ s.Vote = vote
             /\ s.state = StateFollower /\ s.msgs = {} /\ s.readStates = {} /\ s.log = log
  <1> DEFINE last == LastIndex(log)
             new == NewProgress(last)
             pr == [new EXCEPT !.RecentActive = TRUE]
             prs == [p \in Server |-> pr]
             none == {}
             empty == <<>>
             no == FALSE
             cfg == [Voters |-> <<Server, {}>>, Learners |-> {}]
             s == [id |-> id, Term |-> term, Vote |-> vote, state |-> StateFollower, lead |-> None,
                   granted |-> none, rejected |-> none, log |-> log, cfg |-> cfg,
                   prs |-> prs, leadTransferee |-> None, readOnly |-> none, pendingReads |-> empty,
                   msgs |-> none, readStates |-> none, panic |-> no]
  <1>1. last \in Nat \ {0}
    BY LogFields
  <1>2. NewRaft(id, term, vote, log, Server) = s
    BY DEF NewRaft, MemberProgress
  <1> HIDE DEF last
  <1>3. new \in ProgressType
    BY <1>1, NewProgressType
  <1> HIDE DEF new
  <1>4. pr \in ProgressType
    BY <1>3, SetProgress, ZenonT(30)
  <1> HIDE DEF pr
  <1>5. prs \in [Server -> ProgressType]
    BY <1>4
  <1>6. /\ none \in SUBSET Server /\ none \in SUBSET ReadRequest /\ none \in SUBSET Message
        /\ none \in SUBSET [Index : Nat, Ctx : ReadCtx] /\ none = {}
        /\ empty \in Seq([Ctx : ReadCtx, From : Server]) /\ no \in BOOLEAN
    OBVIOUS
  <1>7. cfg \in {[Voters |-> <<Server, {}>>, Learners |-> {}]}
    OBVIOUS
  <1>8. StateFollower \in {StateFollower, StateCandidate, StateLeader, StatePreCandidate}
        /\ None \in Server \cup {None}
    OBVIOUS
  <1> HIDE DEF prs, none, empty, no, cfg
  <1>9. s \in NodeType
    BY <1>5, <1>6, <1>7, <1>8, ZenonT(30) DEF NodeType, cfg
  <1>10. /\ s.id = id /\ s.Term = term /\ s.Vote = vote /\ s.state = StateFollower
         /\ s.msgs = none /\ s.readStates = none /\ s.log = log
    OBVIOUS
  <1> HIDE DEF s
  <1>11. QED
    BY <1>2, <1>6, <1>9, <1>10

----------------------------------------------------------------------------

----------------------------------------------------------------------------
(* The invariant is inductive.                                             *)

\* A leader that stays one keeps its vote and speaks for its own term.
LEMMA LeaderCall ==
  ASSUME NEW r \in NodeType, NEW s, NEW G, r.state = StateLeader, LeaderStep(r, s)
  PROVE  CallOK(r, s, G)
  <1>1. r.Term \in Nat
    BY NodeFields
  <1>2. VoteKept(r, s)
    BY <1>1 DEF VoteKept, LeaderStep, Stays
  <1>3. VotesCounted(r, s, G)
    BY DEF VotesCounted, LeaderStep, Stays, StateLeader, StateCandidate
  <1>4. Honest(r, s)
    BY DEF Honest, LeaderStep, Stays, Led, IsGrant
  <1>5. QED
    BY <1>2, <1>3, <1>4 DEF CallOK

\* A node that only answers (appends, heartbeats, reads) keeps its vote.
LEMMA MemberCall ==
  ASSUME NEW r \in NodeType, NEW s, NEW G, OwnVote(r), MemberStep(r, s)
  PROVE  CallOK(r, s, G)
  <1>1. r.Term \in Nat
    BY NodeFields
  <1>2. VoteKept(r, s)
    BY <1>1 DEF VoteKept, MemberStep, Stays
  <1>3. VotesCounted(r, s, G)
    BY DEF VotesCounted, MemberStep, Stays, StateLeader, StateCandidate, OwnVote, Supporters
  <1>4. Honest(r, s)
    BY DEF Honest, MemberStep, Silent, IsGrant
  <1>5. QED
    BY <1>2, <1>3, <1>4 DEF CallOK

\* becomeFollower within the term, after MsgCheckQuorum, keeps the vote.
LEMMA StepsDownCall ==
  ASSUME NEW r \in NodeType, NEW s, NEW G, StepsDown(r, s)
  PROVE  CallOK(r, s, G)
  <1>1. r.Term \in Nat
    BY NodeFields
  <1>2. QED
    BY <1>1 DEF CallOK, VoteKept, VotesCounted, Honest, StepsDown, StateFollower, StateLeader,
                StateCandidate

\* becomeCandidate takes a new term and the node's own vote in it.
LEMMA NewCampaignCall ==
  ASSUME NEW r \in NodeType, NEW s, NEW G, NewCampaign(r, s)
  PROVE  CallOK(r, s, G)
  <1>1. r.Term \in Nat
    BY NodeFields
  <1>2. VoteKept(r, s)
    BY <1>1 DEF VoteKept, NewCampaign
  <1>3. {r.id} \in SUBSET Supporters(r, s, G)
    BY DEF Supporters
  <1>4. VotesCounted(r, s, G)
    BY <1>3 DEF VotesCounted, NewCampaign, StateLeader, StateCandidate
  <1>5. Honest(r, s)
    BY DEF Honest, NewCampaign, Silent, IsGrant
  <1>6. QED
    BY <1>2, <1>4, <1>5 DEF CallOK

\* hup: a pre-election changes no vote, an election only in a new term.
LEMMA CampaignsCall ==
  ASSUME NEW r \in NodeType, NEW s, NEW G, OwnVote(r), Campaigns(r, s)
  PROVE  CallOK(r, s, G)
  <1>1. ASSUME PreCampaign(r, s)
        PROVE  CallOK(r, s, G)
    <2>1. r.Term \in Nat
      BY NodeFields
    <2>2. QED
      BY <1>1, <2>1 DEF CallOK, VoteKept, VotesCounted, Honest, PreCampaign, Silent, IsGrant,
                        StatePreCandidate, StateLeader, StateCandidate
  <1>2. CallOK(r, r, G)
    BY LeaderRefl, MemberCall
  <1>3. QED
    BY <1>1, <1>2, NewCampaignCall, Zenon DEF Campaigns

\* A node that falls back to follower before it handles the message, as Step
\* does for a later term, is as honest as the follower it has become.
LEMMA FallsCall ==
  ASSUME NEW r \in NodeType, NEW f \in NodeType, NEW s, NEW G,
         f.id = r.id, f.state = StateFollower, f.msgs = r.msgs, f.Term >= r.Term,
         f.Term = r.Term => f.Vote = r.Vote, CallOK(f, s, G)
  PROVE  CallOK(r, s, G)
  <1>1. r.Term \in Nat /\ f.Term \in Nat /\ (s \in NodeType => s.Term \in Nat)
    BY NodeFields
  <1>2. VoteKept(r, s)
    BY <1>1 DEF VoteKept, CallOK
  <1>3. Supporters(f, s, G) \subseteq Supporters(r, s, G)
    BY DEF Supporters, StateFollower, StateCandidate
  <1>4. VotesCounted(r, s, G)
    BY <1>3 DEF VotesCounted, CallOK, StateFollower, StateLeader
  <1>5. Honest(r, s)
    BY DEF Honest, CallOK
  <1>6. QED
    BY <1>2, <1>4, <1>5 DEF CallOK

----------------------------------------------------------------------------
(* stepCandidate.                                                          *)

\* A candidate counts an answer to its request, and leads only with enough
\* of them (stepCandidate, poll).
LEMMA VoteRespStepCall ==
  ASSUME Basis, NEW r \in NodeType, NEW G, NEW m \in VoteRespMessage, m \in G, m.to = r.id,
         OwnVote(r), r.state \in {StateCandidate, StatePreCandidate},
         r.state = StateCandidate => m.type = "MsgVoteResp" /\ m.Term = r.Term
  PROVE  CallOK(r, VoteRespStep(r, m), G)
  <1> DEFINE p == RecordVote(r, m.from, ~m.Reject)
             f == BecomeFollower(p, p.Term, None)
             l == BecomeLeader(p)
             s == BcastAppend(l)
  <1>1. m.from \in Server /\ (~m.Reject) \in BOOLEAN
    BY DEF VoteRespMessage
  <1>2. /\ p \in NodeType /\ p.id = r.id /\ p.Term = r.Term /\ p.Vote = r.Vote
        /\ p.state = r.state /\ p.msgs = r.msgs /\ p.granted \subseteq r.granted \cup {m.from}
        /\ m.Reject => p.granted = r.granted
    BY <1>1, RecordVoteFields, ZenonT(30)
  <1>3. VoteRespStep(r, m) \in {f, p, CampaignElection(p, FALSE), s}
        /\ (VoteRespStep(r, m) = s =>
              VoteRespStep(r, m) \in {f, p, CampaignElection(p, FALSE)}
              \/ (TallyVotes(p) = VoteWon /\ p.state # StatePreCandidate))
    BY Zenon DEF VoteRespStep, VoteResult, TallyVotes, MajorityVoteResult, VoteWon, VoteLost,
       VotePending
  <1> HIDE DEF p
  <1>4. r.Term \in Nat /\ p.Term \in Terms
    BY <1>2, NodeFields, Zenon
  <1>5. p.state = StateCandidate => \A t : t.Term = p.Term => p.granted \subseteq Supporters(r, t, G)
    BY <1>2 DEF Supporters, IsGrant
  <1>6. CallOK(r, f, G)
    <2>1. StepsDown(r, f)
      BY <1>2, <1>4, BecomeFollowerFields DEF StepsDown
    <2>2. QED
      BY <2>1, StepsDownCall, Zenon
  <1>7. CallOK(r, p, G)
    <2>1. VoteKept(r, p) /\ Honest(r, p)
      BY <1>2, <1>4 DEF VoteKept, Honest
    <2>2. VotesCounted(r, p, G)
      BY <1>2, <1>5 DEF VotesCounted, OwnVote, StateCandidate, StatePreCandidate, StateLeader
    <2>3. QED
      BY <2>1, <2>2 DEF CallOK
  <1>8. CallOK(r, CampaignElection(p, FALSE), G)
    <2>1. NewCampaign(p, CampaignElection(p, FALSE))
      BY <1>2, CampaignElectionStep, Zenon
    <2>2. NewCampaign(r, CampaignElection(p, FALSE))
      BY <1>2, <2>1, Zenon DEF NewCampaign, Silent
    <2>3. QED
      BY <2>2, NewCampaignCall, Zenon
  <1>9. ASSUME TallyVotes(p) = VoteWon, p.state # StatePreCandidate
        PROVE  CallOK(r, s, G)
    <2>1. /\ l \in NodeType /\ l.id = r.id /\ l.Term = r.Term /\ l.state = StateLeader
          /\ l.Vote = r.Vote /\ l.msgs = r.msgs
      BY <1>2, BecomeLeaderFields
    <2> HIDE DEF l
    <2>2. LeaderStep(l, s)
      BY <2>1, BcastAppendStep
    <2>3. s \in NodeType /\ s.id = r.id /\ s.Term = r.Term /\ s.state = StateLeader /\ s.Vote = r.Vote
      BY <2>1, <2>2 DEF LeaderStep, Stays
    <2>4. Honest(r, s)
      BY <2>1, <2>2, <2>3 DEF Honest, LeaderStep, Led, IsGrant
    <2> HIDE DEF s
    <2>5. VoteResult(<<Server, {}>>, p.granted, p.rejected) = VoteWon
      BY <1>2, <1>9, NodeFields, ZenonT(30) DEF TallyVotes
    <2>6. p.state = StateCandidate
      BY <1>2, <1>9
    <2>7. p.granted \in SUBSET Supporters(r, s, G)
      BY <1>2, <1>5, <2>3, <2>6
    <2>8. VotesCounted(r, s, G)
      <3>1. Wins(p.granted)
        BY <2>5, WinsMore
      <3>2. QED
        BY <1>2, <2>3, <2>6, <2>7, <3>1 DEF VotesCounted, OwnVote, StateCandidate, StateLeader
    <2>9. VoteKept(r, s)
      BY <1>4, <2>3 DEF VoteKept
    <2>10. QED
      BY <2>4, <2>8, <2>9 DEF CallOK
  <1>10. QED
    BY <1>3, <1>6, <1>7, <1>8, <1>9, Zenon

\* stepCandidate as a whole.
LEMMA StepCandidateCall ==
  ASSUME Basis, NEW r \in NodeType, NEW G, NEW m \in Message, m.to = r.id, Current(r, m),
         m.type = "MsgVoteResp" => m \in G, m.type = "MsgPreVoteResp" => m \in G,
         OwnVote(r), r.state \in {StateCandidate, StatePreCandidate}
  PROVE  CallOK(r, StepCandidate(r, m), G)
  <1>1. CASE m.type \in LeaderMsgs
    <2> DEFINE f == BecomeFollower(r, m.Term, m.from)
    <2>1. m.Term \in Terms /\ m.from \in Server
      BY <1>1, MessageKinds DEF LeaderMsgs
    <2>2. m.Term = r.Term
      BY <1>1, <2>1, Zenon DEF Current, KeepsTerm, LeaderMsgs, Terms
    <2>3. /\ f \in NodeType /\ f.id = r.id /\ f.Term = r.Term /\ f.state = StateFollower
          /\ f.Vote = r.Vote /\ f.msgs = r.msgs
      BY <2>1, <2>2, BecomeFollowerFields
    <2>4. r.Term \in Nat
      BY NodeFields, Zenon
    <2>5. StepCandidate(r, m) = HandleLeaderMsg(f, m)
      BY <1>1 DEF StepCandidate, LeaderMsgs, MyVoteRespType
    <2> HIDE DEF f
    <2>6. MemberStep(f, HandleLeaderMsg(f, m))
      BY <1>1, <2>3, HandleLeaderMsgStep, Zenon
    <2>7. CallOK(f, HandleLeaderMsg(f, m), G)
      BY <2>3, <2>6, MemberCall, Zenon DEF OwnVote, StateFollower, StateCandidate
    <2>8. QED
      BY <2>3, <2>4, <2>5, <2>7, FallsCall
  <1>2. CASE m.type = MyVoteRespType(r)
    <2>1. m \in VoteRespMessage /\ m.Term \in Terms /\ m \in G
      BY <1>2, MessageKinds DEF MyVoteRespType
    <2>2. StepCandidate(r, m) = VoteRespStep(r, m)
      BY <1>2 DEF StepCandidate, LeaderMsgs, MyVoteRespType
    <2>3. r.state = StateCandidate => m.type = "MsgVoteResp" /\ m.Term = r.Term
      BY <1>2, <2>1 DEF MyVoteRespType, Current, KeepsTerm, Terms, StateCandidate,
                        StatePreCandidate
    <2>4. QED
      BY <2>1, <2>2, <2>3, VoteRespStepCall
  <1>3. CASE m.type \notin LeaderMsgs /\ m.type # MyVoteRespType(r)
    <2>1. StepCandidate(r, m) = r
      BY <1>3 DEF StepCandidate
    <2>2. QED
      BY <2>1, LeaderRefl, MemberCall
  <1>4. QED
    BY <1>1, <1>2, <1>3, Zenon

\* stepFollower as a whole.
LEMMA StepFollowerCall ==
  ASSUME Basis, NEW r \in NodeType, NEW G, NEW m \in Message, r.state = StateFollower
  PROVE  CallOK(r, StepFollower(r, m), G)
  <1>1. OwnVote(r)
    BY DEF OwnVote, StateFollower, StateCandidate
  <1>2. CASE m.type \in LeaderMsgs
    <2> DEFINE from == m.from
               f == [r EXCEPT !.lead = from]
    <2>1. from \in Server
      BY MessageKinds
    <2>2. StepFollower(r, m) = HandleLeaderMsg(f, m)
      BY <1>2 DEF StepFollower, LeaderMsgs
    <2> HIDE DEF from
    <2>3. Internal(r, f)
      BY <2>1, SetLead
    <2> HIDE DEF f
    <2>4. f \in NodeType /\ MemberStep(r, f)
      BY <2>3, LocalStep DEF MemberStep, Stays
    <2>5. MemberStep(f, HandleLeaderMsg(f, m))
      BY <1>2, <2>4, HandleLeaderMsgStep
    <2>6. MemberStep(r, HandleLeaderMsg(f, m))
      BY <2>4, <2>5, StepTrans
    <2>7. QED
      BY <1>1, <2>2, <2>6, MemberCall
  <1>3. CASE m.type \in {"MsgProp", "MsgReadIndex", "MsgTransferLeader"}
    <2>1. StepFollower(r, m) = r \/ StepFollower(r, m) = ForwardToLeader(r, m)
      BY <1>3 DEF StepFollower, LeaderMsgs
    <2>2. MemberStep(r, StepFollower(r, m))
      BY <1>3, <2>1, ForwardToLeaderStep, LeaderRefl
    <2>3. QED
      BY <1>1, <2>2, MemberCall
  <1>4. CASE m.type = "MsgTimeoutNow"
    <2>1. StepFollower(r, m) = HupTransfer(r)
      BY <1>4 DEF StepFollower, LeaderMsgs
    <2>2. QED
      BY <1>1, <2>1, HupStep, CampaignsCall
  <1>5. CASE m.type = "MsgReadIndexResp"
    <2> DEFINE new == r.readStates \cup {[Index |-> m.Index, Ctx |-> m.Context]}
    <2>1. m.Index \in Nat /\ m.Context \in ReadCtx
      BY <1>5, MessageKinds DEF ReadIndexRespMessage
    <2>2. [Index |-> m.Index, Ctx |-> m.Context] \in [Index : Nat, Ctx : ReadCtx]
      BY <2>1, Zenon
    <2>3. new \in SUBSET [Index : Nat, Ctx : ReadCtx]
      BY <2>2, NodeFields
    <2>4. StepFollower(r, m) = [r EXCEPT !.readStates = new]
      BY <1>5 DEF StepFollower, LeaderMsgs
    <2> HIDE DEF new
    <2>5. MemberStep(r, StepFollower(r, m))
      BY <2>3, <2>4, SetReadStates, LocalStep
    <2>6. QED
      BY <1>1, <2>5, MemberCall
  <1>6. CASE m.type \notin LeaderMsgs \cup {"MsgProp", "MsgReadIndex", "MsgTransferLeader",
                                           "MsgTimeoutNow", "MsgReadIndexResp"}
    <2>1. StepFollower(r, m) = r
      BY <1>6 DEF StepFollower
    <2>2. QED
      BY <1>1, <2>1, LeaderRefl, MemberCall
  <1>7. QED
    BY <1>2, <1>3, <1>4, <1>5, <1>6

\* To refuse a vote changes nothing.
LEMMA RefuseVoteStep ==
  ASSUME NEW r \in NodeType, NEW m \in VoteMessage, NEW G, OwnVote(r)
  PROVE  CallOK(r, Send(r, VoteRespMsg(r, m, r.Term, TRUE)), G)
  <1> DEFINE v == VoteRespMsg(r, m, r.Term, TRUE)
             s == Send(r, v)
  <1>1. v \in VoteRespMessage /\ Stamped(r, v) = v /\ v.Reject = TRUE /\ v.type \notin LeaderMsgs
    <2> DEFINE yes == TRUE
               term == r.Term
    <2>1. yes \in BOOLEAN /\ term \in Terms /\ v = VoteRespMsg(r, m, term, yes)
      BY NodeFields, Zenon
    <2> HIDE DEF yes, term, v
    <2>2. v \in VoteRespMessage /\ Stamped(r, v) = v /\ v.Reject = yes /\ v.type \notin LeaderMsgs
      BY <2>1, VoteRespMsgType
    <2>3. QED
      BY <2>2, Zenon DEF yes
  <1> HIDE DEF v
  <1>2. Stamped(r, v) \in Message
    BY <1>1, Zenon DEF Message
  <1>3. Stays(r, s) /\ s.msgs = r.msgs \cup {v}
    BY <1>1, <1>2, SendStays
  <1> HIDE DEF s
  <1>4. r.Term \in Nat
    BY NodeFields
  <1>5. VoteKept(r, s)
    BY <1>3, <1>4 DEF VoteKept, Stays
  <1>6. VotesCounted(r, s, G)
    BY <1>3 DEF VotesCounted, Stays, StateLeader, StateCandidate, OwnVote, Supporters
  <1>7. Honest(r, s)
    BY <1>1, <1>3 DEF Honest, IsGrant
  <1>8. QED
    BY <1>5, <1>6, <1>7, Zenon DEF CallOK, s, v

\* A vote is granted to one candidate per term, and kept (Step, MsgVote).
LEMMA HandleVoteRequestCall ==
  ASSUME NEW r \in NodeType, NEW G, NEW m \in VoteMessage, Current(r, m), OwnVote(r)
  PROVE  CallOK(r, HandleVoteRequest(r, m), G)
  <1> DEFINE vote == IF m.type = "MsgVote" THEN m.from ELSE r.Vote
             c == [r EXCEPT !.Vote = vote]
             v == VoteRespMsg(r, m, m.Term, FALSE)
             s == Send(c, v)
  <1>1. m.from \in Server /\ m.Term \in Terms /\ m.type \in {"MsgVote", "MsgPreVote"}
    BY DEF VoteMessage
  <1>2. CASE CanVote(r, m) /\ IsUpToDate(r.log, m.Index, m.LogTerm)
    <2>1. HandleVoteRequest(r, m) = s
      BY <1>2 DEF HandleVoteRequest
    <2>2. /\ v \in VoteRespMessage /\ v.from = r.id /\ v.to = m.from /\ v.Term = m.Term
          /\ v.type = "MsgVoteResp" => m.type = "MsgVote"
          /\ v.type \notin LeaderMsgs
      BY <1>1, VoteRespMsgType, ZenonT(30)
    <2>3. m.type = "MsgVote" => m.Term = r.Term
      BY <1>1 DEF Current, KeepsTerm, Terms
    <2>4. r.Term \in Nat /\ r.id # None /\ r.Vote \in Server \cup {None}
      BY NodeFields, ServerAssumption
    <2>5. vote \in Server \cup {None} /\ (m.type = "MsgVote" => vote = m.from)
      BY <1>1, <2>4
    <2>6. r.Vote # None => vote = r.Vote
      BY <1>2, <2>3, <2>4 DEF CanVote
    <2> HIDE DEF vote, v
    <2>7. c \in NodeType
      BY <2>5, Zenon DEF NodeType
    <2>8. /\ c.id = r.id /\ c.Term = r.Term /\ c.Vote = vote /\ c.state = r.state
          /\ c.granted = r.granted /\ c.msgs = r.msgs
      BY DEF NodeType
    <2> HIDE DEF c
    <2>9. Stamped(c, v) = v
      BY <2>2, StampedHeader DEF CampaignMsgs, VoteRespMessage
    <2>10. Stamped(c, v) \in Message
      BY <2>2, <2>9 DEF Message
    <2>11. Stays(c, s) /\ s.msgs = r.msgs \cup {v}
      BY <2>7, <2>8, <2>9, <2>10, SendStays, Zenon
    <2> HIDE DEF s
    <2>12. /\ s \in NodeType /\ s.id = r.id /\ s.Term = r.Term /\ s.Vote = vote
           /\ s.state = r.state /\ s.granted \subseteq r.granted
      BY <2>8, <2>11 DEF Stays
    <2>13. VoteKept(r, s)
      BY <2>4, <2>6, <2>12 DEF VoteKept
    <2>14. VotesCounted(r, s, G)
      BY <2>4, <2>6, <2>12 DEF VotesCounted, StateLeader, StateCandidate, OwnVote, Supporters
    <2>15. Honest(r, s)
      BY <2>2, <2>3, <2>5, <2>11, <2>12 DEF Honest, IsGrant
    <2>16. QED
      BY <2>1, <2>13, <2>14, <2>15 DEF CallOK
  <1>3. CASE ~(CanVote(r, m) /\ IsUpToDate(r.log, m.Index, m.LogTerm))
    BY <1>3, RefuseVoteStep, Zenon DEF HandleVoteRequest
  <1>4. QED
    BY <1>2, <1>3

----------------------------------------------------------------------------
(* Step.                                                                   *)

\* A message of an earlier term changes no vote and no role.
LEMMA StepLowerTermCall ==
  ASSUME NEW r \in NodeType, NEW G, NEW m \in Message, OwnVote(r)
  PROVE  CallOK(r, StepLowerTerm(r, m), G)
  <1>1. m.from \in Server /\ (m.type = "MsgPreVote" => m \in VoteMessage) /\ 0 \in Nat
    BY MessageKinds
  <1>2. CallOK(r, Send(r, AppRespMsg(r, m.from, 0)), G)
    BY <1>1, AcceptMsgType, SendStep, MemberCall
  <1>3. CallOK(r, r, G)
    BY LeaderRefl, MemberCall
  <1>4. m.type = "MsgPreVote" => CallOK(r, Send(r, VoteRespMsg(r, m, r.Term, TRUE)), G)
    BY <1>1, RefuseVoteStep, Zenon
  <1>5. QED
    BY <1>2, <1>3, <1>4, Zenon DEF StepLowerTerm

\* The step function of the current role, whichever that is.
LEMMA StepRoleCall ==
  ASSUME Basis, NEW r \in NodeType, NEW G, NEW m \in Message, m.to = r.id, Current(r, m), OwnVote(r),
         m.type = "MsgVoteResp" => m \in G, m.type = "MsgPreVoteResp" => m \in G
  PROVE  CallOK(r, StepRole(r, m), G)
  <1>1. CASE m.type \in VoteRequests
    BY <1>1, MessageKinds, HandleVoteRequestCall, Zenon DEF StepRole, VoteRequests
  <1>2. CASE m.type \notin VoteRequests /\ r.state = StateLeader
    BY <1>2, StepLeaderStep, LeaderCall, Zenon DEF StepRole
  <1>3. CASE m.type \notin VoteRequests /\ r.state = StateFollower
    <2>1. StepRole(r, m) = StepFollower(r, m)
      BY <1>3 DEF StepRole, StateFollower, StateLeader
    <2>2. QED
      BY <1>3, <2>1, StepFollowerCall, Zenon
  <1>4. CASE m.type \notin VoteRequests /\ r.state \notin {StateLeader, StateFollower}
    <2>1. StepRole(r, m) = StepCandidate(r, m)
      BY <1>4, Zenon DEF StepRole
    <2>2. r.state \in {StateCandidate, StatePreCandidate}
      BY <1>4, NodeFields, Zenon
    <2>3. QED
      BY <2>1, <2>2, StepCandidateCall
  <1>5. QED
    BY <1>1, <1>2, <1>3, <1>4, Zenon

\* Step, whatever the message and the role: terms do not go back, a vote is
\* not changed within a term, a candidate counts only votes it was given, a
\* leader has a quorum of them, and nobody else speaks for the term.
THEOREM StepCall ==
  ASSUME Basis, NEW r \in NodeType, NEW G, NEW m \in Message, NEW recent, m.to = r.id, OwnVote(r),
         m.type = "MsgVoteResp" => m \in G, m.type = "MsgPreVoteResp" => m \in G
  PROVE  CallOK(r, Step(r, m, recent), G)
  <1>1. CallOK(r, r, G)
    BY LeaderRefl, MemberCall
  <1>2. CallOK(r, StepLowerTerm(r, m), G)
    BY StepLowerTermCall
  <1>3. ASSUME ~(m.Term # 0 /\ m.Term < r.Term)
        PROVE  CallOK(r, StepRole(AdoptTerm(r, m), m), G)
    <2>1. m.Term \in Nat /\ r.Term \in Nat /\ r.Term > 0 /\ m.from \in Server
      <3>1. m.Term \in Nat /\ m.from \in Server
        BY MessageKinds, Zenon
      <3>2. r.Term \in Nat /\ r.Term > 0
        BY NodeFields, Zenon
      <3>3. QED
        BY <3>1, <3>2
    <2>2. CASE m.Term > r.Term /\ ~KeepsTerm(m)
      <3> DEFINE lead == IF m.type \in LeaderMsgs THEN m.from ELSE None
                 term == m.Term
                 f == BecomeFollower(r, term, lead)
      <3>1. AdoptTerm(r, m) = f
        BY <2>2 DEF AdoptTerm
      <3>2. term \in Terms /\ lead \in Server \cup {None}
        <4>1. term \in Terms
          BY <2>1, <2>2 DEF Terms
        <4>2. lead \in Server \cup {None}
          BY <2>1, Zenon
        <4>3. QED
          BY <4>1, <4>2
      <3> HIDE DEF lead, term
      <3>3. /\ f \in NodeType /\ f.id = r.id /\ f.Term = term /\ f.state = StateFollower
            /\ f.msgs = r.msgs
        BY <3>2, BecomeFollowerFields
      <3> HIDE DEF f
      <3>4. OwnVote(f) /\ Current(f, m)
        BY <3>3, Zenon DEF OwnVote, Current, StateFollower, StateCandidate, term
      <3>5. CallOK(f, StepRole(f, m), G)
        BY <3>3, <3>4, StepRoleCall
      <3>6. f.Term >= r.Term /\ f.Term # r.Term
        BY <2>1, <2>2, <3>3 DEF term
      <3>7. QED
        BY <3>1, <3>3, <3>5, <3>6, FallsCall, Zenon
    <2>3. CASE ~(m.Term > r.Term /\ ~KeepsTerm(m))
      <3>1. AdoptTerm(r, m) = r
        BY <2>3 DEF AdoptTerm
      <3>2. Current(r, m)
        BY <1>3, <2>1, <2>3 DEF Current
      <3>3. QED
        BY <3>1, <3>2, StepRoleCall
    <2>4. QED
      BY <2>2, <2>3
  <1>4. QED
    BY <1>1, <1>2, <1>3, Zenon DEF Step

----------------------------------------------------------------------------
(* Ticks, start and restart.                                               *)

\* tickElection starts a campaign, and keeps the vote otherwise.
LEMMA TickElectionCall ==
  ASSUME Basis, NEW r \in NodeType, NEW G, OwnVote(r)
  PROVE  CallOK(r, TickElection(r), G)
  BY HupStep, CampaignsCall DEF TickElection

\* tickHeartbeat leaves the leader in place or makes it a follower.
LEMMA TickHeartbeatCall ==
  ASSUME NEW r \in NodeType, NEW G, NEW e \in BOOLEAN, NEW h \in BOOLEAN, r.state = StateLeader
  PROVE  CallOK(r, TickHeartbeat(r, e, h), G)
  BY TickHeartbeatStep, LeaderCall, StepsDownCall

\* A restart from stable storage keeps term and vote.
LEMMA RestartCall ==
  ASSUME NEW r \in NodeType, NEW G, r.msgs = {}
  PROVE  CallOK(r, RestartNode(r), G)
  <1>1. IDs(Voters(r)) = Server
    BY NodeFields DEF IDs
  <1>2. StepsDown(r, RestartNode(r))
    <2> DEFINE id == r.id
               term == r.Term
               vote == r.Vote
               log == r.log
    <2>1. id \in Server /\ term \in Terms /\ vote \in Server \cup {None} /\ log \in LogType
      BY NodeFields
    <2>2. RestartNode(r) = NewRaft(id, term, vote, log, Server)
      BY <1>1 DEF RestartNode
    <2> HIDE DEF id, term, vote, log
    <2>3. LET s == NewRaft(id, term, vote, log, Server)
          IN  /\ s \in NodeType /\ s.id = id /\ s.Term = term /\ s.Vote = vote
              /\ s.state = StateFollower /\ s.msgs = {}
      BY <2>1, NewRaftType
    <2>4. QED
      BY <2>2, <2>3, Zenon DEF StepsDown, id, term, vote
  <1>3. QED
    BY <1>2, StepsDownCall

=============================================================================
