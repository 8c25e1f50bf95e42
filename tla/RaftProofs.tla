----------------------------- MODULE RaftProofs -----------------------------
(***************************************************************************)
(* The facts about quorums that all rests on, and the theorems: as every   *)
(* step of the cluster is a call that keeps to its contract, the invariant *)
(* is inductive.  Type correctness, election safety and the safety of      *)
(* replication follow, for every number of servers, every value of the     *)
(* settings and every behaviour of the network.                            *)
(***************************************************************************)
EXTENDS ReplicaProofs, SafetyProofs, FiniteSetTheorems

----------------------------------------------------------------------------
(* Quorums.                                                                *)

\* A set of naturals has a least element.
LEMMA NatLeast == WellOrdered
  <1> SUFFICES ASSUME NEW S \in SUBSET Nat, S # {}
               PROVE  \E x \in S : \A y \in S : x =< y
    BY DEF WellOrdered
  <1>1. PICK x \in S : \A y \in S : ~(<<y, x>> \in OpToRel(<, Nat))
    BY NatLessThanWellFounded, WFMin
  <1>2. \A y \in S : ~(y < x)
    BY <1>1, Zenon DEF OpToRel
  <1>3. QED BY <1>2

\* Cardinalities of the subsets of a finite set.
LEMMA PartOfFinite ==
  ASSUME NEW c, IsFiniteSet(c), NEW s \in SUBSET c
  PROVE  /\ IsFiniteSet(s) /\ Cardinality(s) \in Nat /\ Cardinality(c) \in Nat
         /\ Cardinality(s) =< Cardinality(c)
         /\ s # c => Cardinality(s) < Cardinality(c)
         /\ Cardinality(c \ s) = Cardinality(c) - Cardinality(s)
  <1>1. /\ IsFiniteSet(s) /\ Cardinality(s) \in Nat /\ Cardinality(c) \in Nat
        /\ Cardinality(s) =< Cardinality(c) /\ (Cardinality(s) = Cardinality(c) => s = c)
    BY FS_Subset, FS_CardinalityType
  <1>2. c \cap s = s
    OBVIOUS
  <1>3. Cardinality(c \ s) = Cardinality(c) - Cardinality(s)
    BY <1>2, FS_Difference, Zenon
  <1>4. QED
    BY <1>1, <1>3

\* The voters at or below an index, and those below it.
AtMost(c, acked, v) == {id \in c : AckedIndex(acked, id) =< v}

Below(c, acked, v) == {id \in c : AckedIndex(acked, id) < v}

Acks(c, acked) == {AckedIndex(acked, id) : id \in c}

\* Among the acknowledged indexes below a bound, one is the greatest.
LEMMA GreatestBelow ==
  ASSUME NEW c, IsFiniteSet(c), NEW acked, \A id \in c : AckedIndex(acked, id) \in Nat,
         NEW V \in SUBSET Acks(c, acked), V # {}
  PROVE  \E v \in V : \A w \in V : w =< v
  <1> DEFINE count(v) == Cardinality(AtMost(c, acked, v))
             C == {count(v) : v \in V}
  <1>1. \A v \in V : v \in Nat /\ AtMost(c, acked, v) \in SUBSET c
    BY DEF Acks, AtMost
  <1>2. \A v \in V : count(v) \in Nat /\ count(v) =< Cardinality(c)
    BY <1>1, PartOfFinite, Zenon
  <1>3. Cardinality(c) \in Nat
    BY FS_CardinalityType
  <1>4. PICK v \in V : \A w \in V : count(w) =< count(v)
    <2> HIDE DEF count
    <2>1. C \in SUBSET Nat /\ C # {} /\ \A x \in C : x =< Cardinality(c)
      BY <1>2
    <2>2. PICK x \in C : \A y \in C : y =< x
      BY <2>1, <1>3, NatLeast, NatMax, Zenon
    <2>3. QED
      BY <2>2, Zenon
  <1>5. ASSUME NEW w \in V, v < w
        PROVE  count(v) < count(w)
    <2>1. PICK id \in c : AckedIndex(acked, id) = w
      BY DEF Acks
    <2>2. AtMost(c, acked, v) \in SUBSET AtMost(c, acked, w)
      BY <1>1, <1>5 DEF AtMost
    <2>3. id \in AtMost(c, acked, w) /\ id \notin AtMost(c, acked, v)
      BY <1>1, <1>5, <2>1 DEF AtMost
    <2>4. IsFiniteSet(AtMost(c, acked, w))
      BY <1>1, PartOfFinite, Zenon
    <2>5. QED
      BY <2>2, <2>3, <2>4, PartOfFinite, Zenon
  <1>6. \A w \in V : w =< v
    <2> SUFFICES ASSUME NEW w \in V, ~(w =< v) PROVE FALSE
      OBVIOUS
    <2>1. count(v) < count(w) /\ count(w) =< count(v)
      BY <1>1, <1>4, <1>5
    <2>2. QED
      BY <2>1, <1>2
  <1>7. QED
    BY <1>6

\* The sorted array has a value at every position.
LEMMA SortedAtExists ==
  ASSUME NEW c, IsFiniteSet(c), NEW acked, \A id \in c : AckedIndex(acked, id) \in Nat,
         NEW pos \in Nat, pos < Cardinality(c)
  PROVE  /\ SortedAt(c, acked, pos) \in Acks(c, acked)
         /\ Cardinality(Below(c, acked, SortedAt(c, acked, pos))) =< pos
         /\ Cardinality(AtMost(c, acked, SortedAt(c, acked, pos))) > pos
  <1> DEFINE A == {v \in Acks(c, acked) : Cardinality(AtMost(c, acked, v)) > pos}
  <1>1. /\ \A v : AtMost(c, acked, v) \in SUBSET c /\ Below(c, acked, v) \in SUBSET c
        /\ Acks(c, acked) \in SUBSET Nat
    BY DEF Acks, AtMost, Below
  <1>2. Acks(c, acked) # {}
    BY FS_EmptySet DEF Acks
  <1>3. A # {}
    <2>1. PICK v \in Acks(c, acked) : \A w \in Acks(c, acked) : w =< v
      BY <1>2, GreatestBelow, Zenon
    <2>2. AtMost(c, acked, v) = c
      BY <2>1 DEF AtMost, Acks
    <2>3. QED
      BY <2>2, Zenon
  <1>4. PICK v \in A : \A w \in A : v =< w
    BY <1>1, <1>3, NatLeast, Zenon DEF WellOrdered
  <1>5. Cardinality(Below(c, acked, v)) =< pos
    <2> DEFINE V == {w \in Acks(c, acked) : w < v}
    <2>1. CASE V = {}
      <3>1. Below(c, acked, v) = {}
        BY <2>1 DEF Below, Acks
      <3>2. QED
        BY <3>1, FS_EmptySet
    <2>2. CASE V # {}
      <3>1. PICK w \in V : \A x \in V : x =< w
        BY <2>2, GreatestBelow, Zenon
      <3>2. Below(c, acked, v) = AtMost(c, acked, w)
        <4>1. w \in Nat /\ v \in Nat /\ w < v
          BY <1>1, <3>1
        <4>2. \A id \in c : AckedIndex(acked, id) < v => AckedIndex(acked, id) =< w
          BY <3>1 DEF Acks
        <4>3. QED
          BY <4>1, <4>2 DEF Below, AtMost
      <3>3. w \in Acks(c, acked) /\ w \notin A
        BY <1>1, <1>4, <3>1
      <3>4. ~(Cardinality(AtMost(c, acked, w)) > pos)
        BY <3>3
      <3>5. Cardinality(AtMost(c, acked, w)) \in Nat
        BY <1>1, PartOfFinite, Zenon
      <3>6. QED
        BY <3>2, <3>4, <3>5
    <2>3. QED
      BY <2>1, <2>2
  <1>6. \E x \in Acks(c, acked) : /\ Cardinality(Below(c, acked, x)) =< pos
                                  /\ Cardinality(AtMost(c, acked, x)) > pos
    BY <1>4, <1>5, Zenon
  <1>7. SortedAt(c, acked, pos) =
          CHOOSE x \in Acks(c, acked) : /\ Cardinality(Below(c, acked, x)) =< pos
                                        /\ Cardinality(AtMost(c, acked, x)) > pos
    BY DEF SortedAt, Acks, Below, AtMost
  <1>8. QED
    BY <1>6, <1>7, Zenon

\* Two winning sets of votes share a voter.
LEMMA MajorityWinnersMeet ==
  ASSUME NEW c, IsFiniteSet(c), c # {}, NEW y1, NEW n1, NEW y2, NEW n2,
         MajorityVoteResult(c, y1, n1) = VoteWon, MajorityVoteResult(c, y2, n2) = VoteWon
  PROVE  \E id \in c : id \in y1 /\ id \in y2
  <1>1. Cardinality(c \cap y1) >= Cardinality(c) \div 2 + 1
    BY DEF MajorityVoteResult, VoteWon, VotePending, VoteLost
  <1>2. Cardinality(c \cap y2) >= Cardinality(c) \div 2 + 1
    BY DEF MajorityVoteResult, VoteWon, VotePending, VoteLost
  <1>3. /\ Cardinality(c) \in Nat /\ Cardinality(c \cap y1) \in Nat
        /\ Cardinality(c \cap y2) \in Nat
    BY PartOfFinite, Zenon
  <1>4. Cardinality(c \cap y1) + Cardinality(c \cap y2) > Cardinality(c)
    BY <1>1, <1>2, <1>3
  <1>5. (c \cap y1) \cap (c \cap y2) # {}
    BY <1>4, FS_MajoritiesIntersect, Zenon
  <1>6. QED
    BY <1>5, Zenon

\* Two joint configurations of which one has won both halves: the decisions
\* that VoteResult calls won share a voter, also while the halves differ.
THEOREM WinnersMeet ==
  ASSUME NEW c, IsFiniteSet(c[1]), c[1] # {}, NEW y1, NEW n1, NEW y2, NEW n2,
         VoteResult(c, y1, n1) = VoteWon, VoteResult(c, y2, n2) = VoteWon
  PROVE  \E id \in c[1] : id \in y1 /\ id \in y2
  <1>1. MajorityVoteResult(c[1], y1, n1) = VoteWon /\ MajorityVoteResult(c[1], y2, n2) = VoteWon
    BY DEF VoteResult, VoteWon, VotePending, VoteLost
  <1>2. QED
    BY <1>1, MajorityWinnersMeet

\* A won vote stays won whatever else is recorded: VoteWon is final.
THEOREM WonIsFinal ==
  ASSUME NEW c, IsFiniteSet(c[1]), IsFiniteSet(c[2]), NEW y1, NEW n1, NEW y2, NEW n2,
         y1 \subseteq y2, VoteResult(c, y1, n1) = VoteWon
  PROVE  VoteResult(c, y2, n2) = VoteWon
  <1>1. ASSUME NEW h, IsFiniteSet(h), MajorityVoteResult(h, y1, n1) = VoteWon
        PROVE  MajorityVoteResult(h, y2, n2) = VoteWon
    <2>1. CASE h = {}
      BY <2>1 DEF MajorityVoteResult
    <2>2. CASE h # {}
      <3>1. Cardinality(h \cap y1) >= Cardinality(h) \div 2 + 1
        BY <1>1, <2>2 DEF MajorityVoteResult, VoteWon, VotePending, VoteLost
      <3>2. IsFiniteSet(h \cap y2) /\ h \cap y1 \in SUBSET (h \cap y2)
        BY <1>1, PartOfFinite, Zenon
      <3>3. /\ Cardinality(h \cap y1) =< Cardinality(h \cap y2) /\ Cardinality(h \cap y1) \in Nat
            /\ Cardinality(h \cap y2) \in Nat
        BY <3>2, PartOfFinite, Zenon
      <3>4. Cardinality(h) \in Nat
        BY <1>1, FS_CardinalityType
      <3>5. Cardinality(h \cap y2) >= Cardinality(h) \div 2 + 1
        BY <3>1, <3>3, <3>4
      <3>6. QED
        BY <3>5 DEF MajorityVoteResult
    <2>3. QED
      BY <2>1, <2>2, Zenon
  <1>2. MajorityVoteResult(c[1], y1, n1) = VoteWon /\ MajorityVoteResult(c[2], y1, n1) = VoteWon
    BY DEF VoteResult, VoteWon, VotePending, VoteLost
  <1>3. MajorityVoteResult(c[1], y2, n2) = VoteWon /\ MajorityVoteResult(c[2], y2, n2) = VoteWon
    BY <1>1, <1>2
  <1>4. QED
    BY <1>3 DEF VoteResult

\* A majority of the voters has acknowledged the committed index, and no
\* larger index has that: what MajorityConfig.CommittedIndex computes.
LEMMA MajorityCommittedIsAcked ==
  ASSUME NEW c, IsFiniteSet(c), c # {}, NEW acked, \A id \in c : AckedIndex(acked, id) \in Nat
  PROVE  /\ MajorityCommittedIndex(c, acked) \in Nat
         /\ Cardinality({id \in c : AckedIndex(acked, id) >= MajorityCommittedIndex(c, acked)})
              >= Cardinality(c) \div 2 + 1
         /\ \A i \in Nat : i > MajorityCommittedIndex(c, acked) =>
              Cardinality({id \in c : AckedIndex(acked, id) >= i}) < Cardinality(c) \div 2 + 1
  <1> DEFINE n == Cardinality(c)
             pos == n - (n \div 2 + 1)
             v == SortedAt(c, acked, pos)
  <1>1. n \in Nat /\ n > 0
    BY FS_CardinalityType, FS_EmptySet
  <1>2. pos \in Nat /\ pos < n
    BY <1>1
  <1>3. MajorityCommittedIndex(c, acked) = v
    BY DEF MajorityCommittedIndex
  <1> HIDE DEF pos, v
  <1>4. /\ v \in Acks(c, acked) /\ Cardinality(Below(c, acked, v)) =< pos
        /\ Cardinality(AtMost(c, acked, v)) > pos
    BY <1>2, SortedAtExists, Zenon DEF v
  <1>5. v \in Nat
    BY <1>4, Zenon DEF Acks
  <1>6. Cardinality({id \in c : AckedIndex(acked, id) >= v}) >= n \div 2 + 1
    <2>1. {id \in c : AckedIndex(acked, id) >= v} = c \ Below(c, acked, v)
      BY <1>5 DEF Below
    <2>2. Below(c, acked, v) \in SUBSET c
      BY DEF Below
    <2>3. /\ Cardinality(c \ Below(c, acked, v)) = n - Cardinality(Below(c, acked, v))
          /\ Cardinality(Below(c, acked, v)) \in Nat
      BY <2>2, PartOfFinite
    <2>4. Cardinality(c \ Below(c, acked, v)) >= n \div 2 + 1
      BY <1>1, <1>4, <2>3 DEF pos
    <2>5. QED
      BY <2>1, <2>4, Zenon
  <1>7. ASSUME NEW i \in Nat, i > v
        PROVE  Cardinality({id \in c : AckedIndex(acked, id) >= i}) < n \div 2 + 1
    <2> DEFINE above == c \ AtMost(c, acked, v)
    <2>1. {id \in c : AckedIndex(acked, id) >= i} \in SUBSET above
      BY <1>5, <1>7 DEF AtMost
    <2>2. AtMost(c, acked, v) \in SUBSET c
      BY DEF AtMost
    <2>3. /\ Cardinality(above) = n - Cardinality(AtMost(c, acked, v))
          /\ Cardinality(AtMost(c, acked, v)) \in Nat
      BY <2>2, PartOfFinite, Zenon
    <2>4. IsFiniteSet(above)
      BY FS_Subset
    <2>5. /\ Cardinality({id \in c : AckedIndex(acked, id) >= i}) =< Cardinality(above)
          /\ Cardinality({id \in c : AckedIndex(acked, id) >= i}) \in Nat
      <3> HIDE DEF above
      <3>1. QED
        BY <2>1, <2>4, PartOfFinite, Zenon
    <2>6. QED
      BY <1>1, <1>4, <2>3, <2>5 DEF pos
  <1>8. QED
    BY <1>3, <1>5, <1>6, <1>7, Zenon

\* A won vote stays won with more votes.
LEMMA QuorumsGrow ==
  ASSUME NEW P, NEW Q, NEW no, P \subseteq Q, VoteResult(<<Server, {}>>, P, no) = VoteWon
  PROVE  Wins(Q)
  <1>1. IsFiniteSet(<<Server, {}>>[1]) /\ IsFiniteSet(<<Server, {}>>[2])
    BY ServerAssumption, FS_EmptySet
  <1>2. VoteResult(<<Server, {}>>, Q, {}) = VoteWon
    BY <1>1, WonIsFinal
  <1>3. QED
    BY <1>2 DEF Wins

\* Two quorums share a node.
LEMMA QuorumsMeet ==
  ASSUME NEW Q, NEW R, Wins(Q), Wins(R)
  PROVE  \E a \in Server : a \in Q /\ a \in R
  <1> DEFINE c == <<Server, {}>>
  <1>1. IsFiniteSet(c[1]) /\ c[1] # {} /\ c[1] = Server
    BY ServerAssumption, Zenon
  <1>2. VoteResult(c, Q, {}) = VoteWon /\ VoteResult(c, R, {}) = VoteWon
    BY DEF Wins
  <1> HIDE DEF c
  <1>3. \E id \in c[1] : id \in Q /\ id \in R
    BY <1>1, <1>2, WinnersMeet
  <1>4. QED
    BY <1>1, <1>3, Zenon

\* All servers are a quorum.
LEMMA AllWin == Wins(Server)
  <1> DEFINE c == Cardinality(Server)
             none == {}
  <1>1. c \in Nat /\ c # 0
    BY ServerAssumption, FS_CardinalityType, FS_EmptySet
  <1>2. Server \cap Server = Server /\ none = {}
    OBVIOUS
  <1> HIDE DEF none
  <1>3. c >= c \div 2 + 1
    <2> HIDE DEF c
    <2>1. QED
      BY <1>1
  <1>4. MajorityVoteResult(Server, Server, none) = VoteWon
    BY <1>2, <1>3, Zenon DEF MajorityVoteResult
  <1>5. MajorityVoteResult(none, Server, none) = VoteWon
    BY <1>2, Zenon DEF MajorityVoteResult
  <1>6. VoteResult(<<Server, none>>, Server, none) = VoteWon
    BY <1>4, <1>5 DEF VoteResult
  <1>7. QED
    BY <1>2, <1>6, Zenon DEF Wins

\* A quorum has acknowledged the index that MajorityCommittedIndex finds.
LEMMA CommittedIsAcked ==
  ASSUME NEW acked, \A id \in Server : AckedIndex(acked, id) \in Nat
  PROVE  LET k == MajorityCommittedIndex(Server, acked)
         IN  k \in Nat /\ Wins({id \in Server : AckedIndex(acked, id) >= k})
  <1> DEFINE k == MajorityCommittedIndex(Server, acked)
             P == {id \in Server : AckedIndex(acked, id) >= k}
  <1>1. k \in Nat /\ Cardinality(P) >= Cardinality(Server) \div 2 + 1
    BY ServerAssumption, MajorityCommittedIsAcked, Zenon
  <1>2. Server \cap P = P /\ Server # {}
    BY ServerAssumption
  <1> HIDE DEF P, k
  <1>3. MajorityVoteResult(Server, P, {}) = VoteWon /\ MajorityVoteResult({}, P, {}) = VoteWon
    BY <1>1, <1>2, Zenon DEF MajorityVoteResult
  <1>4. VoteResult(<<Server, {}>>, P, {}) = VoteWon
    BY <1>3, Zenon DEF VoteResult
  <1>5. QED
    BY <1>1, <1>4 DEF Wins, P, k

\* What the argument rests on holds.
LEMMA BasisHolds == Basis
  <1>1. \A P, Q, no : VoteResult(<<Server, {}>>, P, no) = VoteWon /\ P \subseteq Q => Wins(Q)
    BY QuorumsGrow, Zenon
  <1>2. \A P, Q : Wins(P) /\ Wins(Q) => \E a \in Server : a \in P /\ a \in Q
    BY QuorumsMeet, Zenon
  <1>3. \A acked : (\A id \in Server : AckedIndex(acked, id) \in Nat) =>
          /\ MajorityCommittedIndex(Server, acked) \in Nat
          /\ Wins({id \in Server : AckedIndex(acked, id) >= MajorityCommittedIndex(Server, acked)})
    BY CommittedIsAcked, Zenon
  <1>4. ASSUME NEW f \in [Server -> Nat]
        PROVE  \E p \in Server : \A q \in Server : f[q] =< f[p]
    <2> DEFINE V == Acks(Server, f)
    <2>1. \A p \in Server : AckedIndex(f, p) = f[p] /\ f[p] \in Nat
      BY DEF AckedIndex
    <2>2. V # {}
      BY ServerAssumption DEF Acks
    <2>3. /\ IsFiniteSet(Server) /\ V \in SUBSET Acks(Server, f)
          /\ \A id \in Server : AckedIndex(f, id) \in Nat
      BY <2>1, ServerAssumption, Zenon
    <2> HIDE DEF V
    <2>4. PICK v \in V : \A w \in V : w =< v
      BY <2>2, <2>3, GreatestBelow, Zenon
    <2>5. PICK p \in Server : v = AckedIndex(f, p)
      BY Zenon DEF V, Acks
    <2>6. \A q \in Server : AckedIndex(f, q) \in V
      BY Zenon DEF V, Acks
    <2>7. \A q \in Server : f[q] =< f[p]
      BY <2>1, <2>4, <2>5, <2>6, Zenon
    <2>8. QED
      BY <2>7, Zenon
  <1>5. QED
    BY <1>1, <1>2, <1>3, <1>4, NatLeast, AllWin, Zenon DEF Basis

----------------------------------------------------------------------------
(* The cluster starts.                                                     *)

\* Bootstrap makes a follower of term 1.
LEMMA BootstrapType ==
  ASSUME NEW id \in Server
  PROVE  LET s == Bootstrap(id, Server)
         IN  /\ s \in NodeType /\ s.id = id /\ s.Term = 1 /\ s.Vote = None
             /\ s.state = StateFollower /\ s.msgs = {} /\ s.readStates = {}
  <1> DEFINE n == Cardinality(Server)
             e == [Term |-> 1, Data |-> ConfChangeData]
             ents == [i \in 1..n |-> e]
             log == [ents |-> ents, offset |-> 0, committed |-> n]
  <1>1. n \in Nat \ {0}
    BY ServerAssumption, FS_CardinalityType, FS_EmptySet, Zenon
  <1>2. e \in Entry
    BY DEF Entry
  <1> HIDE DEF n, e
  <1>3. ents \in Seq(Entry) /\ Len(ents) = n
    BY <1>1, <1>2
  <1>4. Bootstrap(id, Server) = NewRaft(id, 1, None, log, Server)
    BY DEF Bootstrap, n, e
  <1> HIDE DEF ents
  <1>5. log \in LogType
    <2> DEFINE zero == 0
    <2>1. zero \in Nat /\ zero =< n /\ n =< Len(ents) /\ n \in Nat /\ n > 0
      BY <1>1, <1>3
    <2>2. log = [ents |-> ents, offset |-> zero, committed |-> n]
      OBVIOUS
    <2> HIDE DEF zero, log
    <2>3. QED
      BY <1>3, <2>1, <2>2, MakeLog, Zenon
  <1> HIDE DEF log
  <1>6. 1 \in Terms
    BY DEF Terms
  <1>7. QED
    BY <1>4, <1>5, <1>6, NewRaftType

\* All nodes bootstrap with the same log.
LEMMA InitStarted ==
  ASSUME Init
  PROVE  \E E : Started(E)
  <1> DEFINE c == Cardinality(Server)
             e == [Term |-> 1, Data |-> ConfChangeData]
             E == [i \in 1..c |-> e]
  <1>1. c \in Nat \ {0}
    BY ServerAssumption, FS_CardinalityType, FS_EmptySet
  <1>2. e \in Entry /\ e.Term = 1
    BY DEF Entry
  <1>3. \A n \in Server : rs[n] = NewRaft(n, 1, None, [ents |-> E, offset |-> 0, committed |-> c], Server)
    BY DEF Init, Bootstrap
  <1> HIDE DEF c, e
  <1>4. E \in Seq(Entry) /\ Len(E) = c /\ \A j \in 1..c : E[j] = e
    BY <1>1, <1>2
  <1> HIDE DEF E
  <1>5. \A n \in Server : /\ rs[n].log.ents = E /\ rs[n].log.committed = c
                          /\ rs[n].lead = None /\ ~rs[n].panic
    <2> DEFINE log == [ents |-> E, offset |-> 0, committed |-> c]
    <2>1. log.ents = E /\ log.committed = c
      OBVIOUS
    <2>2. \A n \in Server : rs[n] = NewRaft(n, 1, None, log, Server)
      BY <1>3, Zenon
    <2> HIDE DEF log
    <2>3. ASSUME NEW n \in Server
          PROVE  LET s == NewRaft(n, 1, None, log, Server)
                 IN  s.log = log /\ s.lead = None /\ s.panic = FALSE
      <3> DEFINE prs == MemberProgress(Server, LastIndex(log))
                 cfg == [Voters |-> <<Server, {}>>, Learners |-> {}]
                 none == {}
                 empty == <<>>
      <3>1. NewRaft(n, 1, None, log, Server) =
              [id |-> n, Term |-> 1, Vote |-> None, state |-> StateFollower, lead |-> None,
               granted |-> none, rejected |-> none, log |-> log, cfg |-> cfg, prs |-> prs,
               leadTransferee |-> None, readOnly |-> none, pendingReads |-> empty,
               msgs |-> none, readStates |-> none, panic |-> FALSE]
        BY DEF NewRaft
      <3> HIDE DEF prs, cfg, none, empty
      <3>2. QED
        BY <3>1
    <2>4. QED
      BY <2>1, <2>2, <2>3, ZenonT(30)
  <1>6. Len(E) > 0 /\ \A j \in 1..Len(E) : E[j].Term = 1
    BY <1>1, <1>2, <1>4
  <1>7. \A n \in Server : /\ rs[n] \in NodeType /\ rs[n].id = n /\ rs[n].Term = 1
                          /\ rs[n].state = StateFollower
                          /\ rs[n].msgs = {} /\ rs[n].readStates = {}
    BY BootstrapType DEF Init
  <1>8. rs \in [Server -> NodeType]
    <2>1. \A n \in Server : Bootstrap(n, Server) \in NodeType
      BY BootstrapType, Zenon
    <2>2. QED
      BY <2>1 DEF Init
  <1>9. Started(E)
    BY <1>4, <1>5, <1>6, <1>7, <1>8 DEF Started, Init
  <1>10. QED
    BY <1>9, Zenon

----------------------------------------------------------------------------
(* The invariant is inductive.                                             *)

\* The invariant holds at the start.
LEMMA InitInv == Init => SafetyInv
  BY BasisHolds, InitStarted, InitSafety, Zenon

\* Every step keeps the invariant: it is a call that keeps to its contract.
LEMMA NextInv == SafetyInv /\ [Next]_vars => SafetyInv'
  <1> SUFFICES ASSUME SafetyInv, [Next]_vars
               PROVE  SafetyInv'
    OBVIOUS
  <1>1. CASE UNCHANGED vars
    BY <1>1, StutterSafety, Zenon
  <1>2. CASE Next
    <2>1. PICK n \in Server : \E s : Calls(n, s)
      BY <1>2, BasisHolds, InvPrepared, NextCalls
    <2>2. PICK s : Calls(n, s)
      BY <2>1
    <2>3. QED
      BY <2>2, BasisHolds, CallsSafety, Zenon
  <1>3. QED
    BY <1>1, <1>2

\* What a node has committed no step takes back or replaces.
LEMMA NextKeepsCommitted ==
  ASSUME SafetyInv, Next, NEW n \in Server
  PROVE  /\ rs[n].log.committed =< rs'[n].log.committed
         /\ Committed(n) = SubSeq(rs'[n].log.ents, 1, rs[n].log.committed)
  <1>1. PICK p \in Server : \E s : Calls(p, s)
    BY BasisHolds, InvPrepared, NextCalls
  <1>2. PICK s : Calls(p, s)
    BY <1>1, Zenon
  <1>3. QED
    BY <1>2, BasisHolds, CallsKeepCommitted, Zenon

----------------------------------------------------------------------------
(* Raft is safe, for any number of servers, any values and any settings.   *)

\* Step, the ticks and the application's calls keep every component of the
\* state in its type, whatever the messages that arrive.
THEOREM TypeCorrect == Spec => []TypeOK
  <1>1. SafetyInv => TypeOK
    BY DEF SafetyInv, History, ElectionInv
  <1>2. QED
    BY <1>1, InitInv, NextInv, PTL DEF Spec

\* A vote that was sent out survives every later step and every restart
\* (hardState, loadState, the vote in Step and in reset).
THEOREM DurableVotes == Spec => []VotesAreDurable
  <1>1. SafetyInv => VotesAreDurable
    BY DEF SafetyInv, History, ElectionInv
  <1>2. QED
    BY <1>1, InitInv, NextInv, PTL DEF Spec

\* Two nodes never lead, or speak for the leader, in the same term, for any
\* number of servers (campaign, poll, becomeLeader).
THEOREM OneLeaderPerTerm == Spec => []ElectionSafety
  <1>1. SafetyInv => ElectionSafety
    BY BasisHolds, InvSafety DEF SafetyInv, History
  <1>2. QED
    BY <1>1, InitInv, NextInv, PTL DEF Spec

\* Two logs with an entry of the same index and term agree up to it, whatever
\* appends, snapshots and truncations are delivered (maybeAppend, append,
\* findConflict, restore).
THEOREM LogsMatch == Spec => []LogMatching
  BY InitInv, NextInv, InvLogMatching, PTL DEF Spec

\* A leader has all that a node of its term or an earlier one has committed
\* (isUpToDate in Step, maybeCommit's check of the term).
THEOREM LeadersAreComplete == Spec => []LeaderCompleteness
  BY BasisHolds, InitInv, NextInv, InvLeaderCompleteness, PTL DEF Spec

\* No two nodes commit different entries at the same index (commitTo, reached
\* from appends, heartbeats, snapshots and acknowledgements).
THEOREM AppliedIsAgreed == Spec => []StateMachineSafety
  BY BasisHolds, InitInv, NextInv, InvStateMachineSafety, PTL DEF Spec

\* What a leader counts, a peer of its term has, however late, duplicated or
\* reordered the acknowledgements are (MaybeUpdate, stepLeader).
THEOREM CountedIsReplicated == Spec => []MatchIsReplicated
  BY InitInv, NextInv, InvMatchIsReplicated, PTL DEF Spec

\* The window of messages in flight to a peer holds what is sent and not
\* acknowledged, in order and never over its size (Add, FreeLE, FreeFirstOne,
\* ResetState).
THEOREM WindowsAreExact == Spec => []WindowIsExact
  <1>1. ASSUME SafetyInv, NEW l \in Server, NEW p \in Server, rs[l].state = StateLeader
        PROVE  /\ Windowed(rs[l].prs[p]) /\ rs[l].prs[p] \in ProgressType
    <2>1. PICK H : History(H)
      BY <1>1 DEF SafetyInv
    <2>2. rs[l] \in NodeType
      BY <2>1, Zenon DEF History, ElectionInv, TypeOK
    <2>3. AllWithin(rs[l])
      BY <1>1, <2>1, Zenon DEF History, NodeLogs, NodeLog
    <2>4. QED
      BY <2>2, <2>3, NodeFields DEF AllWithin
  <1>2. ASSUME NEW pr \in ProgressType, Windowed(pr)
        PROVE  LET q == pr.Inflights
               IN  /\ Len(q) =< MaxInflightMsgs
                   /\ pr.State # StateReplicate => q = <<>>
                   /\ \A i \in 1..Len(q) : pr.Match < q[i] /\ q[i] < pr.Next
                   /\ \A i \in 2..Len(q) : q[i - 1] < q[i]
    <2>1. Len(pr.Inflights) \in Nat
      BY ProgressFields, SeqLen
    <2>2. \A i \in 2..Len(pr.Inflights) : i \in 1..Len(pr.Inflights) /\ i - 1 \in 1..Len(pr.Inflights) /\ i - 1 < i
      BY <2>1
    <2>3. QED
      BY <1>2, <2>1, <2>2 DEF Windowed
  <1>3. SafetyInv => WindowIsExact
    BY <1>1, <1>2 DEF WindowIsExact
  <1>4. QED
    BY <1>3, InitInv, NextInv, PTL DEF Spec

\* No call panics: an append never conflicts with a committed entry, and a
\* request for a transfer that came from another node is not forwarded again.
THEOREM NodesNeverPanic == Spec => []NoPanic
  <1>1. SafetyInv => NoPanic
    BY DEF SafetyInv, History
  <1>2. QED
    BY <1>1, InitInv, NextInv, PTL DEF Spec

\* The committed prefix of a node only grows, across appends, snapshots and
\* restarts (commitTo, maybeAppend, restore, loadState).
THEOREM CommittedStays == Spec => CommittedIsForever
  <1>1. SafetyInv /\ [Next]_vars =>
          [\A n \in Server :
             /\ rs[n].log.committed =< rs'[n].log.committed
             /\ Committed(n) = SubSeq(rs'[n].log.ents, 1, rs[n].log.committed)]_vars
    BY NextKeepsCommitted
  <1>2. QED
    BY <1>1, InitInv, NextInv, PTL DEF Spec, CommittedIsForever
=============================================================================
