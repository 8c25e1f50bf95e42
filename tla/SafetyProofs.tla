---------------------------- MODULE SafetyProofs ----------------------------
(***************************************************************************)
(* A call that keeps to its contract preserves the inductive invariant,    *)
(* and the invariant is what makes replication safe.                       *)
(***************************************************************************)
EXTENDS HistoryProofs

\* Whoever is elected in a later term has the vote of a node that has
\* acknowledged the entry, as long as the entry may be chosen.
VoterAcked ==
  \A T, U \in Nat : \A q \in Server : \A i :
    T < U /\ Choosable(T, i) /\ Elected(q, U) =>
      \E a \in Server : Acked(a, T, i) /\ Backs(a, q, U) /\ rs[a].Term >= U

\* The quorum of an entry that may be chosen meets the quorum of every later
\* election.
LEMMA QuorumFacts == Basis /\ ElectionInv => VoterAcked
  <1> SUFFICES ASSUME Basis, ElectionInv, NEW T \in Nat, NEW U \in Nat, NEW q \in Server, NEW i,
                      T < U, Choosable(T, i), Elected(q, U)
               PROVE  \E a \in Server : Acked(a, T, i) /\ Backs(a, q, U) /\ rs[a].Term >= U
    BY DEF VoterAcked
  <1> DEFINE R == {a \in Server : rs[a].Term =< T \/ Acked(a, T, i)}
  <1>1. PICK Q \in SUBSET Server : Wins(Q) /\ \A a \in Q : Backs(a, q, U)
    BY DEF Elected
  <1>2. Wins(R)
    BY DEF Choosable
  <1>3. PICK a \in Server : a \in Q /\ a \in R
    <2> HIDE DEF R
    <2>1. QED
      BY <1>1, <1>2, Zenon DEF Basis
  <1>4. Backs(a, q, U) /\ (rs[a].Term =< T \/ Acked(a, T, i))
    BY <1>1, <1>3
  <1>5. rs[a].Term >= U
    BY <1>4, ElectionFacts DEF BackersReached
  <1>6. rs[a].Term \in Nat
    BY NodeReady, NodeFields
  <1>7. QED
    BY <1>4, <1>5, <1>6

\* The same after a step.
LEMMA QuorumFactsNext ==
  ASSUME Basis, ElectionInv'
  PROVE  VoterAcked'
  BY QuorumFacts, PTL

\* A vote that the call adds is one of the node that is called, and a
\* candidate in a new term has only its own.
LEMMA BacksBack ==
  ASSUME NEW H, History(H), NEW n \in Server, NEW s, Move(n, s), NEW a \in Server, NEW p \in Server,
         NEW U \in Nat, Backs(a, p, U)', a # n
  PROVE  Backs(a, p, U) /\ rs[p].Term >= U
  <1>1. ElectionInv /\ Asked
    BY DEF History
  <1>2. CASE \E m \in msgs' : IsGrant(m) /\ m.from = a /\ m.to = p /\ m.Term = U
    <2>1. PICK m \in msgs' : IsGrant(m) /\ m.from = a /\ m.to = p /\ m.Term = U
      BY <1>2
    <2>2. m \in msgs
      BY <1>1, <2>1, MoveSends
    <2>3. rs[p].Term >= U
      BY <1>1, <2>1, <2>2 DEF Asked
    <2>4. QED
      BY <2>1, <2>2, <2>3 DEF Backs, IsGrant
  <1>3. CASE a = p /\ SelfVoted(p, U)'
    <2>1. rs'[p] = rs[p] /\ msgs \subseteq msgs' /\ rs[p].Term \in Nat
      BY <1>1, <1>3, MoveEffect
    <2>2. SelfVoted(p, U)
      BY <1>3, <2>1 DEF SelfVoted, IsGrant
    <2>3. QED
      BY <1>3, <2>1, <2>2 DEF Backs, SelfVoted
  <1>4. QED
    BY <1>2, <1>3 DEF Backs, IsGrant

\* Two rows of the ledger that agree still do after a call.
LEMMA GrowBoth ==
  ASSUME Basis, NEW H, History(H), NEW n \in Server, NEW s, Move(n, s), NEW K, K = Grow(H, s),
         NEW T \in Nat, NEW U \in Nat, NEW i \in Nat, Same(H[U], H[T], i)
  PROVE  Same(K[U], K[T], i)
  <1>1. Same(H[U], K[T], i)
    BY GrowSame
  <1>2. H \in [Nat -> Seq(Entry)] /\ K \in [Nat -> Seq(Entry)] /\ Same(K[U], H[U], Len(H[U]))
    BY GrowFacts, Zenon
  <1>3. Len(H[U]) \in Nat /\ Len(K[U]) \in Nat /\ Len(K[T]) \in Nat
    BY <1>2, SeqLen
  <1>4. Same(K[U], H[U], Len(H[U])) /\ i =< Len(H[U])
    BY <1>1, <1>2, Zenon DEF Same
  <1>5. QED
    BY <1>1, <1>3, <1>4, SameTrans

\* A node that runs in an election has every entry that may be chosen and that
\* one of its voters has acknowledged.
LEMMA BackerHas ==
  ASSUME Basis, NEW H, History(H), NEW n \in Server, NEW s, Move(n, s),
         rs[n].Term = s.Term => rs[n].state = StateCandidate,
         NEW T \in Nat, T < s.Term, NEW i, Written(H, T, i), Choosable(T, i)',
         NEW a \in Server, Acked(a, T, i)', Backs(a, n, s.Term)'
  PROVE  Same(rs[n].log.ents, H[T], i)
  <1>1. /\ ElectionInv /\ AckKept(H) /\ Backed(H)
    BY DEF History
  <1>2. s.Term \in Nat /\ rs[n].Term \in Nat /\ s.Term >= rs[n].Term
    BY <1>1, MoveEffect
  <1>3. Acked(a, T, i)
    <2>1. Acked(a, T, i) \/ T = s.Term
      BY AckedBack
    <2>2. QED
      BY <1>2, <2>1
  <1>4. Choosable(T, i) /\ i \in 1..Len(H[T])
    BY ChoosableBack DEF Written
  <1>5. CASE a = n
    BY <1>1, <1>3, <1>4, <1>5 DEF AckKept
  <1>6. CASE a # n
    <2>1. Backs(a, n, s.Term) /\ rs[n].Term >= s.Term
      BY <1>2, <1>6, BacksBack
    <2>2. rs[n].Term = s.Term
      BY <1>2, <2>1
    <2>3. QED
      BY <1>1, <1>3, <1>4, <2>1, <2>2 DEF Backed
  <1>7. QED
    BY <1>5, <1>6

\* A node becomes leader with every entry that may be chosen: one of its
\* voters has it.
LEMMA NewLeaderHas ==
  ASSUME Basis, NEW H, History(H), NEW n \in Server, NEW s, Move(n, s), s.state = StateLeader,
         H[s.Term] = <<>>, NEW T \in Nat, T < s.Term, NEW i, Written(H, T, i), Choosable(T, i)'
  PROVE  Same(s.log.ents, H[T], i)
  <1>1. /\ ElectionInv /\ ElectionInv' /\ RolesFair(rs[n], s) /\ Ledger(H) /\ NodeLog(H, rs[n])
    BY DEF History, Move, Replicates, NodeLogs
  <1>2. s.Term \in Nat /\ rs[n].Term \in Nat /\ rs[n].log \in LogType
    BY <1>1, MoveEffect
  <1>3. rs[n].Term = s.Term => rs[n].state = StateCandidate
    <2>1. rs[n].log.ents # <<>>
      BY <1>2, LogFields
    <2>2. rs[n].state = StateLeader => rs[n].Term # s.Term
      BY <1>1, <2>1 DEF NodeLog
    <2>3. rs[n].Term = s.Term => ~(s.Term > rs[n].Term)
      BY <1>2
    <2>4. QED
      BY <1>1, <2>2, <2>3 DEF RolesFair
  <1>4. Elected(n, s.Term)'
    BY NewLeader
  <1>5. PICK a \in Server : Acked(a, T, i)' /\ Backs(a, n, s.Term)'
    BY <1>1, <1>2, <1>4, QuorumFactsNext DEF VoterAcked
  <1>6. Same(rs[n].log.ents, H[T], i)
    BY <1>3, <1>5, BackerHas
  <1>7. Same(s.log.ents, rs[n].log.ents, Len(rs[n].log.ents))
    BY LeaderAppends
  <1>8. i \in Nat /\ Len(rs[n].log.ents) \in Nat
    BY <1>1, <1>2, WrittenOwner, LogFields
  <1>9. QED
    BY <1>6, <1>7, <1>8 DEF Same

\* The leader of a later term has what may be chosen.
LEMMA LaterLeadersNext ==
  ASSUME Basis, NEW H, History(H), NEW n \in Server, NEW s, Move(n, s), NEW K, K = Grow(H, s)
  PROVE  LaterLeaders(K)'
  <1>1. /\ ElectionInv /\ ElectionInv' /\ Ledger(H) /\ LaterLeaders(H)
        /\ H \in [Nat -> Seq(Entry)]
    BY DEF History, Move, Ledger, Leaders
  <1>2. s.Term \in Nat /\ rs'[n].Term = s.Term
    BY <1>1, MoveEffect
  <1>3. ASSUME NEW T \in Nat, NEW U \in Nat, T < U, K[U] # <<>>, NEW i \in 1..Len(K[T]),
               Written(K, T, i), Choosable(T, i)'
        PROVE  Same(K[U], K[T], i)
    <2>1. CASE Written(H, T, i) /\ H[U] # <<>>
      <3>1. Choosable(T, i) /\ i \in 1..Len(H[T]) /\ i \in Nat
        BY <1>1, <1>3, <2>1, ChoosableBack, WrittenOwner, Zenon DEF Written
      <3>2. Same(H[U], H[T], i)
        BY <1>1, <1>3, <2>1, <3>1 DEF LaterLeaders
      <3>3. QED
        BY <3>1, <3>2, GrowBoth
    <2>2. CASE Written(H, T, i) /\ H[U] = <<>>
      <3>1. U = s.Term /\ s.state = StateLeader /\ K[U] = s.log.ents
        BY <1>1, <1>3, <2>2 DEF Grow
      <3>2. Same(s.log.ents, H[T], i)
        BY <1>3, <2>2, <3>1, NewLeaderHas
      <3>3. i \in Nat
        BY <1>1, <2>2, WrittenOwner
      <3>4. QED
        BY <3>1, <3>2, <3>3, GrowSame, Zenon
    <2>3. CASE ~Written(H, T, i)
      <3>1. T = s.Term /\ s.state = StateLeader
        BY <1>3, <2>3, GrowWritten
      <3>2. s.Term > 1
        BY <3>1, NewLeader
      <3>3. U > 1 /\ H[U] # <<>>
        BY <1>1, <1>2, <1>3, <3>1, <3>2 DEF Grow
      <3>4. PICK q \in Server : Elected(q, U)
        BY <1>1, <3>3 DEF Ledger
      <3>5. Elected(q, U)'
        BY <1>1, <3>4, ElectedStable DEF Move
      <3>6. PICK a \in Server : Acked(a, T, i)' /\ rs'[a].Term >= U
        BY <1>1, <1>3, <3>5, QuorumFactsNext DEF VoterAcked
      <3>7. a = n
        BY <1>3, <2>3, <3>6, AckedNew
      <3>8. QED
        BY <1>2, <1>3, <3>1, <3>6, <3>7
    <2>4. QED
      BY <2>1, <2>2, <2>3
  <1>4. QED
    BY <1>3 DEF LaterLeaders, Written

----------------------------------------------------------------------------
(* What a node has committed, and what it has acknowledged.                *)

\* What the node that is called has committed, the leader of the term has.
LEMMA LeaderHasCommitted ==
  ASSUME Basis, NEW H, History(H), NEW n \in Server, NEW s, Move(n, s), H[s.Term] # <<>>
  PROVE  Same(rs[n].log.ents, H[s.Term], rs[n].log.committed)
  <1>1. ElectionInv /\ Covered(H, rs[n].Term, rs[n].log.committed, rs[n].log.ents)
    BY DEF History, CommitsChosen
  <1>2. /\ s.Term \in Nat /\ rs[n].Term \in Nat /\ s.Term >= rs[n].Term /\ rs[n].log \in LogType
    BY <1>1, MoveEffect
  <1>3. rs[n].log.ents \in Seq(Entry) /\ rs[n].log.committed \in Nat
    BY <1>2, LogFields
  <1>4. Len(rs[n].log.ents) \in Nat
    BY <1>3, SeqLen
  <1>5. 0..rs[n].Term \subseteq 0..s.Term
    BY <1>2
  <1>6. Covered(H, s.Term, rs[n].log.committed, rs[n].log.ents)
    BY <1>1, <1>5 DEF Covered
  <1>7. QED
    BY <1>2, <1>3, <1>4, <1>6, CoveredLeader

\* No call takes back what is committed, or replaces it.
LEMMA CommittedKept ==
  ASSUME Basis, NEW H, History(H), NEW n \in Server, NEW s, Move(n, s)
  PROVE  /\ rs[n].log.committed =< s.log.committed
         /\ Same(s.log.ents, rs[n].log.ents, rs[n].log.committed)
  <1>1. ElectionInv /\ LogFair(rs[n], s, msgs) /\ H \in [Nat -> Seq(Entry)]
    BY DEF History, Move, Replicates, Ledger, Leaders
  <1>2. /\ s.Term \in Nat /\ rs[n].log \in LogType /\ s.log \in LogType
    BY <1>1, MoveEffect
  <1>3. /\ rs[n].log.ents \in Seq(Entry) /\ rs[n].log.committed \in Nat /\ s.log.committed \in Nat
        /\ rs[n].log.committed =< Len(rs[n].log.ents)
    BY <1>2, LogFields
  <1>4. Len(rs[n].log.ents) \in Nat
    BY <1>3, SeqLen
  <1>5. Same(rs[n].log.ents, rs[n].log.ents, rs[n].log.committed)
    BY <1>3 DEF Same
  <1>6. H[s.Term] # <<>> => Same(H[s.Term], rs[n].log.ents, rs[n].log.committed)
    BY <1>3, LeaderHasCommitted, SameFlip
  <1>7. Same(s.log.ents, rs[n].log.ents, rs[n].log.committed)
    BY <1>3, <1>4, <1>5, <1>6, LogKeeps
  <1>8. CASE s.state = StateLeader
    <2>1. CommitGrows(rs[n], s)
      BY <1>1, <1>8 DEF LogFair
    <2>2. s.log.committed = rs[n].log.committed \/ s.log.committed > rs[n].log.committed
      BY <2>1, Zenon DEF CommitGrows
    <2>3. QED
      BY <1>3, <1>7, <2>2
  <1>9. CASE s.state # StateLeader
    <2>1. Kept(rs[n], s) => s.log.committed = rs[n].log.committed
      BY DEF Kept
    <2>2. HasFollowed(H, n, s) => s.log.committed >= rs[n].log.committed
      BY DEF HasFollowed, Follows
    <2>3. s.log.committed >= rs[n].log.committed
      BY <1>3, <1>9, <2>1, <2>2, FollowerLog
    <2>4. QED
      BY <1>3, <1>7, <2>3
  <1>10. QED
    BY <1>8, <1>9

\* What a node that does not lead has committed, the leader of its term has.
LEMMA CommittedAgrees ==
  ASSUME Basis, NEW H, History(H), NEW n \in Server, NEW s, Move(n, s), H[s.Term] # <<>>,
         s.state # StateLeader
  PROVE  Same(s.log.ents, H[s.Term], s.log.committed)
  <1> DEFINE L == rs[n].log.ents
             N == s.log.ents
             M == H[s.Term]
  <1>1. ElectionInv /\ H \in [Nat -> Seq(Entry)]
    BY DEF History, Ledger, Leaders
  <1>2. s.Term \in Nat /\ rs[n].log \in LogType /\ s.log \in LogType
    BY <1>1, MoveEffect
  <1>3. /\ M \in Seq(Entry) /\ L \in Seq(Entry) /\ N \in Seq(Entry)
        /\ s.log.committed \in Nat /\ rs[n].log.committed \in Nat
    BY <1>1, <1>2, LogFields, Zenon
  <1>4. Same(L, M, rs[n].log.committed)
    BY LeaderHasCommitted
  <1>5. Len(N) \in Nat /\ Len(M) \in Nat
    BY <1>3, SeqLen
  <1>6. CASE Kept(rs[n], s)
    BY <1>4, <1>6 DEF Kept
  <1>7. CASE HasFollowed(H, n, s)
    <2>1. PICK j \in Nat : Follows(rs[n].log, s.log, M, j)
      BY <1>7 DEF HasFollowed
    <2>2. CASE s.log.committed = rs[n].log.committed
      BY <1>3, <1>4, <2>1, <2>2 DEF Follows
    <2>3. CASE s.log.committed =< j
      BY <1>3, <1>5, <2>1, <2>3, SameBelow DEF Follows
    <2>4. QED
      BY <2>1, <2>2, <2>3 DEF Follows
  <1>8. QED
    BY <1>6, <1>7, FollowerLog

\* What a call acknowledges is in the log of the leader of the term.
LEMMA AckAgrees ==
  ASSUME Basis, NEW H, History(H), NEW n \in Server, NEW s, Move(n, s), NEW K, K = Grow(H, s),
         NEW i \in Nat, AckFair(rs[n], s, msgs, i)
  PROVE  Same(s.log.ents, K[s.Term], i)
  <1>1. ElectionInv /\ H \in [Nat -> Seq(Entry)]
    BY DEF History, Ledger, Leaders
  <1>2. s.Term \in Nat /\ s.log \in LogType
    BY <1>1, MoveEffect
  <1>3. /\ s.log.ents \in Seq(Entry) /\ s.log.committed \in Nat
        /\ s.log.committed =< Len(s.log.ents)
    BY <1>1, <1>2, LogFields, Zenon
  <1>4. H[s.Term] \in Seq(Entry) /\ K[s.Term] \in Seq(Entry)
    BY <1>1, <1>2, <1>3, Zenon DEF Grow
  <1>5. Len(s.log.ents) \in Nat /\ Len(H[s.Term]) \in Nat /\ Len(K[s.Term]) \in Nat
    BY <1>3, <1>4, SeqLen
  <1>6. CASE i = 0
    BY <1>5, <1>6 DEF Same
  <1>7. ASSUME i =< s.log.committed, NEW o \in msgs, Heard(s, o)
        PROVE  Same(s.log.ents, K[s.Term], i)
    <2>1. CASE s.state = StateLeader
      <3>1. K[s.Term] = s.log.ents
        BY <1>1, <1>2, <2>1 DEF Grow
      <3>2. QED
        BY <1>3, <1>5, <1>7, <3>1 DEF Same
    <2>2. CASE s.state # StateLeader
      <3>1. K = H
        BY <2>2 DEF Grow
      <3>2. MsgLog(H, o)
        BY DEF History, MsgLogs
      <3>3. H[s.Term] # <<>>
        BY <1>7, <3>2 DEF MsgLog, Heard
      <3>4. Same(s.log.ents, H[s.Term], s.log.committed)
        BY <2>2, <3>3, CommittedAgrees
      <3>5. QED
        BY <1>3, <1>5, <1>7, <3>1, <3>4, SameBelow
    <2>3. QED
      BY <2>1, <2>2
  <1>8. ASSUME NEW o \in msgs, Merges(rs[n], s, o), i = o.Index + Len(o.Entries)
        PROVE  Same(s.log.ents, K[s.Term], i)
    <2>1. Follows(rs[n].log, s.log, H[s.Term], i)
      BY <1>8, MergesFollow
    <2>2. QED
      BY <1>2, <2>1, GrowSame, Zenon DEF Follows
  <1>9. QED
    BY <1>6, <1>7, <1>8 DEF AckFair

\* What a node acknowledges is in its log and in the row of its leader.
LEMMA AckLogsNext ==
  ASSUME Basis, NEW H, History(H), NEW n \in Server, NEW s, Move(n, s), NEW K, K = Grow(H, s)
  PROVE  AckLogs(K)'
  <1>1. /\ ElectionInv /\ AckLogs(H) /\ H \in [Nat -> Seq(Entry)]
    BY DEF History, Ledger, Leaders
  <1>2. /\ s.id = n /\ s.Term \in Nat /\ rs'[n].Term = s.Term /\ rs'[n].log = s.log
    BY <1>1, MoveEffect
  <1>3. ASSUME NEW m \in msgs', IsAck(m)
        PROVE  /\ m.Index =< Len(K[m.Term]) /\ rs'[m.from].Term >= m.Term
               /\ rs'[m.from].Term = m.Term => Same(rs'[m.from].log.ents, K[m.Term], m.Index)
    <2>1. m.from \in Server /\ m.Term \in Nat /\ m.Index \in Nat
      BY <1>1, <1>3, MoveEffect, MessageData DEF IsAck
    <2>2. CASE m \notin msgs
      <3>1. m.from = n /\ m.Term = s.Term /\ AckFair(rs[n], s, msgs, m.Index)
        BY <1>1, <1>2, <1>3, <2>2, MoveSends DEF SentFair
      <3>2. Same(s.log.ents, K[s.Term], m.Index)
        BY <2>1, <3>1, AckAgrees
      <3>3. QED
        BY <1>2, <3>1, <3>2 DEF Same
    <2>3. CASE m \in msgs
      <3>1. /\ m.Index =< Len(H[m.Term]) /\ rs[m.from].Term >= m.Term
            /\ rs[m.from].Term = m.Term => Same(rs[m.from].log.ents, H[m.Term], m.Index)
        BY <1>1, <1>3, <2>3 DEF AckLogs
      <3>2. Same(H[m.Term], H[m.Term], m.Index)
        BY <3>1 DEF Same
      <3>3. Same(H[m.Term], K[m.Term], m.Index)
        BY <2>1, <3>2, GrowSame
      <3>4. rs[m.from].Term \in Nat /\ rs'[m.from].Term \in Nat /\ rs'[m.from].Term >= rs[m.from].Term
        BY <1>1, <2>1, MoveEffect, ZenonT(30)
      <3>5. ASSUME rs'[m.from].Term = m.Term
            PROVE  Same(rs'[m.from].log.ents, K[m.Term], m.Index)
        <4>1. Same(rs[m.from].log.ents, H[m.Term], m.Index)
          BY <2>1, <3>1, <3>4, <3>5
        <4>2. CASE m.from # n
          <5>1. rs'[m.from] = rs[m.from]
            BY <1>1, <2>1, <4>2, MoveEffect
          <5>2. QED
            BY <2>1, <4>1, <5>1, GrowSame
        <4>3. CASE m.from = n
          <5>1. m.Term = s.Term /\ H[m.Term] \in Seq(Entry)
            BY <1>1, <1>2, <2>1, <3>5, <4>3
          <5>2. Len(H[m.Term]) \in Nat
            BY <5>1, SeqLen
          <5>3. Same(s.log.ents, H[m.Term], m.Index)
            BY <2>1, <3>2, <4>1, <4>3, <5>1, <5>2, LogKeeps
          <5>4. QED
            BY <1>2, <2>1, <4>3, <5>3, GrowSame
        <4>4. QED
          BY <4>2, <4>3
      <3>6. m.Index =< Len(K[m.Term])
        BY <3>3 DEF Same
      <3>7. rs'[m.from].Term >= m.Term
        BY <2>1, <3>1, <3>4
      <3>8. QED
        BY <3>5, <3>6, <3>7
    <2>4. QED
      BY <2>2, <2>3
  <1>4. QED
    BY <1>3 DEF AckLogs, IsAck

\* Whoever has acknowledged an entry of a term has reached this term.
LEMMA AckedReached ==
  ASSUME Basis, NEW H, History(H), NEW T \in Nat, NEW i, Written(H, T, i),
         NEW a \in Server, Acked(a, T, i)
  PROVE  rs[a].Term >= T
  <1>1. ElectionInv /\ Ledger(H) /\ NodeLog(H, rs[a]) /\ AckLogs(H)
    BY DEF History, NodeLogs
  <1>2. CASE T = 1
    BY <1>1, <1>2 DEF NodeLog
  <1>3. CASE T # 1 /\ Elected(a, T)
    <2>1. T > 1 /\ H[T] # <<>>
      BY <1>1, <1>3, WrittenOwner
    <2>2. PICK q \in Server : Elected(q, T) /\ Past(q, T)
      BY <1>1, <2>1 DEF Ledger
    <2>3. q = a
      BY <1>1, <1>3, <2>2, ElectionFacts DEF OneElected
    <2>4. rs[a].Term \in Nat
      BY <1>1, NodeFields DEF ElectionInv, TypeOK
    <2>5. QED
      BY <2>2, <2>3, <2>4 DEF Past
  <1>4. CASE \E m \in msgs : IsAck(m) /\ m.from = a /\ m.Term = T /\ m.Index >= i
    BY <1>1, <1>4 DEF AckLogs
  <1>5. QED
    BY <1>2, <1>3, <1>4 DEF Acked

\* A node that has acknowledged an entry keeps it, as long as the entry may
\* be chosen.
LEMMA AckKeptNext ==
  ASSUME Basis, NEW H, History(H), NEW n \in Server, NEW s, Move(n, s), NEW K, K = Grow(H, s)
  PROVE  AckKept(K)'
  <1>1. /\ ElectionInv /\ AckKept(H) /\ Ledger(H) /\ LaterLeaders(H) /\ H \in [Nat -> Seq(Entry)]
    BY DEF History, Ledger, Leaders
  <1>2. /\ s.id = n /\ s.Term \in Nat /\ rs[n].Term \in Nat /\ s.Term >= rs[n].Term
        /\ rs'[n].log = s.log /\ s.log \in LogType
    BY <1>1, MoveEffect
  <1>3. ASSUME NEW a \in Server, NEW T \in Nat, NEW i \in 1..Len(K[T]),
               Written(K, T, i), Acked(a, T, i)', Choosable(T, i)'
        PROVE  Same(rs'[a].log.ents, K[T], i)
    <2>1. CASE ~Written(H, T, i)
      <3>1. a = n /\ T = s.Term /\ s.state = StateLeader
        BY <1>3, <2>1, AckedNew, GrowWritten
      <3>2. K[T] = s.log.ents
        BY <1>1, <1>2, <3>1 DEF Grow
      <3>3. QED
        BY <1>2, <1>3, <3>1, <3>2, LogFields DEF Same
    <2>2. CASE Written(H, T, i)
      <3>1. Choosable(T, i) /\ i \in 1..Len(H[T]) /\ i \in Nat /\ H[T] \in Seq(Entry)
        BY <1>1, <1>3, <2>2, ChoosableBack, WrittenOwner, Zenon DEF Written
      <3>2. Len(H[T]) \in Nat
        BY <3>1, SeqLen
      <3>3. CASE Acked(a, T, i)
        <4>1. Same(rs[a].log.ents, H[T], i)
          BY <1>1, <2>2, <3>1, <3>3 DEF AckKept
        <4>2. CASE a # n
          <5>1. rs'[a] = rs[a]
            BY <1>1, <4>2, MoveEffect
          <5>2. QED
            BY <3>1, <4>1, <5>1, GrowSame, Zenon
        <4>3. CASE a = n
          <5>1. T =< s.Term
            <6>1. rs[n].Term >= T
              BY <2>2, <3>3, <4>3, AckedReached
            <6>2. QED
              BY <1>2, <6>1
          <5>2. H[s.Term] # <<>> => Same(H[s.Term], H[T], i)
            <6>1. CASE T = s.Term
              BY <3>1, <3>2, <6>1 DEF Same
            <6>2. CASE T # s.Term
              <7>1. T < s.Term
                BY <1>2, <5>1, <6>2
              <7>2. QED
                BY <1>1, <1>2, <2>2, <3>1, <7>1, Zenon DEF LaterLeaders
            <6>3. QED
              BY <6>1, <6>2
          <5>3. Same(s.log.ents, H[T], i)
            BY <3>1, <3>2, <4>1, <4>3, <5>2, LogKeeps
          <5>4. QED
            BY <1>2, <3>1, <4>3, <5>3, GrowSame, Zenon
        <4>4. QED
          BY <4>2, <4>3
      <3>4. CASE ~Acked(a, T, i)
        <4>1. a = n /\ T = s.Term
          BY <1>3, <2>2, <3>4, AckedBack
        <4>2. PICK m \in msgs' : m \notin msgs /\ IsAck(m) /\ m.from = n /\ m.Term = T /\ m.Index >= i
          BY <1>3, <2>2, <3>4, AckedBack
        <4>3. AckFair(rs[n], s, msgs, m.Index)
          BY <1>1, <4>2, MoveSends DEF SentFair
        <4>4. m.Index \in Nat
          BY <1>1, <4>2, MoveEffect, MessageData
        <4>5. Same(s.log.ents, K[T], m.Index)
          BY <4>1, <4>3, <4>4, AckAgrees
        <4>6. s.log.ents \in Seq(Entry) /\ K[T] \in Seq(Entry)
          BY <1>1, <1>2, LogFields, ZenonT(30) DEF Grow
        <4>7. Len(s.log.ents) \in Nat /\ Len(K[T]) \in Nat
          BY <4>6, SeqLen
        <4>8. Same(s.log.ents, K[T], i)
          BY <3>1, <4>2, <4>4, <4>5, <4>7, SameBelow
        <4>9. QED
          BY <1>2, <4>1, <4>8
      <3>5. QED
        BY <3>3, <3>4
    <2>3. QED
      BY <2>1, <2>2
  <1>4. QED
    BY <1>3 DEF AckKept, Written

\* A node grants its vote to a candidate that has what the node has
\* acknowledged and may still be chosen.
LEMMA GrantFits ==
  ASSUME Basis, NEW H, History(H), NEW n \in Server, NEW s, Move(n, s), NEW K, K = Grow(H, s),
         NEW p \in Server, p # n, rs[p].state = StateCandidate,
         NEW m \in msgs', m \notin msgs, IsGrant(m), m.to = p, m.Term = rs[p].Term,
         NEW T \in Nat, NEW i \in 1..Len(K[T]), Written(K, T, i), Acked(n, T, i)', Choosable(T, i)'
  PROVE  Same(rs[p].log.ents, K[T], i)
  <1>1. ElectionInv /\ Asked /\ NodeLog(H, rs[p])
    BY DEF History, NodeLogs
  <1>2. s.log \in LogType /\ rs[p].log \in LogType /\ rs'[n].log = s.log
    BY <1>1, MoveEffect
  <1>3. SentFair(rs[n], s, msgs, m)
    BY <1>1, MoveSends, Zenon
  <1>4. PICK v \in msgs : /\ v.type = "MsgVote" /\ v.from = p /\ v.Term = rs[p].Term
                          /\ IsUpToDate(s.log, v.Index, v.LogTerm)
    BY <1>3 DEF SentFair
  <1>5. v.Index = LastIndex(rs[p].log) /\ v.LogTerm = LastTerm(rs[p].log)
    BY <1>1, <1>4 DEF Asked
  <1>6. Leaders(K)
    BY LedgerNext DEF Ledger, Leaders
  <1>7. Coherent(K, s.log.ents)
    BY OwnLogNext
  <1>8. Coherent(K, rs[p].log.ents)
    <2>1. rs[p].log.ents \in Seq(Entry) /\ Coherent(H, rs[p].log.ents)
      BY <1>1, <1>2, LogFields DEF NodeLog
    <2>2. QED
      BY <2>1, GrowCoherent
  <1>9. Same(s.log.ents, K[T], i)
    <2>1. AckKept(K)'
      BY AckKeptNext
    <2>2. QED
      BY <1>2, <2>1 DEF AckKept, Written
  <1>10. \A U \in Nat : U > T /\ K[U] # <<>> => Same(K[U], K[T], i)
    <2>1. LaterLeaders(K)'
      BY LaterLeadersNext
    <2>2. QED
      BY <2>1 DEF LaterLeaders, Written
  <1>11. K[T][i].Term = T
    BY DEF Written
  <1>12. QED
    BY <1>2, <1>4, <1>5, <1>6, <1>7, <1>8, <1>9, <1>10, <1>11, UpToDateSame

\* A candidate still has what the nodes that vote for it have acknowledged,
\* as long as it may be chosen.
LEMMA BackedNext ==
  ASSUME Basis, NEW H, History(H), NEW n \in Server, NEW s, Move(n, s), NEW K, K = Grow(H, s)
  PROVE  Backed(K)'
  <1>1. /\ ElectionInv /\ ElectionInv' /\ Backed(H) /\ Ledger(H) /\ RolesFair(rs[n], s)
    BY DEF History, Move, Replicates
  <1>2. /\ s.id = n /\ s.Term \in Nat /\ rs[n].Term \in Nat /\ s.Term >= rs[n].Term
        /\ rs'[n].log = s.log /\ rs'[n].Term = s.Term /\ rs'[n].state = s.state
        /\ \A p \in Server : rs'[p].Term \in Nat /\ (p # n => rs'[p] = rs[p])
    BY <1>1, MoveEffect
  <1>3. ASSUME NEW a \in Server, NEW p \in Server, rs'[p].state = StateCandidate,
               NEW U \in Nat, rs'[p].Term = U, Backs(a, p, U)',
               NEW T \in Nat, T < U, NEW i \in 1..Len(K[T]),
               Written(K, T, i), Acked(a, T, i)', Choosable(T, i)'
        PROVE  Same(rs'[p].log.ents, K[T], i)
    <2>1. rs'[a].Term >= U
      BY <1>1, <1>2, <1>3, ElectionFactsNext DEF BackersReached
    <2>2. a = n => T < s.Term
      BY <1>2, <1>3, <2>1
    <2>3. Written(H, T, i)
      <3>1. ~Written(H, T, i) => a = n /\ T = s.Term
        BY <1>3, AckedNew, GrowWritten
      <3>2. QED
        BY <1>2, <2>2, <3>1
    <2>4. i \in Nat /\ i \in 1..Len(H[T]) /\ Choosable(T, i)
      BY <1>1, <1>3, <2>3, WrittenOwner, ChoosableBack DEF Written
    <2>5. Acked(a, T, i)
      <3>1. Acked(a, T, i) \/ (a = n /\ T = s.Term)
        BY <1>3, <2>3, AckedBack
      <3>2. QED
        BY <1>2, <2>2, <3>1
    <2>6. CASE p = n
      <3>1. s.state = StateCandidate /\ T < s.Term /\ s.Term = U
        BY <1>2, <1>3, <2>6
      <3>2. /\ s.log.ents = rs[n].log.ents
            /\ s.Term > rs[n].Term \/ rs[n].state = StateCandidate
        BY <1>1, <3>1 DEF RolesFair, Kept
      <3>3. rs[n].Term = s.Term => rs[n].state = StateCandidate
        BY <1>2, <3>2
      <3>4. Same(rs[n].log.ents, H[T], i)
        <4>1. Backs(a, n, s.Term)'
          BY <1>2, <1>3, <2>6, <3>1, Zenon DEF Backs, IsGrant, SelfVoted
        <4>2. QED
          BY <1>3, <2>3, <3>1, <3>3, <4>1, BackerHas
      <3>5. QED
        BY <1>2, <2>4, <2>6, <3>2, <3>4, GrowSame
    <2>7. CASE p # n /\ Backs(a, p, U)
      <3>1. rs'[p] = rs[p] /\ rs[p].Term = U
        BY <1>2, <1>3, <2>7, Zenon
      <3>2. Same(rs[p].log.ents, H[T], i)
        BY <1>1, <1>3, <2>3, <2>4, <2>5, <2>7, <3>1, Zenon DEF Backed
      <3>3. QED
        BY <2>4, <3>1, <3>2, GrowSame
    <2>8. CASE p # n /\ ~Backs(a, p, U)
      <3>1. rs'[p] = rs[p] /\ rs[p].Term = U
        BY <1>2, <1>3, <2>8
      <3>2. a = n
        BY <1>3, <2>8, <3>1, BacksBack
      <3>3. PICK m \in msgs' : IsGrant(m) /\ m.from = a /\ m.to = p /\ m.Term = U
        BY <1>3, <2>8, <3>1, <3>2 DEF Backs, IsGrant
      <3>4. m \notin msgs
        BY <2>8, <3>3 DEF Backs
      <3>5. Same(rs[p].log.ents, K[T], i)
        BY <1>3, <2>8, <3>1, <3>2, <3>3, <3>4, GrantFits, ZenonT(30)
      <3>6. QED
        BY <3>1, <3>5
    <2>9. QED
      BY <2>6, <2>7, <2>8
  <1>4. QED
    BY <1>2, <1>3 DEF Backed, Written, Backs, IsGrant, SelfVoted

\* What the node that is called has committed, or less, was chosen.
LEMMA OwnCommitChosen ==
  ASSUME Basis, NEW H, History(H), NEW n \in Server, NEW s, Move(n, s), NEW K, K = Grow(H, s),
         NEW c \in Nat, c =< s.log.committed
  PROVE  Covered(K, s.Term, c, s.log.ents)'
  <1> DEFINE L == rs[n].log.ents
             N == s.log.ents
             M == H[s.Term]
             d == s.log.committed
  <1>1. /\ ElectionInv /\ LogFair(rs[n], s, msgs) /\ H \in [Nat -> Seq(Entry)]
        /\ Covered(H, rs[n].Term, rs[n].log.committed, L)
    BY ZenonT(30) DEF History, Move, Replicates, CommitsChosen, Ledger, Leaders
  <1>2. /\ s.Term \in Nat /\ rs[n].Term \in Nat /\ rs[n].Term =< s.Term
        /\ rs[n].log \in LogType /\ s.log \in LogType /\ s \in NodeType
        /\ rs'[n].Term = s.Term /\ rs'[n].state = s.state /\ rs'[n].prs = s.prs
    BY <1>1, MoveEffect
  <1>3. L \in Seq(Entry) /\ N \in Seq(Entry) /\ M \in Seq(Entry) /\ d \in Nat /\ d =< Len(N) /\ d > 0
    BY <1>1, <1>2, LogFields, ZenonT(30)
  <1>4. Len(L) \in Nat /\ Len(N) \in Nat /\ Len(M) \in Nat
    BY <1>3, SeqLen
  <1>5. CASE d = rs[n].log.committed
    <2>1. Same(N, L, d)
      BY <1>5, CommittedKept
    <2>2. Same(N, L, c)
      BY <1>3, <1>4, <2>1, SameBelow, Zenon
    <2>3. QED
      BY <1>1, <1>2, <1>3, <1>4, <1>5, <2>2, CoveredStays, ZenonT(30)
  <1>6. CASE d # rs[n].log.committed /\ s.state # StateLeader
    <2>1. HasFollowed(H, n, s)
      BY <1>6, FollowerLog DEF Kept
    <2>2. Covered(H, s.Term, d, M) /\ M # <<>>
      BY <1>6, <2>1 DEF HasFollowed
    <2>3. Same(N, M, d)
      BY <1>6, <2>2, CommittedAgrees
    <2>4. Same(N, M, c)
      BY <1>3, <1>4, <2>3, SameBelow
    <2>5. QED
      BY <1>2, <1>3, <1>4, <2>2, <2>4, CoveredStays
  <1>7. CASE d # rs[n].log.committed /\ s.state = StateLeader
    <2> DEFINE P == {p \in Server : s.prs[p].Match >= d}
               Q == {a \in Server : Acked(a, s.Term, d)'}
    <2>1. N[d].Term = s.Term /\ Wins(P)
      BY <1>1, <1>7, ZenonT(30) DEF LogFair, CommitGrows
    <2>2. K[s.Term] = N
      BY <1>1, <1>2, <1>7 DEF Grow
    <2>3. ASSUME NEW p \in P
          PROVE  Acked(p, s.Term, d)'
      <3>1. CASE p = n
        BY <1>7, <3>1, NewLeader DEF Acked
      <3>2. CASE p # n
        <4>1. MatchAcked'
          BY MatchAckedNext
        <4>2. s.prs[p].Match \in Nat /\ s.prs[p].Match >= d
          BY <1>2, NodeFields, ProgressFields
        <4>3. s.prs[p].Match # 0
          BY <1>3, <4>2
        <4>4. PICK o \in msgs' : IsAck(o) /\ o.from = p /\ o.Term = s.Term /\ o.Index >= s.prs[p].Match
          BY <1>2, <1>7, <3>2, <4>1, <4>3 DEF MatchAcked, IsAck
        <4>5. o.Index \in Nat
          BY <1>1, <4>4, MoveEffect, MessageData
        <4>6. o.Index >= d
          BY <1>3, <4>2, <4>4, <4>5
        <4>7. QED
          BY <4>4, <4>6 DEF Acked, IsAck
      <3>3. QED
        BY <3>1, <3>2
    <2>4. P \subseteq Q
      BY <2>3
    <2>5. Wins(Q)
      <3> HIDE DEF P, Q
      <3>1. QED
        BY <2>1, <2>4, WinsUp
    <2>6. d \in 1..Len(K[s.Term]) /\ Written(K, s.Term, d)
      BY <1>3, <1>4, <2>1, <2>2 DEF Written
    <2>7. Chosen(K, s.Term, d)'
      BY <2>5, <2>6 DEF Chosen, Written, Wins
    <2>8. Same(N, K[s.Term], c) /\ c =< d
      BY <1>3, <1>4, <2>2 DEF Same
    <2>9. s.Term \in 0..s.Term
      BY <1>2
    <2> HIDE DEF N, d
    <2>10. Covered(K, s.Term, c, N)'
      BY <2>6, <2>7, <2>8, <2>9, Zenon DEF Covered
    <2>11. QED
      BY <2>10 DEF N
  <1>8. QED
    BY <1>5, <1>6, <1>7

\* A leader's log that was covered stays so.
LEMMA CoveredTermStays ==
  ASSUME Basis, NEW H, History(H), NEW n \in Server, NEW s, Move(n, s), NEW K, K = Grow(H, s),
         NEW T \in Nat, NEW c \in Nat, Covered(H, T, c, H[T])
  PROVE  Covered(K, T, c, K[T])'
  <1>1. H \in [Nat -> Seq(Entry)] /\ K \in [Nat -> Seq(Entry)] /\ Same(K[T], H[T], Len(H[T]))
    BY GrowFacts, ZenonT(30)
  <1>2. Len(H[T]) \in Nat /\ Len(K[T]) \in Nat
    BY <1>1, SeqLen
  <1>3. c =< Len(H[T])
    BY DEF Covered, Same
  <1>4. Same(K[T], H[T], c)
    BY <1>1, <1>2, <1>3, SameBelow
  <1>5. QED
    BY <1>2, <1>4, CoveredStays

\* Whatever a node or a message takes for committed is still chosen.
LEMMA CommitsChosenNext ==
  ASSUME Basis, NEW H, History(H), NEW n \in Server, NEW s, Move(n, s), NEW K, K = Grow(H, s)
  PROVE  CommitsChosen(K)'
  <1>1. ElectionInv /\ CommitsChosen(H) /\ H \in [Nat -> Seq(Entry)]
    BY DEF History, Ledger, Leaders
  <1>2. /\ s.id = n /\ s.Term \in Nat /\ s.log \in LogType /\ s \in NodeType
        /\ rs'[n].Term = s.Term /\ rs'[n].log = s.log /\ rs'[n].state = s.state
        /\ rs'[n].prs = s.prs /\ msgs \subseteq msgs'
    BY <1>1, MoveEffect
  <1>3. /\ s.log.committed \in Nat /\ s.log.offset \in Nat /\ s.log.ents \in Seq(Entry)
        /\ s.log.offset =< s.log.committed /\ s.log.committed =< Len(s.log.ents)
    BY <1>2, LogFields
  <1>4. ASSUME NEW p \in Server, NEW V, V = rs'[p].Term, NEW c, c = rs'[p].log.committed,
               NEW L, L = rs'[p].log.ents
        PROVE  Covered(K, V, c, L)'
    <2>1. CASE p = n
      <3>1. V = s.Term /\ c = s.log.committed /\ L = s.log.ents /\ s.log.committed =< s.log.committed
        BY <1>2, <1>3, <1>4, <2>1
      <3>2. Covered(K, s.Term, s.log.committed, s.log.ents)'
        BY <1>3, <3>1, OwnCommitChosen
      <3>3. QED
        BY <3>1, <3>2
    <2>2. CASE p # n
      <3>1. rs'[p] = rs[p] /\ rs[p].log \in LogType /\ rs[p].Term \in Nat
        BY <1>1, <2>2, MoveEffect, Zenon
      <3>2. V \in Nat /\ c \in Nat /\ L \in Seq(Entry) /\ c =< Len(L)
        BY <1>4, <3>1, LogFields
      <3>3. Len(L) \in Nat /\ Same(L, L, c) /\ V =< V /\ c =< c
        BY <3>2, SeqLen DEF Same
      <3>4. Covered(H, V, c, L)
        BY <1>1, <1>4, <3>1, Zenon DEF CommitsChosen
      <3>5. QED
        BY <3>2, <3>3, <3>4, CoveredStays, Zenon
    <2>3. QED
      BY <2>1, <2>2
  <1>5. ASSUME NEW m \in msgs
        PROVE  /\ m.type = "MsgApp" => Covered(K, m.Term, m.Commit, K[m.Term])'
               /\ m.type = "MsgSnap" => Covered(K, m.Term, Len(m.Snapshot), K[m.Term])'
               /\ m.type = "MsgHeartbeat" =>
                    /\ Covered(K, m.Term, m.Commit, K[m.Term])'
                    /\ \/ m.Commit = 0
                       \/ \E o \in msgs' : IsAck(o) /\ o.from = m.to /\ o.Term = m.Term /\ o.Index >= m.Commit
    <2>1. m \in Message
      BY <1>1, MoveEffect
    <2>2. /\ m.type = "MsgApp" => Covered(H, m.Term, m.Commit, H[m.Term])
          /\ m.type = "MsgSnap" => Covered(H, m.Term, Len(m.Snapshot), H[m.Term])
          /\ m.type = "MsgHeartbeat" =>
               /\ Covered(H, m.Term, m.Commit, H[m.Term])
               /\ \/ m.Commit = 0
                  \/ \E o \in msgs : IsAck(o) /\ o.from = m.to /\ o.Term = m.Term /\ o.Index >= m.Commit
      BY <1>1 DEF CommitsChosen
    <2>3. m.Term \in Nat
      BY <2>1, MessageData
    <2>4. m.type = "MsgApp" => Covered(K, m.Term, m.Commit, K[m.Term])'
      BY <2>1, <2>2, <2>3, MessageData, CoveredTermStays, Zenon
    <2>5. m.type = "MsgHeartbeat" => Covered(K, m.Term, m.Commit, K[m.Term])'
      BY <2>1, <2>2, <2>3, MessageData, CoveredTermStays, Zenon
    <2>6. m.type = "MsgSnap" => Covered(K, m.Term, Len(m.Snapshot), K[m.Term])'
      <3>1. m.type = "MsgSnap" => m.Snapshot \in Seq(Entry)
        BY <2>1, MessageData
      <3>2. m.type = "MsgSnap" => Len(m.Snapshot) \in Nat
        BY <3>1, SeqLen
      <3>3. QED
        BY <2>2, <2>3, <3>2, CoveredTermStays
    <2>7. QED
      BY <1>2, <2>2, <2>4, <2>5, <2>6
  <1>6. ASSUME NEW m \in msgs', m \notin msgs, m.type \in LeaderMsgs
        PROVE  /\ m.type = "MsgApp" => Covered(K, m.Term, m.Commit, K[m.Term])'
               /\ m.type = "MsgSnap" => Covered(K, m.Term, Len(m.Snapshot), K[m.Term])'
               /\ m.type = "MsgHeartbeat" =>
                    /\ Covered(K, m.Term, m.Commit, K[m.Term])'
                    /\ \/ m.Commit = 0
                       \/ \E o \in msgs' : IsAck(o) /\ o.from = m.to /\ o.Term = m.Term /\ o.Index >= m.Commit
    <2>1. m \in Message /\ SentFair(rs[n], s, msgs, m) /\ s.state = StateLeader /\ m.Term = s.Term
      BY <1>1, <1>6, MoveSends, Zenon
    <2>2. Says(s, m)
      BY <1>6, <2>1 DEF SentFair
    <2>3. K[m.Term] = s.log.ents
      BY <1>1, <1>2, <2>1 DEF Grow
    <2>4. ASSUME NEW c \in Nat, c =< s.log.committed
          PROVE  Covered(K, m.Term, c, K[m.Term])'
      <3>1. Covered(K, s.Term, c, s.log.ents)'
        BY <2>4, OwnCommitChosen
      <3>2. QED
        BY <2>1, <2>3, <3>1
    <2>5. ASSUME m.type = "MsgApp"
          PROVE  Covered(K, m.Term, m.Commit, K[m.Term])'
      <3>1. m.Commit = s.log.committed
        BY <2>2, <2>5 DEF Says
      <3>2. QED
        BY <1>3, <2>4, <3>1
    <2>6. ASSUME m.type = "MsgSnap"
          PROVE  Covered(K, m.Term, Len(m.Snapshot), K[m.Term])'
      <3>1. m.Snapshot = SubSeq(s.log.ents, 1, s.log.offset)
        BY <2>2, <2>6 DEF Says, Snapshot
      <3>2. Len(s.log.ents) \in Nat
        BY <1>3, SeqLen
      <3>3. s.log.offset \in 0..Len(s.log.ents)
        BY <1>3, <3>2
      <3>4. Len(m.Snapshot) = s.log.offset
        BY <1>3, <3>1, <3>3, SeqPart
      <3>5. QED
        BY <1>3, <2>4, <3>4
    <2>7. ASSUME m.type = "MsgHeartbeat"
          PROVE  /\ Covered(K, m.Term, m.Commit, K[m.Term])'
                 /\ \/ m.Commit = 0
                    \/ \E o \in msgs' : IsAck(o) /\ o.from = m.to /\ o.Term = m.Term /\ o.Index >= m.Commit
      <3>1. m.to \in Server /\ m.Commit =< s.prs[m.to].Match /\ m.Commit =< s.log.committed /\ m.to # n
        BY <1>2, <1>6, <2>2, <2>7 DEF Says
      <3>2. m.Commit \in Nat /\ s.prs[m.to].Match \in Nat
        BY <1>2, <2>1, <2>7, <3>1, MessageData, NodeFields, ProgressFields, ZenonT(30)
      <3>3. \/ s.prs[m.to].Match = 0
            \/ \E o \in msgs' : IsAck(o) /\ o.from = m.to /\ o.Term = s.Term /\ o.Index >= s.prs[m.to].Match
        <4>1. MatchAcked'
          BY MatchAckedNext
        <4>2. QED
          BY <1>2, <2>1, <3>1, <4>1 DEF MatchAcked, IsAck
      <3>4. CASE s.prs[m.to].Match = 0
        <4>1. m.Commit = 0
          BY <3>1, <3>2, <3>4
        <4>2. QED
          BY <2>4, <3>1, <3>2, <4>1
      <3>5. ASSUME NEW o \in msgs', IsAck(o), o.from = m.to, o.Term = s.Term, o.Index >= s.prs[m.to].Match
            PROVE  o.Index >= m.Commit
        <4>1. o.Index \in Nat
          BY <1>1, <3>5, MoveEffect, MessageData
        <4>2. QED
          BY <3>1, <3>2, <3>5, <4>1
      <3>6. QED
        BY <2>1, <2>4, <3>1, <3>2, <3>3, <3>4, <3>5, ZenonT(30)
    <2>8. QED
      BY <2>5, <2>6, <2>7, Zenon
  <1>7. \A p \in Server : Covered(K, rs[p].Term, rs[p].log.committed, rs[p].log.ents)'
    BY <1>4, ZenonT(30) DEF Covered, Chosen, Written, Acked
  <1>8. QED
    BY <1>5, <1>6, <1>7, ZenonT(30) DEF CommitsChosen, LeaderMsgs, IsAck

\* The node that is called knows a leader from the leader's messages.
LEMMA OwnLead ==
  ASSUME NEW H, History(H), NEW n \in Server, NEW s, Move(n, s)
  PROVE  \/ s.lead = None
         \/ s.state = StateLeader /\ s.lead = n
         \/ \E o \in msgs : Heard(s, o) /\ o.from = s.lead
  <1>1. ElectionInv /\ LeadKnown /\ LeadFair(rs[n], s, msgs)
    BY ZenonT(30) DEF History, Move, Replicates
  <1>2. s.id = n /\ rs[n].id = n
    BY <1>1, MoveEffect
  <1>3. CASE s.Term = rs[n].Term /\ s.lead = rs[n].lead /\ (rs[n].state = StateLeader => s.state = StateLeader)
    <2>1. \/ rs[n].lead = None
          \/ rs[n].state = StateLeader /\ rs[n].lead = n
          \/ \E o \in msgs : Heard(rs[n], o) /\ o.from = rs[n].lead
      BY <1>1 DEF LeadKnown
    <2>2. \A o : Heard(rs[n], o) => Heard(s, o)
      BY <1>2, <1>3 DEF Heard
    <2>3. QED
      BY <1>3, <2>1, <2>2
  <1>4. QED
    BY <1>1, <1>2, <1>3 DEF LeadFair

\* The leader that a node knows is still one that it has heard.
LEMMA LeadKnownNext ==
  ASSUME Basis, NEW H, History(H), NEW n \in Server, NEW s, Move(n, s)
  PROVE  LeadKnown'
  <1>1. ElectionInv /\ LeadKnown /\ SpeakersElected'
    BY DEF History, Move, ElectionInv
  <1>2. /\ s.id = n /\ rs'[n].id = n /\ rs'[n].Term = s.Term /\ rs'[n].state = s.state
        /\ rs'[n].lead = s.lead /\ msgs \subseteq msgs'
    BY <1>1, MoveEffect
  <1>3. ASSUME NEW p \in Server
        PROVE  \/ rs'[p].lead = None
               \/ rs'[p].state = StateLeader /\ rs'[p].lead = p
               \/ \E o \in msgs' : Heard(rs'[p], o) /\ o.from = rs'[p].lead
    <2>1. CASE p = n
      <3>1. \A o : Heard(s, o) => Heard(rs'[n], o)
        BY <1>2 DEF Heard
      <3>2. QED
        BY <1>2, <2>1, <3>1, OwnLead
    <2>2. CASE p # n
      <3>1. rs'[p] = rs[p]
        BY <1>1, <2>2, MoveEffect
      <3>2. QED
        BY <1>1, <1>2, <3>1 DEF LeadKnown
    <2>3. QED
      BY <2>1, <2>2
  <1>4. ASSUME NEW m \in msgs', m.type = "MsgTransferLeader"
        PROVE  Elected(m.to, m.Term)'
    <2>1. m \in Message
      BY <1>1, MoveEffect
    <2>2. m.to \in Server /\ m.Term \in Nat
      BY <2>1, MessageData
    <2>3. CASE m \in msgs
      <3>1. Elected(m.to, m.Term)
        BY <1>1, <1>4, <2>3 DEF LeadKnown
      <3>2. QED
        BY <1>1, <2>2, <3>1, ElectedStable DEF Move
    <2>4. CASE m \notin msgs
      <3>1. m.Term = s.Term /\ m.to = s.lead
        BY <1>1, <1>4, <2>4, MoveSends DEF SentFair
      <3>2. CASE s.state = StateLeader /\ s.lead = n
        <4>1. Elected(n, s.Term)'
          BY <3>2, NewLeader
        <4>2. QED
          BY <3>1, <3>2, <4>1
      <3>3. ASSUME NEW o \in msgs, Heard(s, o), o.from = s.lead
            PROVE  Elected(m.to, m.Term)'
        <4>1. o \in msgs' /\ o.type \in LeaderMsgs /\ o.from = m.to /\ o.Term = m.Term
          BY <1>2, <3>1, <3>3 DEF Heard
        <4>2. Elected(o.from, o.Term)'
          BY <1>1, <4>1 DEF SpeakersElected
        <4>3. QED
          BY <4>1, <4>2
      <3>4. s.lead # None
        BY <2>2, <3>1, ServerAssumption
      <3>5. QED
        BY <3>2, <3>3, <3>4, OwnLead
    <2>5. QED
      BY <2>3, <2>4
  <1>5. QED
    BY <1>3, <1>4 DEF LeadKnown, Heard

\* No node panics: what a leader sends never conflicts with what is
\* committed, and a node asked for a transfer knows no leader but itself.
LEMMA NoPanicNext ==
  ASSUME Basis, NEW H, History(H), NEW n \in Server, NEW s, Move(n, s)
  PROVE  NoPanic'
  <1>1. /\ ElectionInv /\ ElectionInv' /\ NoPanic /\ PanicFair(rs[n], s, msgs) /\ LeadKnown
        /\ SpeakersElected /\ MsgLogs(H)
    BY ZenonT(30) DEF History, Move, Replicates, ElectionInv
  <1>2. s.id = n /\ s.Term \in Nat /\ rs'[n].panic = s.panic
    BY <1>1, MoveEffect, Zenon
  <1>3. ASSUME NEW o \in msgs, Heard(s, o), o.type = "MsgApp", o.Index >= rs[n].log.committed,
               MatchTerm(rs[n].log, o.Index, o.LogTerm)
        PROVE  ~AppendPanics(rs[n].log, o.Index, o.Entries)
    <2> DEFINE l == rs[n].log
               M == H[s.Term]
    <2>1. /\ l \in LogType /\ M \in Seq(Entry) /\ Matching(l, M)
          /\ o.Index \in Nat /\ o.Commit \in Nat /\ o.Entries \in Seq(Entry)
          /\ SliceOf(M, o.Index, o.Entries) /\ Same(l.ents, M, o.Index)
      BY <1>2, <1>3, AppFits, ZenonT(30) DEF Heard
    <2>2. o.Index >= l.committed
      BY <1>3
    <2> HIDE DEF l, M
    <2>3. ~AppendPanics(l, o.Index, o.Entries)
      BY <2>1, <2>2, MaybeAppendSame, ZenonT(30)
    <2>4. QED
      BY <2>3 DEF l
  <1>4. ASSUME NEW m \in msgs, m.type = "MsgTransferLeader", m.to = s.id, m.Term = s.Term,
               s.state = StateFollower, s.lead # None
        PROVE  FALSE
    <2>1. Elected(n, s.Term)
      BY <1>1, <1>2, <1>4, Zenon DEF LeadKnown
    <2>2. s.state # StateLeader
      BY <1>4 DEF StateFollower, StateLeader
    <2>3. PICK o \in msgs : Heard(s, o) /\ o.from = s.lead
      BY <1>4, <2>2, OwnLead
    <2>4. o.type \in LeaderMsgs /\ o.to = n /\ o.Term = s.Term
      BY <1>2, <2>3 DEF Heard
    <2>5. Elected(o.from, s.Term)
      BY <1>1, <2>4 DEF SpeakersElected
    <2>6. o.from = n
      BY <1>1, <2>1, <2>5, ElectionFacts DEF OneElected
    <2>7. QED
      BY <1>1, <2>4, <2>6, Zenon DEF MsgLogs, MsgLog
  <1>5. ~rs[n].panic
    BY <1>1, Zenon DEF NoPanic, Alive
  <1>6. ~s.panic
    BY <1>1, <1>3, <1>4, <1>5, Zenon DEF PanicFair
  <1>7. ASSUME NEW p \in Server
        PROVE  ~rs'[p].panic
    <2>1. p # n => rs'[p] = rs[p]
      BY <1>1, MoveEffect, Zenon
    <2>2. QED
      BY <1>1, <1>2, <1>6, <2>1 DEF NoPanic, Alive
  <1>8. QED
    BY <1>7 DEF NoPanic, Alive

\* A call preserves the invariant.
LEMMA MoveInv ==
  ASSUME Basis, NEW H, History(H), NEW n \in Server, NEW s, Move(n, s)
  PROVE  SafetyInv'
  <1>1. PICK K : K = Grow(H, s)
    OBVIOUS
  <1>2. History(K)'
    <2>1. ElectionInv'
      BY DEF Move
    <2>2. NoPanic' /\ Asked' /\ MatchAcked' /\ LeadKnown'
      BY NoPanicNext, AskedNext, MatchAckedNext, LeadKnownNext
    <2>3. Ledger(K)' /\ NodeLogs(K)' /\ MsgLogs(K)'
      BY <1>1, LedgerNext, NodeLogsNext, MsgLogsNext
    <2>4. AckLogs(K)' /\ AckKept(K)' /\ LaterLeaders(K)'
      BY <1>1, AckLogsNext, AckKeptNext, LaterLeadersNext
    <2>5. Backed(K)' /\ CommitsChosen(K)'
      BY <1>1, BackedNext, CommitsChosenNext
    <2>6. QED
      BY <2>1, <2>2, <2>3, <2>4, <2>5 DEF History
  <1>3. QED
    BY <1>2 DEF SafetyInv

\* The logs of the nodes, in the invariant.
LEMMA NodeData ==
  ASSUME NEW H, History(H), NEW n \in Server
  PROVE  /\ rs[n] \in NodeType /\ rs[n].id = n /\ rs[n].Term \in Nat
         /\ rs[n].log.ents \in Seq(Entry) /\ Len(rs[n].log.ents) \in Nat
         /\ LastIndex(rs[n].log) = Len(rs[n].log.ents)
         /\ rs[n].log.committed \in Nat /\ rs[n].log.committed =< Len(rs[n].log.ents)
         /\ NodeLog(H, rs[n]) /\ Covered(H, rs[n].Term, rs[n].log.committed, rs[n].log.ents)
  <1>1. /\ ElectionInv /\ NodeLog(H, rs[n])
        /\ Covered(H, rs[n].Term, rs[n].log.committed, rs[n].log.ents)
    BY DEF History, NodeLogs, CommitsChosen
  <1>2. rs[n] \in NodeType /\ rs[n].id = n
    BY <1>1, NodeReady
  <1>3. rs[n].log \in LogType /\ rs[n].Term \in Nat
    BY <1>2, NodeFields
  <1>4. QED
    BY <1>1, <1>2, <1>3, LogFields

\* Logs that agree, in the words of the properties.
LEMMA AgreeSame ==
  ASSUME NEW H, History(H), NEW n \in Server, NEW p \in Server, NEW i,
         Same(rs[n].log.ents, rs[p].log.ents, i)
  PROVE  AgreeUpTo(n, p, i)
  <1>1. /\ LastIndex(rs[n].log) = Len(rs[n].log.ents) /\ Len(rs[n].log.ents) \in Nat
        /\ LastIndex(rs[p].log) = Len(rs[p].log.ents) /\ Len(rs[p].log.ents) \in Nat
    BY NodeData
  <1>2. QED
    BY <1>1 DEF AgreeUpTo, Same

\* The invariant gives log matching: both logs go back to rows of the
\* ledger, and these are coherent.
LEMMA InvLogMatching == SafetyInv => LogMatching
  <1> SUFFICES ASSUME NEW H, History(H), NEW n \in Server, NEW p \in Server,
                      NEW i \in 1..MinOf(LastIndex(rs[n].log), LastIndex(rs[p].log)),
                      rs[n].log.ents[i].Term = rs[p].log.ents[i].Term
               PROVE  AgreeUpTo(n, p, i)
    BY DEF SafetyInv, LogMatching
  <1> DEFINE L == rs[n].log.ents
             M == rs[p].log.ents
  <1>1. /\ L \in Seq(Entry) /\ M \in Seq(Entry) /\ Len(L) \in Nat /\ Len(M) \in Nat
        /\ LastIndex(rs[n].log) = Len(L) /\ LastIndex(rs[p].log) = Len(M)
        /\ Coherent(H, L) /\ Coherent(H, M) /\ L[i].Term = M[i].Term
    BY NodeData, ZenonT(30) DEF NodeLog
  <1>2. H \in [Nat -> Seq(Entry)]
    BY Zenon DEF History, Ledger, Leaders
  <1> HIDE DEF L, M
  <1>3. i \in Nat \ {0} /\ i =< Len(L) /\ i =< Len(M)
    BY <1>1 DEF MinOf
  <1>4. Same(L, M, i)
    BY <1>1, <1>2, <1>3, CoherentMatch, ZenonT(30)
  <1>5. QED
    BY <1>4, AgreeSame DEF L, M

\* It gives leader completeness: what is committed is chosen, and the rows
\* of later leaders have it.
LEMMA InvLeaderCompleteness == Basis /\ SafetyInv => LeaderCompleteness
  <1> SUFFICES ASSUME Basis, NEW H, History(H), NEW l \in Server, NEW n \in Server,
                      rs[l].state = StateLeader, rs[n].Term =< rs[l].Term
               PROVE  AgreeUpTo(l, n, rs[n].log.committed)
    BY DEF SafetyInv, LeaderCompleteness
  <1> DEFINE c == rs[n].log.committed
             L == rs[n].log.ents
             T == rs[l].Term
  <1>1. /\ Len(L) \in Nat /\ c \in Nat /\ c =< Len(L) /\ rs[n].Term \in Nat
        /\ Covered(H, rs[n].Term, c, L)
    BY NodeData
  <1>2. T \in Nat /\ rs[l].log.ents = H[T] /\ rs[l] \in NodeType
    BY NodeData DEF NodeLog
  <1>3. H[T] # <<>>
    BY <1>2, NodeFields, LogFields
  <1>4. 0..rs[n].Term \subseteq 0..T
    BY <1>1, <1>2
  <1>5. Covered(H, T, c, L)
    BY <1>1, <1>4, Zenon DEF Covered
  <1>6. Same(L, H[T], c)
    BY <1>1, <1>2, <1>3, <1>5, CoveredLeader
  <1>7. Same(rs[l].log.ents, L, c)
    BY <1>1, <1>2, <1>6, SameFlip
  <1>8. QED
    BY <1>7, AgreeSame

\* Two logs that are covered agree as far as both are.
LEMMA CoveredAgree ==
  ASSUME Basis, NEW H, History(H), NEW T \in Nat, NEW V \in Nat, T =< V, NEW L, NEW M,
         Len(L) \in Nat, Len(M) \in Nat, NEW c \in Nat, NEW d \in Nat, NEW k \in Nat, k =< c, k =< d,
         NEW i \in 1..Len(H[T]), c =< i, Chosen(H, T, i), Same(L, H[T], c),
         NEW j \in 1..Len(H[V]), Same(M, H[V], d)
  PROVE  Same(L, M, k)
  <1>1. H \in [Nat -> Seq(Entry)] /\ LaterLeaders(H)
    BY DEF History, Ledger, Leaders
  <1>2. Len(H[T]) \in Nat /\ Len(H[V]) \in Nat /\ H[V] \in Seq(Entry)
    BY <1>1, SeqLen
  <1>3. Same(H[V], H[T], i)
    <2>1. CASE T = V
      BY <1>2, <2>1 DEF Same
    <2>2. CASE T # V
      <3>1. Written(H, T, i) /\ Choosable(T, i)
        BY ChosenChoosable
      <3>2. H[V] # <<>>
        BY <1>2
      <3>3. T < V
        BY <2>2
      <3>4. QED
        BY <1>1, <3>1, <3>2, <3>3 DEF LaterLeaders
    <2>3. QED
      BY <2>1, <2>2
  <1> DEFINE X == H[T]
             Y == H[V]
  <1>4. /\ Same(L, X, c) /\ Same(M, Y, d) /\ Same(Y, X, i) /\ i \in Nat
        /\ Len(X) \in Nat /\ Len(Y) \in Nat
    BY <1>2, <1>3
  <1> HIDE DEF X, Y
  <1>5. QED
    BY <1>4 DEF Same

\* It gives state machine safety: what two nodes have committed is in the
\* row of the later term.
LEMMA InvStateMachineSafety == Basis /\ SafetyInv => StateMachineSafety
  <1> SUFFICES ASSUME Basis, NEW H, History(H), NEW n \in Server, NEW p \in Server
               PROVE  AgreeUpTo(n, p, MinOf(rs[n].log.committed, rs[p].log.committed))
    BY DEF SafetyInv, StateMachineSafety
  <1> DEFINE c == rs[n].log.committed
             d == rs[p].log.committed
             L == rs[n].log.ents
             M == rs[p].log.ents
             k == MinOf(c, d)
  <1>1. /\ Len(L) \in Nat /\ c \in Nat /\ rs[n].Term \in Nat /\ Covered(H, rs[n].Term, c, L)
        /\ Len(M) \in Nat /\ d \in Nat /\ rs[p].Term \in Nat /\ Covered(H, rs[p].Term, d, M)
    BY NodeData, ZenonT(30)
  <1> HIDE DEF c, d, L, M
  <1>2. k \in Nat /\ k =< c /\ k =< d
    BY <1>1 DEF MinOf
  <1> HIDE DEF k
  <1>3. PICK T \in 0..rs[n].Term : \E i \in 1..Len(H[T]) : c =< i /\ Chosen(H, T, i) /\ Same(L, H[T], c)
    BY <1>1, Zenon DEF Covered
  <1>4. PICK i \in 1..Len(H[T]) : c =< i /\ Chosen(H, T, i) /\ Same(L, H[T], c)
    BY <1>3
  <1>5. PICK V \in 0..rs[p].Term : \E j \in 1..Len(H[V]) : d =< j /\ Chosen(H, V, j) /\ Same(M, H[V], d)
    BY <1>1 DEF Covered
  <1>6. PICK j \in 1..Len(H[V]) : d =< j /\ Chosen(H, V, j) /\ Same(M, H[V], d)
    BY <1>5
  <1>7. T \in Nat /\ V \in Nat
    OBVIOUS
  <1>8. CASE T =< V
    <2>1. Same(L, M, k)
      BY <1>1, <1>2, <1>4, <1>6, <1>7, <1>8, CoveredAgree, ZenonT(30)
    <2>2. QED
      BY <2>1, AgreeSame DEF L, M, c, d, k
  <1>9. CASE V =< T
    <2>1. Same(M, L, k)
      BY <1>1, <1>2, <1>4, <1>6, <1>7, <1>9, CoveredAgree, ZenonT(30)
    <2>2. Same(L, M, k)
      BY <1>2, <2>1, SameFlip
    <2>3. QED
      BY <2>2, AgreeSame DEF L, M, c, d, k
  <1>10. QED
    BY <1>7, <1>8, <1>9

\* It gives the soundness of Match: what is counted was acknowledged, and
\* acknowledged entries of the own term are kept.
LEMMA InvMatchIsReplicated == SafetyInv => MatchIsReplicated
  <1> SUFFICES ASSUME NEW H, History(H), NEW l \in Server, NEW p \in Server,
                      rs[l].state = StateLeader, rs[p].Term = rs[l].Term
               PROVE  AgreeUpTo(l, p, rs[l].prs[p].Match)
    BY Zenon DEF SafetyInv, MatchIsReplicated
  <1> DEFINE L == rs[l].log.ents
             M == rs[p].log.ents
             i == rs[l].prs[p].Match
  <1>1. /\ rs[l] \in NodeType /\ Len(L) \in Nat /\ LastIndex(rs[l].log) = Len(L)
        /\ L = H[rs[l].Term] /\ AllWithin(rs[l]) /\ Len(M) \in Nat
    BY NodeData, Zenon DEF NodeLog
  <1>2. i \in Nat /\ i =< Len(L)
    BY <1>1, NodeFields, ProgressFields, Zenon DEF AllWithin, Within
  <1>3. Same(L, M, i)
    <2>1. CASE p = l
      BY <1>2, <2>1 DEF Same
    <2>2. CASE i = 0
      BY <1>1, <2>2 DEF Same
    <2>3. ASSUME NEW o \in msgs, IsAck(o), o.from = p, o.Term = rs[l].Term, o.Index >= i
          PROVE  Same(L, M, i)
      <3>1. Same(M, H[o.Term], o.Index)
        BY <2>3 DEF History, AckLogs
      <3>2. o.Index \in Nat
        BY <2>3, MessageData, Zenon DEF History, ElectionInv, TypeOK
      <3>3. Same(M, L, o.Index)
        BY <1>1, <2>3, <3>1, Zenon
      <3>4. Same(M, L, i)
        BY <1>1, <1>2, <2>3, <3>2, <3>3, SameBelow
      <3>5. QED
        BY <1>2, <3>4, SameFlip, Zenon
    <2>4. QED
      BY <2>1, <2>2, <2>3 DEF History, MatchAcked
  <1>4. QED
    BY <1>3, AgreeSame

----------------------------------------------------------------------------
(* The invariant at the start and along the steps of the cluster.          *)

\* The part on elections holds when all nodes have bootstrapped.
LEMMA StartedElection ==
  ASSUME NEW E, Started(E)
  PROVE  ElectionInv
  <1>1. TypeOK
    BY DEF Started, TypeOK
  <1>2. Drained /\ VotesAreDurable /\ OneVote /\ SpeakersElected
    BY DEF Started, Drained, VotesAreDurable, OneVote, SpeakersElected
  <1>3. RolesEarned
    BY DEF Started, RolesEarned, StateFollower, StateCandidate, StateLeader
  <1>4. QED
    BY <1>1, <1>2, <1>3, Zenon DEF ElectionInv

\* The invariant holds at the start: the log every node bootstraps with is
\* the log of a leader of term 1, and every node has acknowledged it.
LEMMA InitSafety ==
  ASSUME Basis, NEW E, Started(E)
  PROVE  SafetyInv
  <1>1. /\ E \in Seq(Entry) /\ Len(E) > 0 /\ Len(E) \in Nat
        /\ \A j \in 1..Len(E) : E[j].Term = 1
        /\ \A n \in Server : /\ rs[n].log.ents = E /\ rs[n].log.committed = Len(E)
                             /\ rs[n].Term = 1 /\ rs[n].state = StateFollower
                             /\ rs[n].lead = None /\ ~rs[n].panic
    BY SeqLen DEF Started
  <1> DEFINE e == <<>>
             F == [T \in Nat |-> IF T = 1 THEN E ELSE e]
  <1>2. e \in Seq(Entry) /\ Len(e) = 0 /\ e = <<>>
    OBVIOUS
  <1> HIDE DEF e
  <1>3. PICK H : H = F
    BY ZenonT(30)
  <1>4. /\ H \in [Nat -> Seq(Entry)] /\ H[1] = E /\ \A T \in Nat : T # 1 => H[T] = e
    BY <1>1, <1>2, <1>3
  <1> HIDE DEF F
  <1>5. msgs = {} /\ ElectionInv
    BY StartedElection DEF Started
  <1>6. \A n \in Server : rs[n].state # StateLeader /\ rs[n].state # StateCandidate
    BY <1>1 DEF StateFollower, StateLeader, StateCandidate
  <1>7. \A j \in 1..Len(E) : Same(E, E, j)
    BY <1>1 DEF Same
  <1>8. Coherent(H, E) /\ TermsUpTo(E, 1) /\ Coherent(H, e) /\ \A T \in Nat : TermsUpTo(e, T)
    <2>1. \A j \in 1..Len(E) : H[E[j].Term] = E
      BY <1>1, <1>4
    <2>2. Coherent(H, E)
      BY <1>7, <2>1 DEF Coherent
    <2>3. TermsUpTo(E, 1)
      BY <1>1 DEF TermsUpTo
    <2>4. 1..Len(e) = {}
      BY <1>2
    <2>5. QED
      BY <2>2, <2>3, <2>4, Zenon DEF Coherent, TermsUpTo
  <1>9. Leaders(H)
    <2>1. H[0] = <<>>
      BY <1>2, <1>4
    <2>2. ASSUME NEW T \in Nat
          PROVE  Coherent(H, H[T]) /\ TermsUpTo(H[T], T)
      <3>1. H[T] = e \/ (T = 1 /\ H[T] = E)
        BY <1>4
      <3>2. QED
        BY <1>8, <3>1, Zenon
    <2>3. QED
      BY <1>4, <2>1, <2>2, Zenon DEF Leaders
  <1>10. Ledger(H)
    <2>1. \A T \in Nat : T > 1 => H[T] = <<>>
      BY <1>2, <1>4
    <2>2. QED
      BY <1>9, <2>1 DEF Ledger
  <1>11. NodeLogs(H)
    BY <1>1, <1>6, <1>8 DEF NodeLogs, NodeLog
  <1>12. MsgLogs(H) /\ AckLogs(H) /\ Asked
    BY <1>5, ZenonT(30) DEF MsgLogs, AckLogs, Asked
  <1>13. ASSUME NEW T \in Nat, NEW i \in 1..Len(H[T])
         PROVE  T = 1
    BY <1>2, <1>4, <1>13
  <1>14. AckKept(H)
    <2>1. ASSUME NEW a \in Server, NEW T \in Nat, NEW i \in 1..Len(H[T])
          PROVE  Same(rs[a].log.ents, H[T], i)
      <3>1. T = 1 /\ H[T] = E
        BY <1>4, <1>13, <2>1
      <3>2. QED
        BY <1>1, <1>7, <2>1, <3>1
    <2>2. QED
      BY <2>1 DEF AckKept
  <1>15. LaterLeaders(H)
    <2>1. ASSUME NEW T \in Nat, NEW U \in Nat, T < U, H[U] # <<>>, NEW i \in 1..Len(H[T])
          PROVE  FALSE
      <3>1. T = 1
        BY <1>13, <2>1
      <3>2. U = 1
        BY <1>2, <1>4, <2>1
      <3>3. QED
        BY <2>1, <3>1, <3>2
    <2>2. QED
      BY <2>1, Zenon DEF LaterLeaders
  <1>16. Backed(H) /\ MatchAcked /\ LeadKnown
    BY <1>1, <1>5, <1>6, ZenonT(30) DEF Backed, MatchAcked, LeadKnown
  <1>17. CommitsChosen(H)
    <2> DEFINE c == Len(E)
    <2>1. c \in 1..Len(H[1]) /\ Written(H, 1, c)
      BY <1>1, <1>4 DEF Written
    <2>2. Server \subseteq {a \in Server : Acked(a, 1, c)}
      BY DEF Acked
    <2>3. Wins({a \in Server : Acked(a, 1, c)})
      BY <2>2, WinsUp, Zenon DEF Basis
    <2>4. Chosen(H, 1, c)
      BY <2>1, <2>3 DEF Chosen
    <2>5. Same(E, H[1], c) /\ c =< c /\ 1 \in 0..1
      BY <1>1, <1>4 DEF Same
    <2>6. Covered(H, 1, c, E)
      BY <2>1, <2>4, <2>5 DEF Covered
    <2>7. QED
      BY <1>1, <1>5, <2>6, Zenon DEF CommitsChosen
  <1>18. NoPanic
    BY <1>1 DEF NoPanic, Alive
  <1>19. History(H)
    BY <1>5, <1>10, <1>11, <1>12, <1>14, <1>15, <1>16, <1>17, <1>18, Zenon DEF History
  <1>20. QED
    BY <1>19 DEF SafetyInv

\* A step that changes nothing keeps the part on elections.
LEMMA StutterElection ==
  ASSUME ElectionInv, UNCHANGED vars
  PROVE  ElectionInv'
  <1>1. rs' = rs /\ msgs' = msgs /\ readStates' = readStates /\ issued' = issued
    BY DEF vars
  <1>2. TypeOK' /\ Drained' /\ VotesAreDurable'
    BY <1>1 DEF ElectionInv, TypeOK, Drained, VotesAreDurable
  <1>3. OneVote'
    BY <1>1 DEF ElectionInv, OneVote, IsGrant
  <1>4. \A a, n, t : Backs(a, n, t)' = Backs(a, n, t)
    BY <1>1 DEF Backs, SelfVoted, IsGrant
  <1>5. \A n, t : Elected(n, t) => Elected(n, t)'
    BY <1>4 DEF Elected, Wins
  <1>6. RolesEarned'
    BY <1>1, <1>4, <1>5 DEF ElectionInv, RolesEarned
  <1>7. SpeakersElected'
    BY <1>1, <1>5 DEF ElectionInv, SpeakersElected
  <1>8. QED
    BY <1>2, <1>3, <1>6, <1>7 DEF ElectionInv

\* A step that changes nothing keeps the invariant.
LEMMA StutterSafety ==
  ASSUME SafetyInv, UNCHANGED vars
  PROVE  SafetyInv'
  <1>1. rs' = rs /\ msgs' = msgs
    BY DEF vars
  <1>2. PICK H : History(H)
    BY DEF SafetyInv
  <1>3. ElectionInv'
    BY <1>2, StutterElection DEF History
  <1>4. \A a, n, t : Backs(a, n, t)' = Backs(a, n, t)
    BY <1>1 DEF Backs, SelfVoted, IsGrant
  <1>5. \A n, t : Elected(n, t)' = Elected(n, t)
    BY <1>4 DEF Elected, Wins
  <1>6. \A a, T, i : Acked(a, T, i)' = Acked(a, T, i)
    BY <1>1, <1>5 DEF Acked, IsAck
  <1>7. \A T, i : Choosable(T, i)' = Choosable(T, i)
    BY <1>1, <1>6, Zenon DEF Choosable, Wins
  <1>8. \A T, i : Chosen(H, T, i)' = Chosen(H, T, i)
    BY <1>6, ZenonT(30) DEF Chosen, Written, Wins
  <1>9. \A T, c, L : Covered(H, T, c, L)' = Covered(H, T, c, L)
    BY <1>8 DEF Covered
  <1>10. NoPanic' /\ Ledger(H)' /\ NodeLogs(H)' /\ MsgLogs(H)'
    BY <1>1, <1>2, <1>5, Zenon DEF History, NoPanic, Alive, Ledger, Past, Leaders, NodeLogs,
       NodeLog, MsgLogs, MsgLog
  <1>11. AckLogs(H)' /\ AckKept(H)' /\ LaterLeaders(H)'
    BY <1>1, <1>2, <1>6, <1>7, ZenonT(30) DEF History, AckLogs, IsAck, AckKept, LaterLeaders,
       Written
  <1>12. Backed(H)' /\ Asked'
    BY <1>1, <1>2, <1>4, <1>6, <1>7, ZenonT(30) DEF History, Backed, Written, Asked, IsGrant
  <1>13. MatchAcked' /\ LeadKnown' /\ CommitsChosen(H)'
    <2>1. MatchAcked /\ LeadKnown /\ CommitsChosen(H)
      BY <1>2 DEF History
    <2>2. MatchAcked'
      BY <1>1, <2>1 DEF MatchAcked, IsAck
    <2>3. LeadKnown'
      BY <1>1, <1>5, <2>1 DEF LeadKnown, Heard
    <2>4. CommitsChosen(H)'
      BY <1>1, <1>9, <2>1 DEF CommitsChosen, IsAck
    <2>5. QED
      BY <2>2, <2>3, <2>4
  <1>14. History(H)'
    BY <1>3, <1>10, <1>11, <1>12, <1>13, Zenon DEF History
  <1>15. QED
    BY <1>14 DEF SafetyInv

\* What the calls of one node expect of its state and of the messages.
LEMMA SoundNode ==
  ASSUME NEW H, History(H), NEW n \in Server
  PROVE  /\ rs[n] \in NodeType /\ rs[n].id = n /\ OwnVote(rs[n]) /\ rs[n].msgs = {}
         /\ ~rs[n].panic /\ Sound(rs[n], msgs)
  <1>1. /\ ElectionInv /\ NoPanic /\ NodeLog(H, rs[n]) /\ MsgLogs(H) /\ AckLogs(H)
    BY DEF History, NodeLogs
  <1>2. /\ rs[n] \in NodeType /\ rs[n].id = n /\ OwnVote(rs[n]) /\ rs[n].msgs = {}
        /\ msgs \subseteq Message
    BY <1>1, NodeReady, Zenon DEF ElectionInv, TypeOK, Drained
  <1>3. rs[n].log \in LogType
    BY <1>2, NodeFields
  <1>4. LastIndex(rs[n].log) = Len(rs[n].log.ents)
    BY <1>3, LogFields
  <1>5. ASSUME NEW o \in msgs, IsAck(o), o.to = rs[n].id, LedBefore(rs[n], o)
        PROVE  o.Index =< LastIndex(rs[n].log)
    <2>1. o.Index =< Len(H[o.Term])
      BY <1>1, <1>5, Zenon DEF AckLogs
    <2>2. rs[n].log.ents = H[o.Term]
      BY <1>1, <1>5, Zenon DEF NodeLog, LedBefore
    <2>3. QED
      BY <1>4, <2>1, <2>2, Zenon
  <1>6. \A o \in msgs : o.type \in LeaderMsgs \cup Responses => o.from # o.to
    BY <1>1, Zenon DEF MsgLogs, MsgLog
  <1>7. rs[n].state = StateLeader => AllWithin(rs[n])
    BY <1>1 DEF NodeLog
  <1>8. Sound(rs[n], msgs)
    BY <1>5, <1>6, <1>7 DEF Sound
  <1>9. QED
    BY <1>1, <1>2, <1>8, ZenonT(30) DEF NoPanic, Alive

\* The invariant is what the calls may start from.
LEMMA InvPrepared ==
  ASSUME SafetyInv
  PROVE  Prepared
  <1>1. PICK H : History(H)
    BY DEF SafetyInv
  <1>2. msgs \subseteq Message /\ issued \in [ReadCtx -> Nat \cup {-1}]
    BY <1>1 DEF History, ElectionInv, TypeOK
  <1>3. QED
    BY <1>1, <1>2, SoundNode DEF Prepared

\* A call that keeps to its contract keeps the part on elections.
LEMMA CallsMove ==
  ASSUME NEW H, History(H), NEW n \in Server, NEW s, Calls(n, s)
  PROVE  Move(n, s)
  BY CallInv DEF Calls, Move, History

\* A call that keeps to its contract preserves the invariant.
LEMMA CallsSafety ==
  ASSUME Basis, SafetyInv, NEW n \in Server, NEW s, Calls(n, s)
  PROVE  SafetyInv'
  <1>1. PICK H : History(H)
    BY DEF SafetyInv
  <1>2. QED
    BY <1>1, CallsMove, MoveInv

\* What a node has committed no step takes back or replaces.
LEMMA CallsKeepCommitted ==
  ASSUME Basis, SafetyInv, NEW p \in Server, NEW s, Calls(p, s), NEW n \in Server
  PROVE  /\ rs[n].log.committed =< rs'[n].log.committed
         /\ Committed(n) = SubSeq(rs'[n].log.ents, 1, rs[n].log.committed)
  <1>1. PICK H : History(H)
    BY DEF SafetyInv
  <1>2. Move(p, s)
    BY <1>1, CallsMove
  <1>3. ElectionInv
    BY <1>1 DEF History
  <1> DEFINE c == rs[n].log.committed
             L == rs[n].log.ents
             N == rs'[n].log.ents
  <1>4. L \in Seq(Entry) /\ Len(L) \in Nat /\ c \in Nat /\ c =< Len(L)
    BY <1>1, NodeData, ZenonT(30)
  <1>5. N \in Seq(Entry)
    BY <1>2, <1>3, MoveEffect, LogFields, Zenon
  <1>6. c =< rs'[n].log.committed /\ Same(N, L, c)
    <2>1. CASE n = p
      <3>1. rs'[n].log = s.log
        BY <1>2, <1>3, <2>1, MoveEffect, Zenon
      <3>2. c =< s.log.committed /\ Same(s.log.ents, L, c)
        BY <1>1, <1>2, <2>1, CommittedKept, Zenon
      <3>3. QED
        BY <3>1, <3>2, Zenon
    <2>2. CASE n # p
      <3>1. rs'[n] = rs[n]
        BY <1>2, <1>3, <2>2, MoveEffect
      <3>2. QED
        BY <1>4, <3>1 DEF Same
    <2>3. QED
      BY <2>1, <2>2
  <1>7. Committed(n) = SubSeq(L, 1, c)
    BY DEF Committed
  <1> HIDE DEF c, L, N
  <1>8. SubSeq(L, 1, c) = SubSeq(N, 1, c)
    <2>1. Len(N) \in Nat
      BY <1>5, SeqLen
    <2>2. SubSeq(L, 1, c) = [k \in 1..c |-> L[k]]
      BY <1>4
    <2>3. SubSeq(N, 1, c) = [k \in 1..c |-> N[k]]
      BY <1>4, <1>5, <1>6, <2>1 DEF Same
    <2>4. QED
      BY <1>6, <2>2, <2>3, Zenon DEF Same
  <1>9. QED
    BY <1>6, <1>7, <1>8, Zenon DEF c, N
=============================================================================
