--------------------------- MODULE HistoryProofs ---------------------------
(***************************************************************************)
(* The inductive invariants of the cluster, and how one call that keeps to *)
(* its contract changes the logs: every log goes back to the logs of       *)
(* leaders, and every message says what such a log holds.                  *)
(***************************************************************************)
EXTENDS Cluster, LogProofs

----------------------------------------------------------------------------
(* Elections: the invariant that makes the leader of a term unique.       *)

\* Ready has handed everything out.
Drained == \A n \in Server : rs[n].msgs = {} /\ rs[n].readStates = {}

\* No node grants two votes in a term.
OneVote ==
  \A m, o \in msgs : IsGrant(m) /\ IsGrant(o) /\ m.from = o.from /\ m.Term = o.Term => m.to = o.to

\* n voted for itself in the term, and for nobody else.
SelfVoted(n, term) ==
  /\ rs[n].Term > term \/ (rs[n].Term = term /\ rs[n].Vote = n)
  /\ \A m \in msgs : IsGrant(m) /\ m.from = n /\ m.Term = term => m.to = n

Backs(a, n, term) ==
  \/ \E m \in msgs : IsGrant(m) /\ m.from = a /\ m.to = n /\ m.Term = term
  \/ a = n /\ SelfVoted(n, term)

Elected(n, term) == \E Q \in SUBSET Server : Wins(Q) /\ \A a \in Q : Backs(a, n, term)

\* What candidates and leaders base their role on.
RolesEarned ==
  \A n \in Server :
    /\ rs[n].state = StateCandidate =>
         rs[n].Vote = n /\ \A a \in rs[n].granted : Backs(a, n, rs[n].Term)
    /\ rs[n].state = StateLeader => Elected(n, rs[n].Term)

SpeakersElected == \A m \in msgs : m.type \in LeaderMsgs => Elected(m.from, m.Term)

\* The inductive invariant.
ElectionInv ==
  TypeOK /\ Drained /\ VotesAreDurable /\ OneVote /\ RolesEarned /\ SpeakersElected

\* A call changes one node and adds messages, nothing else.
LEMMA CallEffect ==
  ASSUME ElectionInv, NEW n \in Server, NEW s, Call(n, s)
  PROVE  /\ s \in NodeType /\ s.id = n /\ rs[n] \in NodeType
         /\ rs'[n] \in NodeType /\ rs'[n].id = n /\ rs'[n].Term = s.Term /\ rs'[n].Vote = s.Vote
         /\ rs'[n].state = s.state /\ rs'[n].granted = s.granted
         /\ rs'[n].msgs = {} /\ rs'[n].readStates = {}
         /\ \A p \in Server : p # n => rs'[p] = rs[p]
         /\ rs' \in [Server -> NodeType]
         /\ msgs' = msgs \cup s.msgs /\ s.msgs \subseteq Message
         /\ msgs \subseteq Message
         /\ rs[n].Term \in Nat /\ s.Term \in Nat
  <1> DEFINE none == {}
             t == [s EXCEPT !.msgs = none, !.readStates = none]
  <1>1. rs \in [Server -> NodeType] /\ rs[n].id = n /\ msgs \subseteq Message
    BY DEF ElectionInv, TypeOK
  <1>2. s \in NodeType /\ s.id = n
    BY <1>1 DEF Call, CallOK, VoteKept
  <1>3. rs' = [rs EXCEPT ![n] = t] /\ msgs' = msgs \cup s.msgs
    BY DEF Call, Ready
  <1>4. none \in SUBSET Message /\ none \in SUBSET [Index : Nat, Ctx : ReadCtx] /\ none = {}
    OBVIOUS
  <1> HIDE DEF none
  <1>5. t \in NodeType
    BY <1>2, <1>4, Zenon DEF NodeType
  <1>6. /\ t.id = n /\ t.Term = s.Term /\ t.Vote = s.Vote /\ t.state = s.state
        /\ t.granted = s.granted /\ t.msgs = none /\ t.readStates = none
    BY <1>2 DEF NodeType
  <1> HIDE DEF t
  <1>7. rs'[n] = t /\ rs' \in [Server -> NodeType] /\ \A p \in Server : p # n => rs'[p] = rs[p]
    BY <1>1, <1>3, <1>5
  <1>8. s.msgs \subseteq Message /\ rs[n] \in NodeType /\ rs[n].Term \in Nat /\ s.Term \in Nat
    BY <1>1, <1>2, NodeFields
  <1>9. QED
    BY <1>1, <1>2, <1>3, <1>4, <1>5, <1>6, <1>7, <1>8

\* What the call adds to the network.
LEMMA CallSends ==
  ASSUME ElectionInv, NEW n \in Server, NEW s, Call(n, s), NEW m \in msgs', m \notin msgs
  PROVE  /\ m.type \in LeaderMsgs => s.state = StateLeader /\ m.from = n /\ m.Term = s.Term
         /\ IsGrant(m) => m.from = n /\ m.Term = s.Term /\ m.to = s.Vote
  <1>1. m \in s.msgs /\ s.id = n
    BY CallEffect
  <1>2. rs[n].msgs = {}
    BY DEF ElectionInv, Drained
  <1>3. QED
    BY <1>1, <1>2 DEF Call, CallOK, Honest

\* A grant n sent in the term it is in, or enters, is for the vote it holds.
LEMMA OldGrant ==
  ASSUME ElectionInv, NEW n \in Server, NEW s, Call(n, s), NEW m \in msgs, IsGrant(m), m.from = n
  PROVE  s.Term > m.Term \/ (s.Term = m.Term /\ rs[n].Term = m.Term /\ s.Vote = m.to)
  <1>1. rs[n].Term > m.Term \/ (rs[n].Term = m.Term /\ rs[n].Vote = m.to)
    BY DEF ElectionInv, VotesAreDurable, IsGrant
  <1>2. m \in Message /\ rs[n].Term \in Nat /\ s.Term \in Nat
    BY CallEffect
  <1>3. m.to # None /\ m.Term \in Nat
    BY <1>2, MessageKinds, ServerAssumption
  <1>4. s.Term >= rs[n].Term /\ (s.Term = rs[n].Term /\ rs[n].Vote # None => s.Vote = rs[n].Vote)
    BY DEF Call, CallOK, VoteKept
  <1>5. QED
    BY <1>1, <1>2, <1>3, <1>4

\* A call keeps the votes that were sent out.
LEMMA CallDurable ==
  ASSUME ElectionInv, NEW n \in Server, NEW s, Call(n, s)
  PROVE  VotesAreDurable' /\ OneVote'
  <1>1. ASSUME NEW m \in msgs', IsGrant(m)
        PROVE  rs'[m.from].Term > m.Term \/ (rs'[m.from].Term = m.Term /\ rs'[m.from].Vote = m.to)
    <2>1. CASE m \notin msgs
      BY <1>1, <2>1, CallSends, CallEffect
    <2>2. CASE m \in msgs /\ m.from = n
      BY <1>1, <2>2, OldGrant, CallEffect
    <2>3. CASE m \in msgs /\ m.from # n
      <3>1. m.from \in Server
        BY <2>3, CallEffect, MessageKinds
      <3>2. rs'[m.from] = rs[m.from]
        BY <2>3, <3>1, CallEffect
      <3>3. QED
        BY <1>1, <2>3, <3>2 DEF ElectionInv, VotesAreDurable, IsGrant
    <2>4. QED
      BY <2>1, <2>2, <2>3
  <1>2. ASSUME NEW m \in msgs', NEW o \in msgs', IsGrant(m), IsGrant(o), m.from = o.from,
               m.Term = o.Term, m \notin msgs
        PROVE  m.to = o.to
    <2>1. m.from = n /\ m.Term = s.Term /\ m.to = s.Vote
      BY <1>2, CallSends
    <2>2. CASE o \notin msgs
      BY <1>2, <2>1, <2>2, CallSends
    <2>3. CASE o \in msgs
      <3>1. s.Term > o.Term \/ (s.Term = o.Term /\ s.Vote = o.to)
        BY <1>2, <2>1, <2>3, OldGrant, Zenon
      <3>2. s.Term \in Nat
        BY CallEffect
      <3>3. QED
        BY <1>2, <2>1, <3>1, <3>2
    <2>4. QED
      BY <2>2, <2>3
  <1>3. ASSUME NEW m \in msgs, NEW o \in msgs, IsGrant(m), IsGrant(o), m.from = o.from,
               m.Term = o.Term
        PROVE  m.to = o.to
    BY <1>3 DEF ElectionInv, OneVote
  <1>4. OneVote'
    BY <1>2, <1>3 DEF OneVote, IsGrant
  <1>5. QED
    BY <1>1, <1>4 DEF VotesAreDurable, IsGrant

\* The backing of an election is never lost.
LEMMA BacksStable ==
  ASSUME ElectionInv, NEW n \in Server, NEW s, Call(n, s), NEW a, NEW p \in Server,
         NEW term \in Nat, Backs(a, p, term)
  PROVE  Backs(a, p, term)'
  <1>1. msgs \subseteq msgs'
    BY CallEffect
  <1>2. CASE \E m \in msgs : IsGrant(m) /\ m.from = a /\ m.to = p /\ m.Term = term
    BY <1>1, <1>2 DEF Backs, IsGrant
  <1>3. CASE a = p /\ SelfVoted(p, term)
    <2>1. rs'[p].Term > term \/ (rs'[p].Term = term /\ rs'[p].Vote = p)
      <3>1. CASE p # n
        BY <1>3, <3>1, CallEffect DEF SelfVoted
      <3>2. CASE p = n
        <4>1. rs[n].Term > term \/ (rs[n].Term = term /\ rs[n].Vote = n)
          BY <1>3, <3>2 DEF SelfVoted
        <4>2. s.Term >= rs[n].Term /\ (s.Term = rs[n].Term /\ rs[n].Vote # None => s.Vote = rs[n].Vote)
          BY DEF Call, CallOK, VoteKept
        <4>3. n # None
          BY ServerAssumption
        <4>4. rs[n].Term \in Nat /\ s.Term \in Nat /\ rs'[n].Term = s.Term /\ rs'[n].Vote = s.Vote
          BY CallEffect
        <4>5. QED
          BY <3>2, <4>1, <4>2, <4>3, <4>4
      <3>3. QED
        BY <3>1, <3>2
    <2>2. ASSUME NEW m \in msgs', IsGrant(m), m.from = p, m.Term = term
          PROVE  m.to = p
      <3>1. CASE m \in msgs
        BY <1>3, <2>2, <3>1 DEF SelfVoted
      <3>2. CASE m \notin msgs
        <4>1. p = n /\ s.Term = term /\ m.to = s.Vote
          BY <2>2, <3>2, CallSends
        <4>2. rs'[n].Term = s.Term /\ rs'[n].Vote = s.Vote
          BY CallEffect
        <4>3. QED
          BY <2>1, <4>1, <4>2
      <3>3. QED
        BY <3>1, <3>2
    <2>3. QED
      BY <1>3, <2>1, <2>2 DEF Backs, SelfVoted, IsGrant
  <1>4. QED
    BY <1>2, <1>3 DEF Backs

\* An election that was won stays won.
LEMMA ElectedStable ==
  ASSUME ElectionInv, NEW n \in Server, NEW s, Call(n, s), NEW p \in Server,
         NEW term \in Nat, Elected(p, term)
  PROVE  Elected(p, term)'
  <1>1. PICK Q \in SUBSET Server : Wins(Q) /\ \A a \in Q : Backs(a, p, term)
    BY DEF Elected
  <1>2. \A a \in Q : Backs(a, p, term)'
    BY <1>1, BacksStable
  <1>3. Wins(Q)'
    BY <1>1 DEF Wins
  <1>4. QED
    BY <1>2, <1>3 DEF Elected

\* A candidate or new leader is backed by everyone whose vote it may count.
LEMMA SupportersBack ==
  ASSUME ElectionInv, NEW n \in Server, NEW s, Call(n, s), s.Vote = n,
         NEW a \in Supporters(rs[n], s, msgs)
  PROVE  a \in Server /\ Backs(a, n, s.Term)'
  <1>1. rs[n].id = n /\ rs[n] \in NodeType /\ s.Term \in Nat
    BY CallEffect DEF ElectionInv, TypeOK
  <1>2. CASE a = n
    <2>1. rs'[n].Term = s.Term /\ rs'[n].Vote = n
      BY CallEffect
    <2>2. ASSUME NEW m \in msgs', IsGrant(m), m.from = n, m.Term = s.Term
          PROVE  m.to = n
      <3>1. CASE m \in msgs
        BY <1>1, <2>2, <3>1, OldGrant
      <3>2. CASE m \notin msgs
        BY <2>2, <3>2, CallSends
      <3>3. QED
        BY <3>1, <3>2
    <2>3. QED
      BY <1>2, <2>1, <2>2 DEF Backs, SelfVoted, IsGrant
  <1>3. CASE a \in rs[n].granted /\ rs[n].state = StateCandidate /\ rs[n].Term = s.Term
    <2>1. Backs(a, n, s.Term)
      BY <1>3 DEF ElectionInv, RolesEarned
    <2>2. a \in Server
      BY <1>1, <1>3, NodeFields
    <2>3. QED
      BY <1>1, <2>1, <2>2, BacksStable
  <1>4. CASE \E m \in msgs : IsGrant(m) /\ m.to = n /\ m.Term = s.Term /\ m.from = a
    <2>1. PICK m \in msgs : IsGrant(m) /\ m.to = n /\ m.Term = s.Term /\ m.from = a
      BY <1>4
    <2>2. m \in msgs' /\ a \in Server
      BY <2>1, CallEffect, MessageKinds
    <2>3. QED
      BY <2>1, <2>2 DEF Backs, IsGrant
  <1>5. QED
    BY <1>1, <1>2, <1>3, <1>4 DEF Supporters

\* A call leaves only candidates and leaders that are backed.
LEMMA CallRoles ==
  ASSUME ElectionInv, NEW n \in Server, NEW s, Call(n, s)
  PROVE  RolesEarned'
  <1>1. ASSUME NEW p \in Server, p # n
        PROVE  /\ rs'[p].state = StateCandidate =>
                    rs'[p].Vote = p /\ \A a \in rs'[p].granted : Backs(a, p, rs[p].Term)'
               /\ rs'[p].state = StateLeader => Elected(p, rs[p].Term)'
               /\ rs'[p].Term = rs[p].Term
    <2>1. rs'[p] = rs[p]
      BY <1>1, CallEffect
    <2>2. PICK t \in Nat : t = rs[p].Term
      BY NodeFields DEF ElectionInv, TypeOK
    <2>3. rs[p].state = StateLeader => Elected(p, rs[p].Term)
      BY DEF ElectionInv, RolesEarned
    <2>4. rs[p].state = StateCandidate =>
            rs[p].Vote = p /\ \A a \in rs[p].granted : Backs(a, p, rs[p].Term)
      BY DEF ElectionInv, RolesEarned
    <2>5. \A a : Backs(a, p, t) => Backs(a, p, t)'
      BY BacksStable
    <2>6. Elected(p, t) => Elected(p, t)'
      BY ElectedStable
    <2>7. QED
      BY <2>1, <2>2, <2>3, <2>4, <2>5, <2>6
  <1>2. /\ rs'[n].Term = s.Term /\ rs'[n].Vote = s.Vote /\ rs'[n].state = s.state
        /\ rs'[n].granted = s.granted /\ s.id = n /\ s.Term \in Nat
    BY CallEffect
  <1>3. VotesCounted(rs[n], s, msgs)
    BY DEF Call, CallOK
  <1>4. ASSUME s.state = StateCandidate
        PROVE  s.Vote = n /\ \A a \in s.granted : Backs(a, n, s.Term)'
    <2>1. s.Vote = n /\ s.granted \subseteq Supporters(rs[n], s, msgs)
      BY <1>2, <1>3, <1>4 DEF VotesCounted
    <2>2. QED
      BY <2>1, SupportersBack
  <1>5. ASSUME s.state = StateLeader
        PROVE  Elected(n, s.Term)'
    <2>1. CASE rs[n].state = StateLeader /\ rs[n].Term = s.Term
      <3>1. Elected(n, s.Term)
        BY <2>1 DEF ElectionInv, RolesEarned
      <3>2. QED
        BY <1>2, <3>1, ElectedStable
    <2>2. CASE s.Vote = n /\ \E Q \in SUBSET Supporters(rs[n], s, msgs) : Wins(Q)
      <3>1. PICK Q \in SUBSET Supporters(rs[n], s, msgs) : Wins(Q)
        BY <2>2
      <3>2. \A a \in Q : a \in Server /\ Backs(a, n, s.Term)'
        BY <2>2, SupportersBack
      <3>3. Q \in SUBSET Server /\ Wins(Q)'
        BY <3>1, <3>2 DEF Wins
      <3>4. QED
        BY <3>2, <3>3 DEF Elected
    <2>3. QED
      BY <1>2, <1>3, <1>5, <2>1, <2>2 DEF VotesCounted
  <1>6. ASSUME NEW p \in Server
        PROVE  /\ rs'[p].state = StateCandidate =>
                    rs'[p].Vote = p /\ \A a \in rs'[p].granted : Backs(a, p, rs[p].Term)'
               /\ rs'[p].state = StateLeader => Elected(p, rs[p].Term)'
    <2>1. CASE p # n
      BY <1>1, <2>1
    <2>2. CASE p = n
      BY <1>2, <1>4, <1>5, <2>2
    <2>3. QED
      BY <2>1, <2>2
  <1>7. QED
    BY <1>6 DEF RolesEarned

\* A call sends a leader's messages only for a leader that was elected.
LEMMA CallSpeakers ==
  ASSUME ElectionInv, NEW n \in Server, NEW s, Call(n, s)
  PROVE  SpeakersElected'
  <1>1. ASSUME NEW m \in msgs', m.type \in LeaderMsgs
        PROVE  Elected(m.from, m.Term)'
    <2>1. CASE m \in msgs
      <3>1. m.from \in Server /\ m.Term \in Nat
        BY <2>1, CallEffect, MessageKinds
      <3>2. Elected(m.from, m.Term)
        BY <1>1, <2>1 DEF ElectionInv, SpeakersElected
      <3>3. QED
        BY <3>1, <3>2, ElectedStable
    <2>2. CASE m \notin msgs
      <3>1. s.state = StateLeader /\ m.from = n /\ m.Term = s.Term
        BY <1>1, <2>2, CallSends
      <3>2. rs'[n].state = StateLeader /\ rs'[n].Term = s.Term
        BY <3>1, CallEffect
      <3>3. QED
        BY <3>1, <3>2, CallRoles DEF RolesEarned
    <2>3. QED
      BY <2>1, <2>2
  <1>2. QED
    BY <1>1 DEF SpeakersElected

\* A call preserves the invariant.
LEMMA CallInv ==
  ASSUME ElectionInv, NEW n \in Server, NEW s, Call(n, s),
         issued' \in [ReadCtx -> Nat \cup {-1}]
  PROVE  ElectionInv'
  <1>1. TypeOK'
    <2>1. rs' \in [Server -> NodeType] /\ msgs' \subseteq Message
      BY CallEffect
    <2>2. \A p \in Server : rs'[p].id = p
      BY CallEffect DEF ElectionInv, TypeOK
    <2>3. readStates' \subseteq [node : Server, Index : Nat, Ctx : ReadCtx]
      <3>1. s.readStates \subseteq [Index : Nat, Ctx : ReadCtx]
        BY CallEffect, NodeFields
      <3>2. {[node |-> n, Index |-> x.Index, Ctx |-> x.Ctx] : x \in s.readStates}
              \subseteq [node : Server, Index : Nat, Ctx : ReadCtx]
        BY <3>1
      <3>3. QED
        BY <3>2 DEF Call, Ready, ElectionInv, TypeOK
    <2>4. QED
      BY <2>1, <2>2, <2>3 DEF TypeOK
  <1>2. Drained'
    BY CallEffect DEF Drained, ElectionInv
  <1>3. QED
    BY <1>1, <1>2, CallDurable, CallRoles, CallSpeakers DEF ElectionInv

----------------------------------------------------------------------------
(* Every action is such a call.                                            *)

\* Between calls a node is drained and a candidate holds its own vote.
LEMMA NodeReady ==
  ASSUME ElectionInv, NEW n \in Server
  PROVE  rs[n] \in NodeType /\ rs[n].id = n /\ OwnVote(rs[n]) /\ rs[n].msgs = {}
  BY DEF ElectionInv, TypeOK, OwnVote, RolesEarned, Drained

\* A term elects one node: the quorums share a voter, which voted once.
LEMMA ElectedOnce ==
  ASSUME Basis, ElectionInv, NEW n, NEW p, NEW t, Elected(n, t), Elected(p, t)
  PROVE  n = p
  <1>1. PICK Q \in SUBSET Server : Wins(Q) /\ \A a \in Q : Backs(a, n, t)
    BY DEF Elected
  <1>2. PICK R \in SUBSET Server : Wins(R) /\ \A a \in R : Backs(a, p, t)
    BY DEF Elected
  <1>3. PICK a \in Server : a \in Q /\ a \in R
    BY <1>1, <1>2, Zenon DEF Basis
  <1>4. Backs(a, n, t) /\ Backs(a, p, t)
    BY <1>1, <1>2, <1>3
  <1>5. QED
    BY <1>4 DEF Backs, SelfVoted, ElectionInv, OneVote

\* A term has one leader.
LEMMA InvSafety == Basis /\ ElectionInv => ElectionSafety
  <1> SUFFICES ASSUME Basis, ElectionInv, NEW n \in Server, NEW p \in Server, NEW t \in 1..rs[n].Term,
                      HasLed(n, t), HasLed(p, t)
               PROVE  n = p
    BY DEF ElectionSafety
  <1>1. \A x \in Server : HasLed(x, t) => Elected(x, t)
    BY DEF HasLed, Leads, ElectionInv, RolesEarned, SpeakersElected
  <1>2. QED
    BY <1>1, ElectedOnce

----------------------------------------------------------------------------
(* The inductive invariant.  H[T], the log of the leader of term T as of   *)
(* its last append, is a history that the nodes need not keep: it exists.  *)

\* q has been past its candidacy of term T.
Past(q, T) == rs[q].Term > T \/ (rs[q].Term = T /\ rs[q].state # StateCandidate)

\* Entry i was written by the leader of term T, in this term.
Written(H, T, i) == i \in 1..Len(H[T]) /\ H[T][i].Term = T

\* a is, for good, among those that the leader of term T counts for entry i.
\* All nodes start with the entries of term 1.
Acked(a, T, i) ==
  \/ T = 1
  \/ Elected(a, T)
  \/ \E m \in msgs : IsAck(m) /\ m.from = a /\ m.Term = T /\ m.Index >= i

\* The leader of term T may still find a quorum for entry i.
Choosable(T, i) == Wins({a \in Server : rs[a].Term =< T \/ Acked(a, T, i)})

\* It has found one.
Chosen(H, T, i) == Written(H, T, i) /\ Wins({a \in Server : Acked(a, T, i)})

\* L up to index c is covered by what was chosen in a term up to T.
Covered(H, T, c, L) ==
  \E U \in 0..T : \E i \in 1..Len(H[U]) : c =< i /\ Chosen(H, U, i) /\ Same(L, H[U], c)

Ledger(H) ==
  /\ Leaders(H)
  /\ \A T \in Nat : T > 1 /\ H[T] # <<>> => \E q \in Server : Elected(q, T) /\ Past(q, T)

NodeLog(H, r) ==
  /\ Coherent(H, r.log.ents) /\ TermsUpTo(r.log.ents, r.Term) /\ r.Term >= 1
  /\ r.state \in {StateLeader, StateCandidate} => r.Term > 1
  /\ r.state = StateLeader => r.log.ents = H[r.Term] /\ AllWithin(r)

NodeLogs(H) == \A n \in Server : NodeLog(H, rs[n])

\* What a leader says is from its log.
MsgLog(H, m) ==
  /\ m.type \in LeaderMsgs => H[m.Term] # <<>>
  /\ m.type \in LeaderMsgs \cup Responses => m.from # m.to
  /\ m.type = "MsgApp" =>
       /\ SliceOf(H[m.Term], m.Index, m.Entries)
       /\ m.Index > 0 => m.LogTerm = H[m.Term][m.Index].Term
  /\ m.type = "MsgSnap" => Same(m.Snapshot, H[m.Term], Len(m.Snapshot))

MsgLogs(H) == \A m \in msgs : MsgLog(H, m)

\* What was acknowledged is in the log for the rest of the term ...
AckLogs(H) ==
  \A m \in msgs : IsAck(m) =>
    /\ m.Index =< Len(H[m.Term]) /\ rs[m.from].Term >= m.Term
    /\ rs[m.from].Term = m.Term => Same(rs[m.from].log.ents, H[m.Term], m.Index)

\* ... and as long as the entry may be chosen.
AckKept(H) ==
  \A a \in Server, T \in Nat : \A i \in 1..Len(H[T]) :
    Written(H, T, i) /\ Acked(a, T, i) /\ Choosable(T, i) => Same(rs[a].log.ents, H[T], i)

\* The leader of a later term has every entry that may be chosen.
LaterLeaders(H) ==
  \A T, U \in Nat : T < U /\ H[U] # <<>> =>
    \A i \in 1..Len(H[T]) : Written(H, T, i) /\ Choosable(T, i) => Same(H[U], H[T], i)

\* A candidate has those that a node voting for it has acknowledged.
Backed(H) ==
  \A a, n \in Server : rs[n].state = StateCandidate /\ Backs(a, n, rs[n].Term) =>
    \A T \in Nat : T < rs[n].Term => \A i \in 1..Len(H[T]) :
      Written(H, T, i) /\ Acked(a, T, i) /\ Choosable(T, i) => Same(rs[n].log.ents, H[T], i)

\* A vote is asked for once, with the log that the candidate keeps.
Asked ==
  \A m \in msgs :
    /\ m.type = "MsgVote" =>
         /\ rs[m.from].Term >= m.Term
         /\ rs[m.from].Term = m.Term /\ rs[m.from].state = StateCandidate =>
              m.Index = LastIndex(rs[m.from].log) /\ m.LogTerm = LastTerm(rs[m.from].log)
    /\ IsGrant(m) => rs[m.to].Term >= m.Term

\* Whatever is committed, or said to be, was chosen.
CommitsChosen(H) ==
  /\ \A n \in Server : Covered(H, rs[n].Term, rs[n].log.committed, rs[n].log.ents)
  /\ \A m \in msgs :
       /\ m.type = "MsgApp" => Covered(H, m.Term, m.Commit, H[m.Term])
       /\ m.type = "MsgSnap" => Covered(H, m.Term, Len(m.Snapshot), H[m.Term])
       /\ m.type = "MsgHeartbeat" =>
            /\ Covered(H, m.Term, m.Commit, H[m.Term])
            /\ \/ m.Commit = 0
               \/ \E o \in msgs : IsAck(o) /\ o.from = m.to /\ o.Term = m.Term /\ o.Index >= m.Commit

\* A leader counts what was acknowledged.
MatchAcked ==
  \A n, p \in Server : rs[n].state = StateLeader /\ p # n =>
    \/ rs[n].prs[p].Match = 0
    \/ \E o \in msgs : IsAck(o) /\ o.from = p /\ o.Term = rs[n].Term /\ o.Index >= rs[n].prs[p].Match

\* A node that knows a leader has heard it; only leaders are asked for a
\* transfer of their leadership.
LeadKnown ==
  /\ \A n \in Server :
       \/ rs[n].lead = None
       \/ rs[n].state = StateLeader /\ rs[n].lead = n
       \/ \E o \in msgs : Heard(rs[n], o) /\ o.from = rs[n].lead
  /\ \A m \in msgs : m.type = "MsgTransferLeader" => Elected(m.to, m.Term)

History(H) ==
  /\ ElectionInv /\ NoPanic
  /\ Ledger(H) /\ NodeLogs(H) /\ MsgLogs(H) /\ AckLogs(H) /\ AckKept(H) /\ LaterLeaders(H)
  /\ Backed(H) /\ Asked /\ CommitsChosen(H) /\ MatchAcked /\ LeadKnown

SafetyInv == \E H : History(H)

----------------------------------------------------------------------------
(* Elections.                                                              *)

OneElected == \A n, p, t : Elected(n, t) /\ Elected(p, t) => n = p

\* Whoever backs a candidate has reached its term, and so has a candidate
\* that somebody else backs.
BackersReached ==
  \A a, n \in Server : \A t \in Nat : Backs(a, n, t) => rs[a].Term >= t

\* An elected node is the only one of its term, and whoever backs a node has
\* reached the term it backs it for.
LEMMA ElectionFacts == Basis /\ ElectionInv => OneElected /\ BackersReached
  <1> SUFFICES ASSUME Basis, ElectionInv
               PROVE  OneElected /\ BackersReached
    OBVIOUS
  <1>1. OneElected
    BY ElectedOnce DEF OneElected
  <1>2. ASSUME NEW a \in Server, NEW n \in Server, NEW t \in Nat, Backs(a, n, t)
        PROVE  rs[a].Term >= t
    <2>1. rs[a].Term \in Nat
      BY NodeReady, NodeFields
    <2>2. QED
      BY <1>2, <2>1 DEF Backs, SelfVoted, ElectionInv, VotesAreDurable, IsGrant
  <1>3. QED
    BY <1>1, <1>2 DEF BackersReached

\* The same after a step.
LEMMA ElectionFactsNext ==
  ASSUME Basis, ElectionInv'
  PROVE  OneElected' /\ BackersReached'
  BY ElectionFacts, PTL

----------------------------------------------------------------------------
(* One call into node n that leaves it in state s.                         *)

Move(n, s) == Call(n, s) /\ Replicates(rs[n], s, msgs) /\ ElectionInv'

\* The fields of messages.
LEMMA MessageData ==
  ASSUME NEW m \in Message
  PROVE  /\ m.from \in Server /\ m.to \in Server /\ m.Term \in Nat
         /\ IsAck(m) => m.Index \in Nat
         /\ m.type = "MsgApp" => /\ m.Index \in Nat /\ m.LogTerm \in Nat /\ m.Commit \in Nat
                                /\ m.Entries \in Seq(Entry)
         /\ m.type = "MsgHeartbeat" => m.Commit \in Nat
         /\ m.type = "MsgSnap" => m.Snapshot \in Seq(Entry)
  <1>1. m.from \in Server /\ m.to \in Server /\ m.Term \in Nat
    BY MessageKinds
  <1>2. IsAck(m) => m.Index \in Nat
    BY MessageKinds DEF IsAck, AppRespMessage
  <1>3. m.type = "MsgApp" => /\ m.Index \in Nat /\ m.LogTerm \in Nat /\ m.Commit \in Nat
                            /\ m.Entries \in Seq(Entry)
    BY MessageKinds DEF AppMessage
  <1>4. m.type = "MsgHeartbeat" => m.Commit \in Nat
    BY MessageKinds DEF HeartbeatMessage
  <1>5. m.type = "MsgSnap" => m.Snapshot \in Seq(Entry)
    BY MessageKinds DEF SnapMessage
  <1>6. QED
    BY <1>1, <1>2, <1>3, <1>4, <1>5

\* What changes.
LEMMA MoveEffect ==
  ASSUME ElectionInv, NEW n \in Server, NEW s, Move(n, s)
  PROVE  /\ rs[n] \in NodeType /\ s \in NodeType /\ rs[n].id = n /\ s.id = n
         /\ rs'[n].Term = s.Term /\ rs'[n].state = s.state /\ rs'[n].log = s.log
         /\ rs'[n].prs = s.prs /\ rs'[n].lead = s.lead /\ rs'[n].panic = s.panic /\ rs'[n].id = n
         /\ \A p \in Server : p # n => rs'[p] = rs[p]
         /\ \A p \in Server : /\ rs[p].Term \in Nat /\ rs'[p].Term \in Nat /\ rs'[p].Term >= rs[p].Term
                              /\ rs[p].log \in LogType /\ rs'[p].log \in LogType
         /\ msgs' = msgs \cup s.msgs /\ msgs \subseteq Message /\ s.msgs \subseteq Message
         /\ rs[n].Term \in Nat /\ s.Term \in Nat /\ s.Term >= rs[n].Term
         /\ rs[n].log \in LogType /\ s.log \in LogType
  <1> DEFINE none == {}
             t == [s EXCEPT !.msgs = none, !.readStates = none]
  <1>1. Call(n, s)
    BY DEF Move
  <1>2. /\ s \in NodeType /\ s.id = n /\ rs[n] \in NodeType /\ rs \in [Server -> NodeType]
        /\ \A p \in Server : p # n => rs'[p] = rs[p]
        /\ msgs' = msgs \cup s.msgs /\ s.msgs \subseteq Message /\ msgs \subseteq Message
        /\ rs' \in [Server -> NodeType] /\ rs[n].Term \in Nat /\ s.Term \in Nat
    BY <1>1, CallEffect DEF ElectionInv, TypeOK
  <1>3. rs' = [rs EXCEPT ![n] = t]
    BY <1>1 DEF Call, Ready
  <1>4. /\ t.id = s.id /\ t.Term = s.Term /\ t.state = s.state /\ t.log = s.log /\ t.prs = s.prs
        /\ t.lead = s.lead /\ t.panic = s.panic
    BY <1>2 DEF NodeType
  <1> HIDE DEF t
  <1>5. rs'[n] = t
    BY <1>2, <1>3
  <1>6. s.Term >= rs[n].Term /\ rs[n].id = n
    BY <1>1 DEF Call, CallOK, VoteKept, ElectionInv, TypeOK
  <1>7. \A p \in Server : /\ rs[p] \in NodeType /\ rs'[p] \in NodeType
                          /\ rs[p].Term \in Nat /\ rs'[p].Term \in Nat
                          /\ rs[p].log \in LogType /\ rs'[p].log \in LogType
    BY <1>2, NodeFields
  <1>8. \A p \in Server : rs'[p].Term >= rs[p].Term
    BY <1>2, <1>4, <1>5, <1>6, <1>7
  <1>9. rs[n].log \in LogType /\ s.log \in LogType
    BY <1>2, NodeFields
  <1>10. QED
    BY <1>2, <1>4, <1>5, <1>6, <1>7, <1>8, <1>9

\* What is sent.
LEMMA MoveSends ==
  ASSUME ElectionInv, NEW n \in Server, NEW s, Move(n, s), NEW m \in msgs', m \notin msgs
  PROVE  /\ m \in Message /\ SentFair(rs[n], s, msgs, m)
         /\ m.type \in LeaderMsgs => s.state = StateLeader /\ m.from = n /\ m.Term = s.Term
         /\ IsGrant(m) => m.from = n /\ m.Term = s.Term /\ m.to = s.Vote
  <1>1. m \in s.msgs /\ m \in Message /\ rs[n].msgs = {}
    BY MoveEffect DEF ElectionInv, Drained
  <1>2. SentFair(rs[n], s, msgs, m)
    BY <1>1 DEF Move, Replicates
  <1>3. QED
    BY <1>1, <1>2, CallSends DEF Move

\* The history after the call.
Grow(H, s) == IF s.state = StateLeader THEN [H EXCEPT ![s.Term] = s.log.ents] ELSE H

\* A leader is of a term above the first, has been elected, and, if it has
\* not led before, nobody has led in its term.
LEMMA NewLeader ==
  ASSUME Basis, NEW H, History(H), NEW n \in Server, NEW s, Move(n, s), s.state = StateLeader
  PROVE  /\ s.Term > 1 /\ Elected(n, s.Term)'
         /\ LedBefore(rs[n], s) \/ H[s.Term] = <<>>
  <1>1. /\ ElectionInv /\ ElectionInv' /\ RolesFair(rs[n], s) /\ Ledger(H) /\ NodeLog(H, rs[n])
    BY DEF History, Move, Replicates, NodeLogs
  <1>2. /\ rs'[n].Term = s.Term /\ rs'[n].state = StateLeader /\ s.Term >= rs[n].Term
        /\ rs[n].Term \in Nat /\ s.Term \in Nat
    BY <1>1, MoveEffect
  <1>3. Elected(n, s.Term)'
    BY <1>1, <1>2 DEF ElectionInv, RolesEarned
  <1>4. \/ rs[n].state \in {StateLeader, StateCandidate} /\ rs[n].Term = s.Term
        \/ s.Term > rs[n].Term
    BY <1>1 DEF RolesFair
  <1>5. s.Term > 1
    BY <1>1, <1>2, <1>4 DEF NodeLog
  <1>6. ASSUME H[s.Term] # <<>>
        PROVE  LedBefore(rs[n], s)
    <2>1. PICK q \in Server : Elected(q, s.Term) /\ Past(q, s.Term)
      BY <1>1, <1>2, <1>5, <1>6 DEF Ledger
    <2>2. Elected(q, s.Term)'
      BY <1>1, <1>2, <2>1, ElectedStable DEF Move
    <2>3. q = n
      BY <1>1, <1>3, <2>2, ElectionFactsNext DEF OneElected
    <2>4. QED
      BY <1>2, <1>4, <2>1, <2>3 DEF Past, LedBefore
  <1>7. QED
    BY <1>3, <1>5, <1>6

\* The log of a leader goes on where its history ends.
LEMMA LeaderAppends ==
  ASSUME Basis, NEW H, History(H), NEW n \in Server, NEW s, Move(n, s), s.state = StateLeader
  PROVE  /\ Same(s.log.ents, rs[n].log.ents, Len(rs[n].log.ents))
         /\ Same(s.log.ents, H[s.Term], Len(H[s.Term]))
         /\ \A i \in 1..Len(s.log.ents) : i =< Len(rs[n].log.ents) \/ s.log.ents[i].Term = s.Term
         /\ LedBefore(rs[n], s) => H[s.Term] = rs[n].log.ents
  <1> DEFINE L == s.log.ents
             M == rs[n].log.ents
  <1>1. ElectionInv /\ NodeLog(H, rs[n]) /\ LogFair(rs[n], s, msgs)
    BY DEF History, Move, Replicates, NodeLogs
  <1>2. L \in Seq(Entry) /\ M \in Seq(Entry) /\ Len(L) \in Nat /\ Len(M) \in Nat
    BY <1>1, MoveEffect, LogFields, Zenon
  <1>3. L = M \/ \E e \in Entry : e.Term = s.Term /\ L = Append(M, e)
    BY <1>1, ZenonT(30) DEF LogFair, Appends
  <1>4. LedBefore(rs[n], s) => H[s.Term] = M
    BY <1>1 DEF LedBefore, NodeLog
  <1>5. LedBefore(rs[n], s) \/ H[s.Term] = <<>>
    BY NewLeader
  <1> HIDE DEF L, M
  <1>6. Same(L, M, Len(M)) /\ \A i \in 1..Len(L) : i =< Len(M) \/ L[i].Term = s.Term
    <2>1. CASE L = M
      BY <1>2, <2>1 DEF Same
    <2>2. ASSUME NEW e \in Entry, e.Term = s.Term, L = Append(M, e)
          PROVE  Same(L, M, Len(M)) /\ \A i \in 1..Len(L) : i =< Len(M) \/ L[i].Term = s.Term
      <3>1. Len(L) = Len(M) + 1 /\ L[Len(M) + 1] = e /\ \A k \in 1..Len(M) : L[k] = M[k]
        BY <1>2, <2>2
      <3>2. QED
        BY <1>2, <2>2, <3>1 DEF Same
    <2>3. QED
      BY <1>3, <2>1, <2>2
  <1>7. Same(L, H[s.Term], Len(H[s.Term]))
    <2>1. CASE LedBefore(rs[n], s)
      BY <1>4, <1>6, <2>1
    <2>2. CASE H[s.Term] = <<>>
      <3>1. Len(<<>>) = 0
        OBVIOUS
      <3>2. Len(H[s.Term]) = 0
        BY <2>2, <3>1
      <3>3. QED
        BY <1>2, <3>2 DEF Same
    <2>3. QED
      BY <1>5, <2>1, <2>2
  <1>8. QED
    BY <1>4, <1>6, <1>7, Zenon DEF L, M

\* The history only grows, and only at the term of a leader.
LEMMA GrowFacts ==
  ASSUME Basis, NEW H, History(H), NEW n \in Server, NEW s, Move(n, s), NEW K, K = Grow(H, s)
  PROVE  /\ H \in [Nat -> Seq(Entry)] /\ K \in [Nat -> Seq(Entry)]
         /\ \A T \in Nat : T # s.Term => K[T] = H[T]
         /\ s.state # StateLeader => K = H
         /\ s.state = StateLeader => K[s.Term] = s.log.ents
         /\ \A T \in Nat : Same(K[T], H[T], Len(H[T]))
  <1>1. H \in [Nat -> Seq(Entry)] /\ ElectionInv
    BY DEF History, Ledger, Leaders
  <1>2. s.Term \in Nat /\ s.log.ents \in Seq(Entry)
    BY <1>1, MoveEffect, LogFields
  <1>3. \A T \in Nat : Len(H[T]) \in Nat /\ Same(H[T], H[T], Len(H[T]))
    BY <1>1 DEF Same
  <1>4. CASE s.state # StateLeader
    <2>1. K = H
      BY <1>4 DEF Grow
    <2>2. QED
      BY <1>1, <1>3, <1>4, <2>1, Zenon
  <1>5. CASE s.state = StateLeader
    <2>1. K = [H EXCEPT ![s.Term] = s.log.ents]
      BY <1>5 DEF Grow
    <2>2. K \in [Nat -> Seq(Entry)] /\ K[s.Term] = s.log.ents /\ \A T \in Nat : T # s.Term => K[T] = H[T]
      BY <1>1, <1>2, <2>1
    <2>3. Same(s.log.ents, H[s.Term], Len(H[s.Term]))
      BY <1>5, LeaderAppends
    <2>4. QED
      BY <1>1, <1>3, <1>5, <2>2, <2>3, Zenon
  <1>6. QED
    BY <1>4, <1>5, Zenon

\* What agrees with the history agrees with the one after the call.
LEMMA GrowSame ==
  ASSUME Basis, NEW H, History(H), NEW n \in Server, NEW s, Move(n, s), NEW K, K = Grow(H, s),
         NEW T \in Nat, NEW i \in Nat, NEW L, Same(L, H[T], i)
  PROVE  Same(L, K[T], i)
  <1>1. H[T] \in Seq(Entry) /\ K[T] \in Seq(Entry) /\ Same(K[T], H[T], Len(H[T]))
    BY GrowFacts, ZenonT(30)
  <1>2. Same(K[T], H[T], Len(H[T])) /\ Len(H[T]) \in Nat /\ Len(K[T]) \in Nat
    BY <1>1, SeqLen
  <1>3. QED
    BY <1>2 DEF Same

\* Entries that were written stay; new ones are those of the leader.
LEMMA GrowWritten ==
  ASSUME Basis, NEW H, History(H), NEW n \in Server, NEW s, Move(n, s), NEW K, K = Grow(H, s),
         NEW T \in Nat, NEW i
  PROVE  /\ Written(H, T, i) => Written(K, T, i)
         /\ Written(K, T, i) /\ ~Written(H, T, i) =>
              T = s.Term /\ s.state = StateLeader /\ i \in Nat /\ i > Len(H[T]) /\ Len(H[T]) \in Nat
  <1>1. /\ H[T] \in Seq(Entry) /\ K[T] \in Seq(Entry) /\ Same(K[T], H[T], Len(H[T]))
        /\ T # s.Term => K[T] = H[T]
        /\ s.state # StateLeader => K[T] = H[T]
    <2>1. H \in [Nat -> Seq(Entry)] /\ K \in [Nat -> Seq(Entry)] /\ Same(K[T], H[T], Len(H[T]))
      BY GrowFacts, ZenonT(30)
    <2>2. T # s.Term => K[T] = H[T]
      BY GrowFacts
    <2>3. s.state # StateLeader => K = H
      BY DEF Grow
    <2>4. QED
      BY <2>1, <2>2, <2>3
  <1>2. Len(H[T]) \in Nat /\ Len(K[T]) \in Nat
    BY <1>1, SeqLen
  <1>3. QED
    BY <1>1, <1>2 DEF Same, Written

\* Coherence survives.
LEMMA GrowCoherent ==
  ASSUME Basis, NEW H, History(H), NEW n \in Server, NEW s, Move(n, s), NEW K, K = Grow(H, s),
         NEW L \in Seq(Entry), Coherent(H, L)
  PROVE  Coherent(K, L)
  <1>1. ASSUME NEW j \in 1..Len(L)
        PROVE  Same(L, K[L[j].Term], j)
    <2>1. L[j].Term \in Nat /\ j \in Nat
      BY EntryTerm, SeqLen
    <2>2. Same(L, H[L[j].Term], j)
      BY Zenon DEF Coherent
    <2>3. QED
      BY <2>1, <2>2, GrowSame, Zenon
  <1>2. QED
    BY <1>1 DEF Coherent

----------------------------------------------------------------------------
(* What was acknowledged, and what may be chosen, across a call.           *)

\* An acknowledgement is not taken back.
LEMMA AckedStays ==
  ASSUME ElectionInv, NEW n \in Server, NEW s, Move(n, s),
         NEW a \in Server, NEW T \in Nat, NEW i, Acked(a, T, i)
  PROVE  Acked(a, T, i)'
  <1>1. Elected(a, T) => Elected(a, T)'
    BY ElectedStable DEF Move
  <1>2. msgs \subseteq msgs'
    BY MoveEffect
  <1>3. QED
    BY <1>1, <1>2 DEF Acked, IsAck

\* A written entry has a leader.
LEMMA WrittenOwner ==
  ASSUME NEW H, Ledger(H), NEW T \in Nat, NEW i, Written(H, T, i)
  PROVE  /\ T >= 1 /\ H[T] # <<>> /\ i \in Nat /\ i > 0
         /\ T = 1 \/ \E q \in Server : Elected(q, T)
  <1> DEFINE e == <<>>
  <1>1. H \in [Nat -> Seq(Entry)] /\ H[0] = e
    BY DEF Ledger, Leaders
  <1>2. i \in 1..Len(H[T]) /\ Len(H[T]) \in Nat
    BY <1>1, SeqLen DEF Written
  <1>3. Len(e) = 0 /\ e = <<>>
    OBVIOUS
  <1> HIDE DEF e
  <1>4. H[T] # e /\ i \in Nat /\ i > 0
    BY <1>2, <1>3
  <1>5. T # 0
    BY <1>1, <1>4
  <1>6. T > 1 => \E q \in Server : Elected(q, T)
    BY <1>3, <1>4, Zenon DEF Ledger
  <1>7. QED
    BY <1>3, <1>4, <1>5, <1>6

\* Only the node that is called adds an acknowledgement of a written entry,
\* in its term.
LEMMA AckedBack ==
  ASSUME Basis, NEW H, History(H), NEW n \in Server, NEW s, Move(n, s),
         NEW a \in Server, NEW T \in Nat, NEW i, Written(H, T, i), Acked(a, T, i)'
  PROVE  \/ Acked(a, T, i)
         \/ /\ a = n /\ T = s.Term
            /\ \E m \in msgs' : m \notin msgs /\ IsAck(m) /\ m.from = n /\ m.Term = T /\ m.Index >= i
  <1>1. ElectionInv /\ ElectionInv' /\ Ledger(H)
    BY DEF History, Move
  <1>2. CASE T = 1
    BY <1>2 DEF Acked
  <1>3. CASE T # 1 /\ Elected(a, T)'
    <2>1. PICK q \in Server : Elected(q, T)
      BY <1>1, <1>3, WrittenOwner
    <2>2. Elected(q, T)'
      BY <1>1, <2>1, ElectedStable DEF Move
    <2>3. q = a
      BY <1>1, <1>3, <2>2, ElectionFactsNext DEF OneElected
    <2>4. QED
      BY <2>1, <2>3 DEF Acked
  <1>4. ASSUME NEW m \in msgs', IsAck(m), m.from = a, m.Term = T, m.Index >= i
        PROVE  \/ Acked(a, T, i)
               \/ a = n /\ T = s.Term /\ m \notin msgs
    <2>1. CASE m \in msgs
      BY <1>4, <2>1 DEF Acked, IsAck
    <2>2. CASE m \notin msgs
      <3>1. m.from = s.id /\ m.Term = s.Term
        BY <1>1, <1>4, <2>2, MoveSends DEF SentFair
      <3>2. QED
        BY <1>1, <1>4, <2>2, <3>1, MoveEffect, Zenon
    <2>3. QED
      BY <2>1, <2>2
  <1>5. \/ T = 1 \/ Elected(a, T)'
        \/ \E m \in msgs' : IsAck(m) /\ m.from = a /\ m.Term = T /\ m.Index >= i
    BY DEF Acked, IsAck
  <1>6. QED
    BY <1>2, <1>3, <1>4, <1>5

\* A new entry is, at first, acknowledged by its leader only.
LEMMA AckedNew ==
  ASSUME Basis, NEW H, History(H), NEW n \in Server, NEW s, Move(n, s), NEW K, K = Grow(H, s),
         NEW a \in Server, NEW T \in Nat, NEW i, Written(K, T, i), ~Written(H, T, i),
         Acked(a, T, i)'
  PROVE  a = n
  <1>1. ElectionInv /\ ElectionInv' /\ AckLogs(H)
    BY DEF History, Move
  <1>2. T = s.Term /\ s.state = StateLeader /\ i \in Nat /\ i > Len(H[T]) /\ Len(H[T]) \in Nat
    BY GrowWritten
  <1>3. T # 1 /\ Elected(n, T)'
    BY <1>2, NewLeader
  <1>4. CASE Elected(a, T)'
    BY <1>1, <1>3, <1>4, ElectionFactsNext DEF OneElected
  <1>5. ASSUME NEW m \in msgs', IsAck(m), m.from = a, m.Term = T, m.Index >= i
        PROVE  a = n
    <2>1. CASE m \in msgs
      <3>1. m.Index =< Len(H[T]) /\ m.Index \in Nat
        <4>1. m \in Message
          BY <1>1, <2>1, MoveEffect
        <4>2. QED
          BY <1>1, <1>5, <2>1, <4>1, MessageData DEF AckLogs
      <3>2. QED
        BY <1>2, <1>5, <3>1
    <2>2. CASE m \notin msgs
      <3>1. m.from = s.id
        BY <1>1, <1>5, <2>2, MoveSends, Zenon DEF SentFair
      <3>2. QED
        BY <1>1, <1>5, <3>1, MoveEffect
    <2>3. QED
      BY <2>1, <2>2
  <1>6. QED
    BY <1>3, <1>4, <1>5 DEF Acked, IsAck

\* A larger set wins too.
LEMMA WinsUp ==
  ASSUME Basis, NEW P, NEW Q, P \subseteq Q, Wins(P)
  PROVE  Wins(Q)
  BY Zenon DEF Basis, Wins

\* What is not choosable does not become so.
LEMMA ChoosableBack ==
  ASSUME Basis, NEW H, History(H), NEW n \in Server, NEW s, Move(n, s),
         NEW T \in Nat, NEW i, Written(H, T, i), Choosable(T, i)'
  PROVE  Choosable(T, i)
  <1> DEFINE Q == {a \in Server : rs[a].Term =< T \/ Acked(a, T, i)}
             R == {a \in Server : rs'[a].Term =< T \/ Acked(a, T, i)'}
  <1>1. ElectionInv
    BY DEF History
  <1>2. Wins(R)
    BY DEF Choosable, Wins
  <1>3. ASSUME NEW a \in R
        PROVE  a \in Q
    <2>1. /\ rs[a].Term \in Nat /\ rs'[a].Term \in Nat /\ rs'[a].Term >= rs[a].Term
          /\ rs[n].Term \in Nat /\ s.Term \in Nat /\ s.Term >= rs[n].Term
      BY <1>1, MoveEffect
    <2>2. CASE rs'[a].Term =< T
      BY <2>1, <2>2
    <2>3. CASE Acked(a, T, i)'
      <3>1. Acked(a, T, i) \/ (a = n /\ T = s.Term)
        BY <2>3, AckedBack
      <3>2. QED
        BY <2>1, <3>1
    <2>4. QED
      BY <2>2, <2>3, Zenon
  <1>4. R \subseteq Q
    BY <1>3
  <1> HIDE DEF Q, R
  <1>5. Wins(Q)
    BY <1>2, <1>4, WinsUp
  <1>6. QED
    BY <1>5 DEF Choosable, Q

\* What was chosen may be chosen.
LEMMA ChosenChoosable ==
  ASSUME Basis, NEW H, NEW T, NEW i, Chosen(H, T, i)
  PROVE  Written(H, T, i) /\ Choosable(T, i)
  <1> DEFINE Q == {a \in Server : rs[a].Term =< T \/ Acked(a, T, i)}
             R == {a \in Server : Acked(a, T, i)}
  <1>1. Wins(R) /\ R \subseteq Q /\ Written(H, T, i)
    BY DEF Chosen
  <1> HIDE DEF Q, R
  <1>2. Wins(Q)
    BY <1>1, WinsUp
  <1>3. QED
    BY <1>1, <1>2 DEF Choosable, Q

\* What was chosen stays chosen.
LEMMA ChosenStays ==
  ASSUME Basis, NEW H, History(H), NEW n \in Server, NEW s, Move(n, s), NEW K, K = Grow(H, s),
         NEW T \in Nat, NEW i, Chosen(H, T, i)
  PROVE  Chosen(K, T, i)'
  <1> DEFINE Q == {a \in Server : Acked(a, T, i)'}
             R == {a \in Server : Acked(a, T, i)}
  <1>1. ElectionInv /\ Wins(R) /\ Written(H, T, i)
    BY DEF Chosen, History
  <1>2. R \subseteq Q
    BY <1>1, AckedStays
  <1> HIDE DEF Q, R
  <1>3. Wins(Q)
    BY <1>1, <1>2, WinsUp
  <1>4. Written(K, T, i)
    BY <1>1, GrowWritten
  <1>5. QED
    BY <1>3, <1>4 DEF Chosen, Q, Written, Wins

\* What is covered stays covered.
LEMMA CoveredStays ==
  ASSUME Basis, NEW H, History(H), NEW n \in Server, NEW s, Move(n, s), NEW K, K = Grow(H, s),
         NEW T \in Nat, NEW V \in Nat, T =< V, NEW c \in Nat, NEW d \in Nat, c =< d, NEW L, NEW M,
         Covered(H, T, d, L), Len(L) \in Nat, Len(M) \in Nat, Same(M, L, c)
  PROVE  Covered(K, V, c, M)'
  <1>1. PICK U \in 0..T : \E i \in 1..Len(H[U]) : d =< i /\ Chosen(H, U, i) /\ Same(L, H[U], d)
    BY DEF Covered
  <1>2. PICK i \in 1..Len(H[U]) : d =< i /\ Chosen(H, U, i) /\ Same(L, H[U], d)
    BY <1>1
  <1>3. U \in Nat /\ U \in 0..V /\ H[U] \in Seq(Entry) /\ K[U] \in Seq(Entry)
    <2>1. H \in [Nat -> Seq(Entry)] /\ K \in [Nat -> Seq(Entry)]
      BY GrowFacts, ZenonT(30)
    <2>2. QED
      BY <2>1
  <1>4. Chosen(K, U, i)' /\ i \in 1..Len(K[U])
    <2>1. Chosen(K, U, i)'
      BY <1>2, <1>3, ChosenStays
    <2>2. QED
      BY <2>1 DEF Chosen, Written
  <1>5. Same(L, K[U], d)
    BY <1>2, <1>3, GrowSame
  <1>6. Len(K[U]) \in Nat
    BY <1>3, SeqLen
  <1>7. Same(M, K[U], c)
    BY <1>5, <1>6, SameTrans
  <1>8. c =< i
    BY <1>2, <1>3
  <1>9. QED
    BY <1>3, <1>4, <1>7, <1>8 DEF Covered

----------------------------------------------------------------------------
(* The log of a node that does not lead, across a call.                    *)

\* The term check of maybeAppend, on a message of the term's leader.
LEMMA AppFits ==
  ASSUME NEW H, History(H), NEW n \in Server, NEW T \in Nat, NEW o \in msgs,
         o.type = "MsgApp", o.Term = T, o.Index >= rs[n].log.committed,
         MatchTerm(rs[n].log, o.Index, o.LogTerm)
  PROVE  /\ rs[n].log \in LogType /\ H[T] \in Seq(Entry) /\ Matching(rs[n].log, H[T])
         /\ o.Index \in Nat /\ o.Commit \in Nat /\ o.Entries \in Seq(Entry)
         /\ SliceOf(H[T], o.Index, o.Entries) /\ Same(rs[n].log.ents, H[T], o.Index)
  <1>1. ElectionInv /\ Leaders(H) /\ NodeLog(H, rs[n]) /\ MsgLog(H, o)
    BY DEF History, Ledger, NodeLogs, MsgLogs
  <1>2. rs[n].log \in LogType /\ o \in Message
    BY <1>1, NodeReady, NodeFields, ZenonT(30) DEF ElectionInv, TypeOK
  <1>3. o.Index \in Nat /\ o.Commit \in Nat /\ o.Entries \in Seq(Entry) /\ H[T] \in Seq(Entry)
    BY <1>1, <1>2, MessageData DEF Leaders
  <1>4. Matching(rs[n].log, H[T])
    BY <1>1, <1>2, LeadersMatch DEF NodeLog
  <1>5. rs[n].log.committed \in Nat /\ rs[n].log.committed > 0
    BY <1>2, LogFields, Zenon
  <1>6. SliceOf(H[T], o.Index, o.Entries) /\ o.LogTerm = H[T][o.Index].Term
    BY <1>1, <1>3, <1>5 DEF MsgLog
  <1>7. o.Index \in 1..Len(H[T])
    BY <1>3, <1>5, <1>6, SeqLen DEF SliceOf
  <1>8. Same(rs[n].log.ents, H[T], o.Index)
    BY <1>2, <1>3, <1>4, <1>6, <1>7, MatchTermSame, Zenon
  <1>9. QED
    BY <1>2, <1>3, <1>4, <1>6, <1>8, Zenon

\* Entries are merged as the leader has them.
LEMMA MergesFollow ==
  ASSUME Basis, NEW H, History(H), NEW n \in Server, NEW s, Move(n, s),
         NEW o \in msgs, Merges(rs[n], s, o)
  PROVE  LET i == o.Index + Len(o.Entries)
         IN  /\ i \in Nat /\ i =< Len(H[s.Term])
             /\ Follows(rs[n].log, s.log, H[s.Term], i)
             /\ s.log.committed = rs[n].log.committed \/ s.log.committed =< o.Commit
  <1> DEFINE l == rs[n].log
             M == H[s.Term]
             t == s.log
             index == o.Index
             e == o.Entries
             c == o.Commit
  <1>1. ElectionInv
    BY DEF History
  <1>2. s.Term \in Nat
    BY <1>1, MoveEffect
  <1>3. /\ o.type = "MsgApp" /\ o.Term = s.Term /\ o.Index >= l.committed
        /\ MatchTerm(l, o.Index, o.LogTerm) /\ t = MaybeAppend(l, o.Index, o.Commit, o.Entries)
    BY Zenon DEF Merges, Heard
  <1>4. /\ l \in LogType /\ M \in Seq(Entry) /\ Matching(l, M)
        /\ o.Index \in Nat /\ o.Commit \in Nat /\ o.Entries \in Seq(Entry)
        /\ SliceOf(M, o.Index, o.Entries) /\ Same(l.ents, M, o.Index)
    BY <1>2, <1>3, AppFits
  <1> HIDE DEF l, M, t, index, e, c
  <1>5. /\ l \in LogType /\ M \in Seq(Entry) /\ Matching(l, M)
        /\ index \in Nat /\ c \in Nat /\ e \in Seq(Entry) /\ index >= l.committed
        /\ SliceOf(M, index, e) /\ Same(l.ents, M, index) /\ t = MaybeAppend(l, index, c, e)
    BY <1>3, <1>4, Zenon DEF index, e, c
  <1>6. /\ Same(t.ents, M, index + Len(e))
        /\ t.ents = l.ents \/ Len(t.ents) = index + Len(e)
        /\ \A i \in Nat : Same(l.ents, M, i) => Same(t.ents, M, i)
        /\ t.committed >= l.committed
        /\ t.committed = l.committed \/ (t.committed =< c /\ t.committed =< index + Len(e))
    BY <1>5, MaybeAppendSame
  <1>7. index + Len(e) \in Nat /\ index + Len(e) =< Len(M)
    BY <1>5, SeqLen DEF SliceOf
  <1>8. QED
    BY <1>6, <1>7 DEF Follows, l, M, t, index, e, c

\* What is covered is covered below.
LEMMA CoveredBelow ==
  ASSUME NEW H \in [Nat -> Seq(Entry)], NEW T \in Nat, NEW L, Len(L) \in Nat, NEW d \in Nat,
         NEW c \in Nat, c =< d, Covered(H, T, d, L)
  PROVE  Covered(H, T, c, L)
  <1>1. PICK U \in 0..T : \E i \in 1..Len(H[U]) : d =< i /\ Chosen(H, U, i) /\ Same(L, H[U], d)
    BY DEF Covered
  <1>2. PICK i \in 1..Len(H[U]) : d =< i /\ Chosen(H, U, i) /\ Same(L, H[U], d)
    BY <1>1
  <1>3. H[U] \in Seq(Entry) /\ Len(H[U]) \in Nat
    BY SeqLen
  <1>4. Same(L, H[U], c)
    <2> DEFINE N == H[U]
    <2>1. Len(N) \in Nat /\ Same(L, N, d)
      BY <1>2, <1>3
    <2> HIDE DEF N
    <2>2. Same(L, N, c)
      BY <2>1, SameBelow
    <2>3. QED
      BY <2>2 DEF N
  <1>5. c =< i
    BY <1>2, <1>3
  <1>6. QED
    BY <1>2, <1>4, <1>5 DEF Covered

\* What is covered by the log of the leader of a term is covered.
LEMMA CoveredLeader ==
  ASSUME Basis, NEW H, History(H), NEW T \in Nat, NEW L, Len(L) \in Nat, NEW c \in Nat,
         Covered(H, T, c, L), H[T] # <<>>
  PROVE  Same(L, H[T], c)
  <1>1. PICK U \in 0..T : \E i \in 1..Len(H[U]) : c =< i /\ Chosen(H, U, i) /\ Same(L, H[U], c)
    BY DEF Covered
  <1>2. PICK i \in 1..Len(H[U]) : c =< i /\ Chosen(H, U, i) /\ Same(L, H[U], c)
    BY <1>1
  <1>3. Written(H, U, i) /\ Choosable(U, i)
    BY <1>2, ChosenChoosable
  <1>4. H \in [Nat -> Seq(Entry)]
    BY DEF History, Ledger, Leaders
  <1>5. U \in Nat /\ U =< T /\ Len(H[U]) \in Nat /\ Len(H[T]) \in Nat
    BY <1>4, SeqLen
  <1>6. CASE U = T
    BY <1>2, <1>6
  <1>7. CASE U # T
    <2>1. U < T
      BY <1>5, <1>7
    <2>2. Same(H[T], H[U], i) /\ i \in Nat
      BY <1>3, <1>5, <2>1 DEF History, LaterLeaders
    <2>3. Same(H[U], H[T], i)
      BY <2>2, SameFlip
    <2>4. QED
      BY <1>2, <1>5, <2>2, <2>3, SameTrans
  <1>8. QED
    BY <1>6, <1>7

\* A heartbeat commits what the node has acknowledged.
LEMMA BeatsFollow ==
  ASSUME NEW H, History(H), NEW n \in Server, NEW s, Move(n, s), NEW o \in msgs, Beats(rs[n], s, o)
  PROVE  /\ o.Commit \in Nat /\ Follows(rs[n].log, s.log, H[s.Term], o.Commit)
         /\ Covered(H, s.Term, o.Commit, H[s.Term])
  <1> DEFINE l == rs[n].log
             M == H[s.Term]
             t == s.log
  <1>1. ElectionInv /\ AckLogs(H) /\ Leaders(H)
    BY ZenonT(30) DEF History, Ledger
  <1>2. /\ s.Term \in Nat /\ s.Term >= rs[n].Term /\ rs[n].Term \in Nat /\ o \in Message /\ s.id = n
        /\ l \in LogType
    BY <1>1, MoveEffect
  <1>3. o.type = "MsgHeartbeat" /\ o.Term = s.Term /\ o.to = n /\ t = CommitTo(l, o.Commit)
    BY <1>2 DEF Beats, Heard
  <1>4. o.Commit \in Nat /\ M \in Seq(Entry) /\ Len(M) \in Nat /\ Len(l.ents) \in Nat
    <2>1. o.Commit \in Nat
      BY <1>2, <1>3, MessageData
    <2>2. M \in Seq(Entry)
      BY <1>1, <1>2 DEF Leaders
    <2> HIDE DEF M
    <2>3. QED
      BY <1>2, <2>1, <2>2, LogFields, SeqLen
  <1>5. /\ Covered(H, s.Term, o.Commit, M)
        /\ \/ o.Commit = 0
           \/ \E x \in msgs : IsAck(x) /\ x.from = n /\ x.Term = s.Term /\ x.Index >= o.Commit
    BY <1>3, ZenonT(30) DEF History, CommitsChosen
  <1>6. Same(l.ents, M, o.Commit)
    <2>1. CASE o.Commit = 0
      BY <1>4, <2>1 DEF Same
    <2>2. ASSUME NEW x \in msgs, IsAck(x), x.from = n, x.Term = s.Term, x.Index >= o.Commit
          PROVE  Same(l.ents, M, o.Commit)
      <3>1. x \in Message
        BY <1>1, MoveEffect
      <3>2. x.Index \in Nat
        BY <2>2, <3>1, MessageData
      <3>3. rs[n].Term >= x.Term /\ (rs[n].Term = x.Term => Same(rs[n].log.ents, H[x.Term], x.Index))
        BY <1>1, <2>2 DEF AckLogs
      <3>4. Same(l.ents, M, x.Index)
        BY <1>2, <2>2, <3>3
      <3> HIDE DEF l, M
      <3>5. QED
        BY <1>4, <2>2, <3>2, <3>4, SameBelow, Zenon
    <2>3. QED
      BY <1>5, <2>1, <2>2, ZenonT(30)
  <1> HIDE DEF l, M, t
  <1>7. /\ t.ents = l.ents /\ t.committed >= l.committed
        /\ t.committed = l.committed \/ t.committed = o.Commit
    BY <1>2, <1>3, <1>4, CommitToFields
  <1>8. Follows(l, t, M, o.Commit)
    BY <1>4, <1>6, <1>7 DEF Follows
  <1>9. QED
    BY <1>4, <1>5, <1>8 DEF l, M, t

\* A snapshot is installed as the leader has it.
LEMMA InstallsFollow ==
  ASSUME NEW H, History(H), NEW n \in Server, NEW s, Move(n, s), NEW o \in msgs, Installs(rs[n], s, o)
  PROVE  /\ s.log.committed \in Nat /\ Follows(rs[n].log, s.log, H[s.Term], s.log.committed)
         /\ Covered(H, s.Term, s.log.committed, H[s.Term])
  <1> DEFINE l == rs[n].log
             M == H[s.Term]
             t == s.log
             sn == o.Snapshot
  <1>1. ElectionInv /\ Leaders(H) /\ MsgLog(H, o) /\ NodeLog(H, rs[n])
    BY ZenonT(30) DEF History, Ledger, MsgLogs, NodeLogs
  <1>2. s.Term \in Nat /\ o \in Message /\ l \in LogType
    BY <1>1, MoveEffect, ZenonT(30)
  <1>3. /\ o.type = "MsgSnap" /\ o.Term = s.Term /\ Len(sn) > l.committed
        /\ t = IF MatchTerm(l, Len(sn), sn[Len(sn)].Term) THEN CommitTo(l, Len(sn)) ELSE LogRestore(l, sn)
    BY Zenon DEF Installs, Heard
  <1>4. sn \in Seq(Entry) /\ M \in Seq(Entry)
    BY <1>1, <1>2, <1>3, MessageData DEF Leaders
  <1>5. Same(sn, M, Len(sn)) /\ Matching(l, M)
    BY <1>1, <1>2, <1>3, LeadersMatch, ZenonT(30) DEF MsgLog, NodeLog
  <1>6. Covered(H, s.Term, Len(sn), M)
    BY <1>3, Zenon DEF History, CommitsChosen
  <1> HIDE DEF l, M, t, sn
  <1>7. Follows(l, t, M, Len(sn)) /\ t.committed = Len(sn)
    BY <1>2, <1>3, <1>4, <1>5, InstallSame
  <1>8. Len(sn) \in Nat
    BY <1>4, SeqLen
  <1>9. QED
    BY <1>6, <1>7, <1>8 DEF l, M, t

\* So a node that does not lead keeps its log, or follows the leader of its term.
HasFollowed(H, n, s) ==
  /\ H[s.Term] # <<>>
  /\ \E i \in Nat : Follows(rs[n].log, s.log, H[s.Term], i)
  /\ \/ s.log.committed = rs[n].log.committed
     \/ Covered(H, s.Term, s.log.committed, H[s.Term])

\* A call that leaves a node other than a leader keeps its log, or has taken
\* it from a message of the leader of the term, so that it follows the
\* ledger.
LEMMA FollowerLog ==
  ASSUME Basis, NEW H, History(H), NEW n \in Server, NEW s, Move(n, s), s.state # StateLeader
  PROVE  Kept(rs[n], s) \/ (s.state = StateFollower /\ HasFollowed(H, n, s))
  <1>1. ElectionInv /\ LogFair(rs[n], s, msgs) /\ H \in [Nat -> Seq(Entry)]
    BY ZenonT(30) DEF Move, Replicates, History, Ledger, Leaders
  <1>2. s.Term \in Nat /\ s.log \in LogType
    BY <1>1, MoveEffect, Zenon
  <1>3. Len(H[s.Term]) \in Nat /\ s.log.committed \in Nat
    BY <1>1, <1>2, LogFields, SeqLen, Zenon
  <1>4. ASSUME NEW o \in msgs, Heard(s, o)
        PROVE  H[s.Term] # <<>>
    <2>1. MsgLog(H, o)
      BY DEF History, MsgLogs
    <2>2. QED
      BY <1>4, <2>1 DEF MsgLog, Heard
  <1>5. ASSUME NEW o \in msgs, Merges(rs[n], s, o)
        PROVE  HasFollowed(H, n, s)
    <2>1. /\ o.Index + Len(o.Entries) \in Nat
          /\ Follows(rs[n].log, s.log, H[s.Term], o.Index + Len(o.Entries))
          /\ s.log.committed = rs[n].log.committed \/ s.log.committed =< o.Commit
      BY <1>5, MergesFollow
    <2>2. o.type = "MsgApp" /\ o.Term = s.Term /\ Heard(s, o) /\ o \in Message
      BY <1>1, <1>5, MoveEffect, ZenonT(30) DEF Merges, Heard
    <2>3. o.Commit \in Nat
      BY <2>2, MessageData, Zenon
    <2>4. Covered(H, s.Term, o.Commit, H[s.Term]) /\ o.Commit \in Nat
      BY <2>2, <2>3, ZenonT(30) DEF History, CommitsChosen
    <2>5. s.log.committed =< o.Commit => Covered(H, s.Term, s.log.committed, H[s.Term])
      BY <1>1, <1>2, <1>3, <2>4, CoveredBelow, ZenonT(30)
    <2>6. QED
      BY <1>4, <2>1, <2>2, <2>5, Zenon DEF HasFollowed
  <1>6. ASSUME NEW o \in msgs, Beats(rs[n], s, o)
        PROVE  HasFollowed(H, n, s)
    <2>1. /\ o.Commit \in Nat /\ Follows(rs[n].log, s.log, H[s.Term], o.Commit)
          /\ Covered(H, s.Term, o.Commit, H[s.Term])
      BY <1>6, BeatsFollow, ZenonT(30)
    <2>2. s.log.committed =< o.Commit => Covered(H, s.Term, s.log.committed, H[s.Term])
      BY <1>1, <1>2, <1>3, <2>1, CoveredBelow, ZenonT(30)
    <2>3. s.log.committed = rs[n].log.committed \/ s.log.committed =< o.Commit
      BY <2>1 DEF Follows
    <2>4. QED
      BY <1>4, <1>6, <2>1, <2>2, <2>3, Zenon DEF HasFollowed, Beats
  <1>7. ASSUME NEW o \in msgs, Installs(rs[n], s, o)
        PROVE  HasFollowed(H, n, s)
    <2>1. Heard(s, o)
      BY <1>7, ZenonT(30) DEF Installs
    <2>2. QED
      BY <1>4, <1>7, <2>1, InstallsFollow, ZenonT(30) DEF HasFollowed
  <1>8. QED
    BY <1>1, <1>5, <1>6, <1>7, ZenonT(30) DEF LogFair

\* A log keeps what the leader of its term has too.
LEMMA LogKeeps ==
  ASSUME Basis, NEW H, History(H), NEW n \in Server, NEW s, Move(n, s),
         NEW X, Len(X) \in Nat, NEW i \in Nat, Same(rs[n].log.ents, X, i),
         s.state # StateLeader /\ H[s.Term] # <<>> => Same(H[s.Term], X, i)
  PROVE  Same(s.log.ents, X, i)
  <1> DEFINE L == rs[n].log.ents
             N == s.log.ents
             M == H[s.Term]
  <1>1. ElectionInv /\ H \in [Nat -> Seq(Entry)]
    BY DEF History, Ledger, Leaders
  <1>2. s.Term \in Nat /\ rs[n].log \in LogType /\ s.log \in LogType
    BY <1>1, MoveEffect
  <1>3. M \in Seq(Entry) /\ L \in Seq(Entry) /\ N \in Seq(Entry)
    BY <1>1, <1>2, LogFields, ZenonT(30)
  <1>4. CASE s.state = StateLeader
    <2>1. Same(N, L, Len(L))
      BY <1>4, LeaderAppends
    <2> HIDE DEF L, N, M
    <2>2. Len(L) \in Nat /\ Len(N) \in Nat /\ Same(L, X, i)
      BY <1>3, SeqLen DEF L
    <2>3. Same(N, X, i)
      BY <2>1, <2>2 DEF Same
    <2>4. QED
      BY <2>3 DEF N
  <1>5. CASE s.state # StateLeader /\ HasFollowed(H, n, s)
    <2>1. PICK j \in Nat : Follows(rs[n].log, s.log, M, j)
      BY <1>5 DEF HasFollowed
    <2>2. Same(L, M, i) => Same(N, M, i)
      BY <2>1 DEF Follows
    <2>3. Same(M, X, i) /\ Same(L, X, i)
      BY <1>5 DEF HasFollowed
    <2> HIDE DEF L, N, M
    <2>4. Len(L) \in Nat /\ Len(N) \in Nat /\ Len(M) \in Nat
      BY <1>3, SeqLen
    <2>5. Same(L, M, i)
      BY <2>3, <2>4 DEF Same
    <2>6. Same(N, X, i)
      BY <2>2, <2>3, <2>4, <2>5 DEF Same
    <2>7. QED
      BY <2>6 DEF N
  <1>6. CASE Kept(rs[n], s)
    BY <1>6 DEF Kept
  <1>7. QED
    BY <1>4, <1>5, <1>6, FollowerLog

----------------------------------------------------------------------------
(* A call preserves the invariant, one conjunct after the other.           *)

\* The log of the node that is called.
LEMMA OwnLogNext ==
  ASSUME Basis, NEW H, History(H), NEW n \in Server, NEW s, Move(n, s), NEW K, K = Grow(H, s)
  PROVE  Coherent(K, s.log.ents) /\ TermsUpTo(s.log.ents, s.Term)
  <1> DEFINE L == rs[n].log.ents
             N == s.log.ents
             M == H[s.Term]
  <1>1. ElectionInv /\ Leaders(H) /\ NodeLog(H, rs[n]) /\ H \in [Nat -> Seq(Entry)]
    BY DEF History, Ledger, NodeLogs, Leaders
  <1>2. /\ s.Term \in Nat /\ rs[n].log \in LogType /\ s.log \in LogType
        /\ rs[n].Term \in Nat /\ s.Term >= rs[n].Term
    BY <1>1, MoveEffect, ZenonT(30)
  <1>3. M \in Seq(Entry) /\ L \in Seq(Entry) /\ N \in Seq(Entry)
    BY <1>1, <1>2, LogFields, ZenonT(30)
  <1>4. Coherent(H, L) /\ TermsUpTo(L, s.Term)
    <2>1. Coherent(H, L) /\ TermsUpTo(L, rs[n].Term)
      BY <1>1 DEF NodeLog
    <2>2. \A j \in 1..Len(L) : L[j].Term \in Nat
      BY <1>3, EntryTerm
    <2> HIDE DEF L
    <2>3. QED
      BY <1>2, <2>1, <2>2 DEF TermsUpTo
  <1>5. Coherent(K, L)
    BY <1>3, <1>4, GrowCoherent
  <1>6. CASE s.state = StateLeader
    <2>1. /\ Same(N, L, Len(L)) /\ K[s.Term] = N
          /\ \A i \in 1..Len(N) : i =< Len(L) \/ N[i].Term = s.Term
      BY <1>6, LeaderAppends, GrowFacts
    <2> HIDE DEF L, N
    <2>2. ASSUME NEW j \in 1..Len(N)
          PROVE  Same(N, K[N[j].Term], j) /\ N[j].Term =< s.Term
      <3>1. CASE j =< Len(L)
        <4>1. j \in 1..Len(L) /\ N[j] = L[j] /\ Same(N, L, j)
          BY <1>3, <2>1, <3>1 DEF Same
        <4>2. Same(L, K[L[j].Term], j) /\ L[j].Term =< s.Term
          BY <1>4, <1>5, <4>1 DEF Coherent, TermsUpTo
        <4>3. QED
          BY <4>1, <4>2 DEF Same
      <3>2. CASE N[j].Term = s.Term
        BY <1>2, <1>3, <2>1, <3>2 DEF Same
      <3>3. QED
        BY <2>1, <3>1, <3>2
    <2>3. QED
      BY <2>2, Zenon DEF Coherent, TermsUpTo, N
  <1>7. CASE s.state # StateLeader /\ HasFollowed(H, n, s)
    <2>1. PICK j \in Nat : Follows(rs[n].log, s.log, M, j)
      BY <1>7 DEF HasFollowed
    <2>2. N = L \/ Same(N, M, Len(N))
      BY <2>1 DEF Follows
    <2>3. Coherent(H, M) /\ TermsUpTo(M, s.Term)
      BY <1>1, <1>2 DEF Leaders
    <2> HIDE DEF L, N, M
    <2>4. Same(N, M, Len(N)) => Coherent(H, N) /\ TermsUpTo(N, s.Term)
      BY <1>1, <1>2, <1>3, <2>3, CoherentPrefix, ZenonT(30)
    <2>5. Coherent(H, N) /\ TermsUpTo(N, s.Term)
      BY <1>4, <2>2, <2>4
    <2>6. Coherent(K, N)
      BY <1>3, <2>5, GrowCoherent
    <2>7. QED
      BY <2>5, <2>6 DEF N
  <1>8. CASE Kept(rs[n], s)
    BY <1>4, <1>5, <1>8 DEF Kept
  <1>9. QED
    BY <1>6, <1>7, <1>8, FollowerLog

\* A call keeps every log coherent with the ledger, and the log of a leader
\* the row of its term.
LEMMA NodeLogsNext ==
  ASSUME Basis, NEW H, History(H), NEW n \in Server, NEW s, Move(n, s), NEW K, K = Grow(H, s)
  PROVE  NodeLogs(K)'
  <1>1. /\ ElectionInv /\ ElectionInv' /\ NodeLogs(H) /\ RolesFair(rs[n], s) /\ MatchFair(rs[n], s, msgs)
    BY ZenonT(30) DEF History, Move, Replicates
  <1>2. /\ s.Term \in Nat /\ rs[n].Term \in Nat /\ s.Term >= rs[n].Term
        /\ rs'[n].Term = s.Term /\ rs'[n].state = s.state /\ rs'[n].log = s.log /\ rs'[n].prs = s.prs
        /\ rs'[n].id = s.id
    BY <1>1, MoveEffect
  <1>3. NodeLog(K, s)
    <2>1. Coherent(K, s.log.ents) /\ TermsUpTo(s.log.ents, s.Term)
      BY OwnLogNext
    <2>2. NodeLog(H, rs[n])
      BY <1>1 DEF NodeLogs
    <2>3. rs[n].Term >= 1 /\ (rs[n].state \in {StateLeader, StateCandidate} => rs[n].Term > 1)
      BY <2>2, Zenon DEF NodeLog
    <2>4. s.state \in {StateLeader, StateCandidate} => s.Term > 1
      BY <1>1, <1>2, <2>3 DEF RolesFair
    <2>5. s.state = StateLeader => s.log.ents = K[s.Term] /\ AllWithin(s)
      <3>1. s.state = StateLeader => s.log.ents = K[s.Term]
        BY GrowFacts
      <3>2. QED
        BY <1>1, <3>1 DEF MatchFair
    <2>6. QED
      BY <1>2, <2>1, <2>3, <2>4, <2>5 DEF NodeLog
  <1>4. ASSUME NEW p \in Server, p # n
        PROVE  NodeLog(K, rs[p])
    <2>1. NodeLog(H, rs[p])
      BY <1>1 DEF NodeLogs
    <2>2. rs[p].log.ents \in Seq(Entry) /\ rs[p].Term \in Nat
      BY <1>1, MoveEffect, LogFields, ZenonT(30)
    <2>3. Coherent(K, rs[p].log.ents)
      BY <2>1, <2>2, GrowCoherent, ZenonT(30) DEF NodeLog
    <2>4. ASSUME rs[p].state = StateLeader
          PROVE  K[rs[p].Term] = H[rs[p].Term]
      <3>1. Elected(p, rs[p].Term)
        BY <1>1, <2>4, ZenonT(30) DEF ElectionInv, RolesEarned
      <3>2. PICK t \in Nat : t = rs[p].Term
        BY <2>2
      <3>3. Elected(p, t)'
        BY <1>1, <3>1, <3>2, ElectedStable, ZenonT(30) DEF Move
      <3>4. s.state = StateLeader => s.Term # t
        <4>1. SUFFICES ASSUME s.state = StateLeader, s.Term = t
                       PROVE  FALSE
          OBVIOUS
        <4>2. Elected(n, t)'
          BY <4>1, NewLeader
        <4>3. QED
          BY <1>1, <1>4, <3>3, <4>2, ElectionFactsNext DEF OneElected
      <3>5. H \in [Nat -> Seq(Entry)]
        BY DEF History, Ledger, Leaders
      <3>6. QED
        BY <3>2, <3>4, <3>5 DEF Grow
    <2>5. QED
      BY <2>1, <2>3, <2>4, ZenonT(30) DEF NodeLog
  <1>5. NodeLog(K, rs'[n])
    BY <1>2, <1>3, ZenonT(30) DEF NodeLog, AllWithin
  <1>6. \A p \in Server : NodeLog(K, rs'[p])
    BY <1>1, <1>4, <1>5, MoveEffect
  <1>7. QED
    BY <1>6 DEF NodeLogs

\* A call keeps the ledger: what a leader appends is added to the row of its
\* term, and a new leader opens a row.
LEMMA LedgerNext ==
  ASSUME Basis, NEW H, History(H), NEW n \in Server, NEW s, Move(n, s), NEW K, K = Grow(H, s)
  PROVE  Ledger(K)'
  <1>1. ElectionInv /\ ElectionInv' /\ Ledger(H) /\ Leaders(H) /\ RolesFair(rs[n], s)
    BY ZenonT(30) DEF History, Ledger, Move, Replicates
  <1>2. H \in [Nat -> Seq(Entry)] /\ K \in [Nat -> Seq(Entry)] /\ H[0] = <<>>
    BY <1>1, GrowFacts, ZenonT(30) DEF Leaders
  <1>3. /\ s.Term \in Nat /\ rs[n].Term \in Nat /\ s.Term >= rs[n].Term
        /\ rs'[n].Term = s.Term /\ rs'[n].state = s.state
    BY <1>1, MoveEffect
  <1>4. ASSUME NEW T \in Nat
        PROVE  \/ K[T] = H[T]
               \/ T = s.Term /\ s.state = StateLeader /\ K[T] = s.log.ents
    BY <1>2 DEF Grow
  <1>5. K[0] = <<>>
    <2>1. s.state = StateLeader => s.Term # 0
      BY NewLeader
    <2>2. QED
      BY <1>2, <1>4, <2>1, ZenonT(30)
  <1>6. ASSUME NEW T \in Nat
        PROVE  Coherent(K, K[T]) /\ TermsUpTo(K[T], T)
    <2>1. Coherent(H, H[T]) /\ TermsUpTo(H[T], T) /\ H[T] \in Seq(Entry)
      BY <1>1, <1>2, Zenon DEF Leaders
    <2>2. Coherent(K, H[T])
      BY <2>1, GrowCoherent
    <2>3. Coherent(K, s.log.ents) /\ TermsUpTo(s.log.ents, s.Term)
      BY OwnLogNext
    <2>4. QED
      BY <1>4, <2>1, <2>2, <2>3
  <1>7. Leaders(K)
    BY <1>2, <1>5, <1>6, Zenon DEF Leaders
  <1>8. ASSUME NEW T \in Nat, T > 1, K[T] # <<>>
        PROVE  \E q \in Server : Elected(q, T)' /\ Past(q, T)'
    <2>1. CASE T = s.Term /\ s.state = StateLeader
      <3>1. Elected(n, T)'
        BY <2>1, NewLeader
      <3>2. Past(n, T)'
        BY <1>3, <2>1 DEF Past, StateLeader, StateCandidate
      <3>3. QED
        BY <3>1, <3>2
    <2>2. CASE K[T] = H[T]
      <3>1. PICK q \in Server : Elected(q, T) /\ Past(q, T)
        BY <1>1, <1>8, <2>2 DEF Ledger
      <3>2. Elected(q, T)'
        BY <1>1, <3>1, ElectedStable DEF Move
      <3>3. Past(q, T)'
        <4>1. CASE q # n
          <5>1. rs'[q] = rs[q]
            BY <1>1, <4>1, MoveEffect
          <5>2. QED
            BY <3>1, <5>1, Zenon DEF Past
        <4>2. CASE q = n
          <5>1. rs[n].Term > T \/ (rs[n].Term = T /\ rs[n].state # StateCandidate)
            BY <3>1, <4>2, Zenon DEF Past
          <5>2. s.Term > T \/ (s.Term = T /\ s.state # StateCandidate)
            BY <1>1, <1>3, <5>1 DEF RolesFair
          <5>3. QED
            BY <1>3, <4>2, <5>2 DEF Past
        <4>3. QED
          BY <4>1, <4>2
      <3>4. QED
        BY <3>2, <3>3
    <2>3. QED
      BY <1>4, <2>1, <2>2
  <1>9. QED
    BY <1>7, <1>8, Zenon DEF Ledger

\* entries hands out a part of the log.
LEMMA EntriesSlice ==
  ASSUME NEW l \in LogType, NEW i \in Nat, i =< LastIndex(l)
  PROVE  SliceOf(l.ents, i, Entries(l, i + 1))
  <1> DEFINE L == l.ents
             k == i + 1
             j == MinOf(k + MaxSizePerMsg - 1, LastIndex(l))
             e == Entries(l, k)
  <1>1. L \in Seq(Entry) /\ Len(L) \in Nat /\ LastIndex(l) = Len(L) /\ k \in Nat \ {0} /\ k \in Nat
    BY LogFields
  <1>2. CASE k > Len(L)
    <2>1. e = <<>>
      BY <1>1, <1>2 DEF Entries
    <2>2. Len(e) = 0
      BY <2>1
    <2> HIDE DEF e
    <2>3. QED
      BY <1>1, <2>2 DEF SliceOf, e, k
  <1>3. CASE ~(k > Len(L))
    <2>1. e = SubSeq(L, k, j)
      BY <1>1, <1>3, Zenon DEF Entries
    <2>2. j \in 0..Len(L) /\ k =< j /\ j \in Nat
      BY <1>1, <1>3, MaxSizeAssumption DEF MinOf
    <2> HIDE DEF j
    <2>3. Len(e) = j - k + 1
      BY <1>1, <2>1, <2>2, SubSeqType
    <2>4. \A x \in 1..(j - k + 1) : SubSeq(L, k, j)[x] = L[k + x - 1]
      <3>1. k \in Int /\ j \in Int /\ \A x \in k..j : L[x] \in Entry
        BY <1>1, <2>2
      <3> HIDE DEF k, L
      <3>2. QED
        BY <3>1, SeqPart
    <2>5. ASSUME NEW x \in 1..Len(e)
          PROVE  e[x] = L[i + x]
      <3>1. k + x - 1 = i + x /\ x \in 1..(j - k + 1)
        BY <1>1, <2>2, <2>3
      <3>2. QED
        BY <2>1, <2>4, <3>1, Zenon
    <2>6. i + Len(e) =< Len(L)
      BY <1>1, <2>2, <2>3
    <2>7. QED
      BY <2>5, <2>6 DEF SliceOf
  <1>4. QED
    BY <1>2, <1>3

\* What the messages of a call say of logs is in the ledger.
LEMMA MsgLogsNext ==
  ASSUME Basis, NEW H, History(H), NEW n \in Server, NEW s, Move(n, s), NEW K, K = Grow(H, s)
  PROVE  MsgLogs(K)'
  <1>1. ElectionInv /\ MsgLogs(H) /\ H \in [Nat -> Seq(Entry)] /\ K \in [Nat -> Seq(Entry)]
    BY GrowFacts DEF History
  <1>2. s.id = n /\ s.Term \in Nat /\ s.log \in LogType
    BY <1>1, MoveEffect
  <1>3. ASSUME NEW m \in msgs
        PROVE  MsgLog(K, m)
    <2> DEFINE A == H[m.Term]
               B == K[m.Term]
    <2>1. m \in Message /\ MsgLog(H, m)
      BY <1>1, MoveEffect, ZenonT(30) DEF MsgLogs
    <2>2. m.Term \in Nat
      BY <2>1, MessageData
    <2>3. A \in Seq(Entry) /\ B \in Seq(Entry) /\ Same(B, A, Len(A))
      BY <1>1, <2>2, GrowFacts, ZenonT(30)
    <2> DEFINE e == <<>>
    <2>4. Len(e) = 0 /\ e = <<>>
      OBVIOUS
    <2> HIDE DEF e, A, B
    <2>5. Len(A) \in Nat /\ Len(B) \in Nat
      BY <2>3, SeqLen
    <2>6. m.type \in LeaderMsgs => B # <<>>
      <3>1. m.type \in LeaderMsgs => A # e
        BY <2>1, <2>4 DEF MsgLog, A
      <3>2. A # e => Len(A) # 0
        BY <2>3, <2>4, SeqEmpty
      <3>3. Len(B) # 0 => B # e
        BY <2>4
      <3>4. QED
        BY <2>3, <2>4, <2>5, <3>1, <3>2, <3>3 DEF Same
    <2>7. ASSUME m.type = "MsgApp"
          PROVE  SliceOf(B, m.Index, m.Entries) /\ (m.Index > 0 => m.LogTerm = B[m.Index].Term)
      <3>1. m.Index \in Nat /\ m.Entries \in Seq(Entry) /\ Len(m.Entries) \in Nat
        BY <2>1, <2>7, MessageData, SeqLen, Zenon
      <3>2. SliceOf(A, m.Index, m.Entries) /\ (m.Index > 0 => m.LogTerm = A[m.Index].Term)
        BY <2>1, <2>7 DEF MsgLog, A
      <3> DEFINE E == m.Entries
                 j == m.Index
      <3> HIDE DEF E, j
      <3>3. SliceOf(B, j, E)
        <4>1. j \in Nat /\ Len(E) \in Nat /\ j + Len(E) =< Len(A) /\ j + Len(E) =< Len(B)
          BY <2>3, <2>5, <3>1, <3>2 DEF SliceOf, Same, E, j
        <4>2. ASSUME NEW k \in 1..Len(E)
              PROVE  E[k] = B[j + k]
          <5>1. E[k] = A[j + k]
            BY <3>2 DEF SliceOf, E, j
          <5>2. j + k \in 1..Len(A)
            BY <2>5, <4>1
          <5>3. QED
            BY <2>3, <5>1, <5>2 DEF Same
        <4>3. QED
          BY <4>1, <4>2 DEF SliceOf
      <3>4. m.Index > 0 => B[m.Index] = A[m.Index]
        <4>1. j > 0 => j \in 1..Len(A)
          BY <2>5, <3>1, <3>2 DEF SliceOf, E, j
        <4>2. QED
          BY <2>3, <4>1 DEF Same, j
      <3>5. QED
        BY <3>2, <3>3, <3>4, Zenon DEF E, j
    <2>8. ASSUME m.type = "MsgSnap"
          PROVE  Same(m.Snapshot, B, Len(m.Snapshot))
      <3>1. Len(m.Snapshot) \in Nat
        BY <2>1, <2>8, MessageData, SeqLen
      <3>2. Same(m.Snapshot, A, Len(m.Snapshot))
        BY <2>1, <2>8, Zenon DEF MsgLog, A
      <3>3. QED
        BY <2>3, <2>5, <3>1, <3>2 DEF Same
    <2>9. m.type \in LeaderMsgs \cup Responses => m.from # m.to
      BY <2>1 DEF MsgLog
    <2>10. QED
      BY <2>6, <2>7, <2>8, <2>9, ZenonT(30) DEF MsgLog, B
  <1>4. ASSUME NEW m \in msgs', m \notin msgs
        PROVE  MsgLog(K, m)
    <2>1. /\ m \in Message /\ SentFair(rs[n], s, msgs, m)
          /\ m.type \in LeaderMsgs => s.state = StateLeader /\ m.from = n /\ m.Term = s.Term
      BY <1>1, <1>4, MoveSends, ZenonT(30)
    <2>2. s.state = StateLeader => K[s.Term] = s.log.ents
      BY GrowFacts
    <2>3. m.type \in LeaderMsgs => Says(s, m)
      BY <2>1, Zenon DEF SentFair
    <2>4. m.type \in LeaderMsgs => Says(s, m) /\ m.Term = s.Term /\ m.from = n /\ K[m.Term] = s.log.ents
      BY <2>1, <2>2, <2>3
    <2>5. m.type \in LeaderMsgs \cup Responses => m.from # m.to
      BY <1>2, <2>1, <2>4, Zenon DEF SentFair, Says
    <2> DEFINE L == s.log.ents
    <2>6. L \in Seq(Entry) /\ Len(L) \in Nat /\ Len(L) > 0 /\ L # <<>>
      BY <1>2, LogFields
    <2>7. ASSUME m.type = "MsgApp"
          PROVE  SliceOf(L, m.Index, m.Entries) /\ (m.Index > 0 => m.LogTerm = L[m.Index].Term)
      <3>1. /\ s.log.offset =< m.Index /\ m.Index =< LastIndex(s.log) /\ m.Index \in Nat
            /\ m.LogTerm = TermAt(s.log, m.Index) /\ m.Entries = Entries(s.log, m.Index + 1)
        BY <2>4, <2>7, ZenonT(30) DEF Says, LeaderMsgs
      <3>2. SliceOf(L, m.Index, m.Entries)
        BY <1>2, <3>1, EntriesSlice, ZenonT(30)
      <3>3. m.Index > 0 => m.LogTerm = L[m.Index].Term
        BY <1>2, <3>1, LogFields DEF TermAt
      <3>4. QED
        BY <3>2, <3>3
    <2>8. ASSUME m.type = "MsgSnap"
          PROVE  Same(m.Snapshot, L, Len(m.Snapshot))
      <3>1. m.Snapshot = SubSeq(L, 1, s.log.offset) /\ s.log.offset \in 0..Len(L)
        <4>1. m.Snapshot = Snapshot(s.log)
          BY <2>4, <2>8 DEF Says, LeaderMsgs
        <4>2. s.log.offset \in 0..Len(L)
          BY <1>2, LogFields
        <4>3. QED
          BY <4>1, <4>2, Zenon DEF Snapshot
      <3> DEFINE o == s.log.offset
      <3>2. o \in 0..Len(L) /\ o \in Nat /\ m.Snapshot = SubSeq(L, 1, o)
        BY <2>6, <3>1
      <3> HIDE DEF L, o
      <3>3. Len(SubSeq(L, 1, o)) = o
        BY <2>6, <3>2, SubSeqType
      <3>4. \A k \in 1..o : SubSeq(L, 1, o)[k] = L[k]
        BY <2>6, <3>2
      <3>5. QED
        BY <2>6, <3>2, <3>3, <3>4 DEF Same
    <2> HIDE DEF L
    <2>9. m.type \in LeaderMsgs => K[m.Term] = L
      BY <2>4 DEF L
    <2>10. QED
      BY <2>5, <2>6, <2>7, <2>8, <2>9, ZenonT(30) DEF MsgLog, LeaderMsgs
  <1>5. QED
    BY <1>3, <1>4 DEF MsgLogs

\* A request for votes still tells the log of the candidate that sent it.
LEMMA AskedNext ==
  ASSUME NEW H, History(H), NEW n \in Server, NEW s, Move(n, s)
  PROVE  Asked'
  <1>1. ElectionInv /\ Asked /\ RolesFair(rs[n], s)
    BY ZenonT(30) DEF History, Move, Replicates
  <1>2. /\ s.id = n /\ s.Term \in Nat /\ rs[n].Term \in Nat /\ s.Term >= rs[n].Term
        /\ rs'[n].Term = s.Term /\ rs'[n].state = s.state /\ rs'[n].log = s.log
        /\ s.log \in LogType /\ rs[n].log \in LogType
    BY <1>1, MoveEffect
  <1>3. \A p \in Server : /\ rs[p].Term \in Nat /\ rs'[p].Term \in Nat /\ rs'[p].Term >= rs[p].Term
                          /\ p # n => rs'[p] = rs[p]
    BY <1>1, MoveEffect, Zenon
  <1>4. ASSUME NEW m \in msgs', m.type = "MsgVote"
        PROVE  /\ rs'[m.from].Term >= m.Term
               /\ rs'[m.from].Term = m.Term /\ rs'[m.from].state = StateCandidate =>
                    m.Index = LastIndex(rs'[m.from].log) /\ m.LogTerm = LastTerm(rs'[m.from].log)
    <2>1. CASE m \notin msgs
      <3>1. SentFair(rs[n], s, msgs, m)
        BY <1>1, <2>1, MoveSends
      <3>2. m.from = n /\ m.Term = s.Term /\ m.Index = LastIndex(s.log) /\ m.LogTerm = LastTerm(s.log)
        BY <1>2, <1>4, <3>1, ZenonT(30) DEF SentFair
      <3>3. QED
        BY <1>2, <3>2
    <2>2. CASE m \in msgs
      <3>1. /\ rs[m.from].Term >= m.Term
            /\ rs[m.from].Term = m.Term /\ rs[m.from].state = StateCandidate =>
                 m.Index = LastIndex(rs[m.from].log) /\ m.LogTerm = LastTerm(rs[m.from].log)
        BY <1>1, <1>4, <2>2 DEF Asked
      <3>2. m.from \in Server /\ m.Term \in Nat
        BY <1>1, <2>2, MoveEffect, MessageData, ZenonT(30)
      <3>3. CASE m.from # n
        BY <1>3, <3>1, <3>2, <3>3
      <3>4. CASE m.from = n
        <4>1. s.Term >= m.Term
          BY <1>2, <3>1, <3>2, <3>4
        <4>2. ASSUME s.Term = m.Term, s.state = StateCandidate
              PROVE  m.Index = LastIndex(s.log) /\ m.LogTerm = LastTerm(s.log)
          <5>1. rs[n].Term = m.Term
            BY <1>2, <3>1, <3>2, <3>4, <4>2
          <5>2. rs[n].state = StateCandidate /\ Kept(rs[n], s)
            BY <1>1, <1>2, <4>2, <5>1 DEF RolesFair
          <5>3. m.Index = LastIndex(rs[n].log) /\ m.LogTerm = LastTerm(rs[n].log)
            BY <3>1, <3>4, <5>1, <5>2
          <5>4. LastIndex(s.log) = LastIndex(rs[n].log) /\ LastTerm(s.log) = LastTerm(rs[n].log)
            BY <1>2, <5>2, LastTermIs DEF Kept
          <5>5. QED
            BY <5>3, <5>4
        <4>3. QED
          BY <1>2, <3>4, <4>1, <4>2, ZenonT(30)
      <3>5. QED
        BY <3>3, <3>4
    <2>3. QED
      BY <2>1, <2>2
  <1>5. ASSUME NEW m \in msgs', IsGrant(m)
        PROVE  rs'[m.to].Term >= m.Term
    <2>1. m.to \in Server /\ m.Term \in Nat
      BY <1>1, MoveEffect, MessageData
    <2>2. rs[m.to].Term >= m.Term
      <3>1. CASE m \in msgs
        BY <1>1, <1>5, <3>1 DEF Asked
      <3>2. CASE m \notin msgs
        <4>1. SentFair(rs[n], s, msgs, m)
          BY <1>1, <3>2, MoveSends
        <4>2. PICK v \in msgs : v.type = "MsgVote" /\ v.from = m.to /\ v.Term = m.Term
          BY <1>5, <4>1, ZenonT(30) DEF SentFair
        <4>3. QED
          BY <1>1, <4>2 DEF Asked
      <3>3. QED
        BY <3>1, <3>2
    <2>3. QED
      BY <1>3, <2>1, <2>2
  <1>6. QED
    BY <1>4, <1>5 DEF Asked, IsGrant

\* What a leader counts for a peer is still acknowledged by that peer.
LEMMA MatchAckedNext ==
  ASSUME NEW H, History(H), NEW n \in Server, NEW s, Move(n, s)
  PROVE  MatchAcked'
  <1>1. ElectionInv /\ MatchAcked /\ MatchFair(rs[n], s, msgs)
    BY Zenon DEF History, Move, Replicates
  <1>2. /\ s.id = n /\ rs'[n].Term = s.Term /\ rs'[n].state = s.state /\ rs'[n].prs = s.prs
        /\ rs'[n].id = n /\ s \in NodeType /\ msgs \subseteq msgs'
    BY <1>1, MoveEffect
  <1>3. ASSUME NEW l \in Server, NEW p \in Server, l # n, rs'[l].state = StateLeader, p # l
        PROVE  \/ rs'[l].prs[p].Match = 0
               \/ \E o \in msgs' : IsAck(o) /\ o.from = p /\ o.Term = rs'[l].Term /\ o.Index >= rs'[l].prs[p].Match
    <2>1. rs'[l] = rs[l]
      BY <1>1, <1>3, MoveEffect, ZenonT(30)
    <2>2. QED
      BY <1>1, <1>2, <1>3, <2>1 DEF MatchAcked
  <1>4. ASSUME NEW p \in Server, s.state = StateLeader, p # n
        PROVE  \/ s.prs[p].Match = 0
               \/ \E o \in msgs' : IsAck(o) /\ o.from = p /\ o.Term = s.Term /\ o.Index >= s.prs[p].Match
    <2>1. s.prs[p].Match \in Nat
      BY <1>2, NodeFields, ProgressFields, ZenonT(30)
    <2>2. CASE LedBefore(rs[n], s) /\ s.prs[p].Match = rs[n].prs[p].Match
      BY <1>1, <1>2, <1>4, <2>2 DEF MatchAcked, LedBefore
    <2>3. CASE \E o \in msgs : IsAck(o) /\ o.from = p /\ o.Term = s.Term /\ o.Index = s.prs[p].Match
      BY <1>2, <2>1, <2>3
    <2>4. QED
      BY <1>1, <1>2, <1>4, <2>2, <2>3, ZenonT(30) DEF MatchFair
  <1>5. QED
    BY <1>2, <1>3, <1>4 DEF MatchAcked, IsAck
=============================================================================
