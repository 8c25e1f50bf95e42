----------------------------- MODULE LogProofs -----------------------------
(***************************************************************************)
(* What the components of an instance and of a message consist of, the     *)
(* facts about sequences that the logs need, and when logs agree with each *)
(* other and with those of the leaders.                                    *)
(***************************************************************************)
EXTENDS Contract, TLAPS

----------------------------------------------------------------------------
(* Sequences.                                                              *)

\* The length and the members of a sequence.
LEMMA SeqLen ==
  ASSUME NEW S, NEW s \in Seq(S)
  PROVE  Len(s) \in Nat /\ DOMAIN s = 1..Len(s) /\ s \in [1..Len(s) -> S]
  OBVIOUS

\* The empty sequence is the only one of length zero.
LEMMA SeqEmpty ==
  ASSUME NEW S
  PROVE  <<>> \in Seq(S) /\ Len(<<>>) = 0 /\ \A s \in Seq(S) : s # <<>> => Len(s) \in Nat \ {0}
  OBVIOUS

\* A part of a sequence.
LEMMA SeqPart ==
  ASSUME NEW S, NEW s, NEW i \in Int, NEW j \in Int, \A k \in i..j : s[k] \in S
  PROVE  /\ SubSeq(s, i, j) \in Seq(S)
         /\ Len(SubSeq(s, i, j)) = IF i =< j THEN j - i + 1 ELSE 0
         /\ \A k \in 1..(j - i + 1) : SubSeq(s, i, j)[k] = s[i + k - 1]
  OBVIOUS

\* Two sequences in a row.
LEMMA SeqConcat ==
  ASSUME NEW S, NEW s \in Seq(S), NEW t \in Seq(S)
  PROVE  /\ s \o t \in Seq(S) /\ Len(s \o t) = Len(s) + Len(t)
         /\ \A k \in 1..(Len(s) + Len(t)) :
              (s \o t)[k] = IF k =< Len(s) THEN s[k] ELSE t[k - Len(s)]
  OBVIOUS

\* One more element.
LEMMA SeqAppend ==
  ASSUME NEW S, NEW s \in Seq(S), NEW e \in S
  PROVE  /\ Append(s, e) \in Seq(S) /\ Len(Append(s, e)) = Len(s) + 1
         /\ \A k \in 1..Len(s) : Append(s, e)[k] = s[k]
         /\ Append(s, e)[Len(s) + 1] = e
  OBVIOUS

\* Appending an element puts a sequence of one in a row.
LEMMA SeqOne ==
  ASSUME NEW S, NEW s \in Seq(S), NEW e \in S
  PROVE  /\ <<e>> \in Seq(S) /\ Len(<<e>>) = 1 /\ <<e>>[1] = e
         /\ Append(s, e) = s \o <<e>>
  <1>1. <<e>> \in Seq(S) /\ Len(<<e>>) = 1 /\ <<e>>[1] = e
    OBVIOUS
  <1>2. Append(s, e) = s \o <<e>>
    OBVIOUS
  <1>3. QED
    BY <1>1, <1>2

----------------------------------------------------------------------------
(* Logs, progress, nodes and messages.                                     *)

\* min and max of two indexes.
LEMMA MinMaxNat ==
  ASSUME NEW a \in Nat, NEW b \in Nat
  PROVE  /\ MinOf(a, b) \in Nat /\ MinOf(a, b) =< a /\ MinOf(a, b) =< b
         /\ MaxOf(a, b) \in Nat /\ MaxOf(a, b) >= a /\ MaxOf(a, b) >= b
  BY DEF MinOf, MaxOf

----------------------------------------------------------------------------
(* The log.                                                                *)

\* The fields of a log, and the order of its indexes.
LEMMA LogFields ==
  ASSUME NEW l \in LogType
  PROVE  /\ l.ents \in Seq(Entry) /\ l.offset \in Nat /\ l.committed \in Nat
         /\ l.offset =< l.committed /\ l.committed =< LastIndex(l) /\ l.committed > 0
         /\ LastIndex(l) \in Nat /\ LastIndex(l) = Len(l.ents)
  BY DEF LogType, LastIndex

\* A log is made of entries and indexes in order.
LEMMA MakeLog ==
  ASSUME NEW e \in Seq(Entry), NEW o \in Nat, NEW c \in Nat, o =< c, c =< Len(e), c > 0
  PROVE  [ents |-> e, offset |-> o, committed |-> c] \in LogType
  BY DEF LogType

\* A part of a sequence, and its length.
LEMMA SubSeqType ==
  ASSUME NEW S, NEW s \in Seq(S), NEW i \in Nat \ {0}, NEW j \in 0..Len(s)
  PROVE  /\ SubSeq(s, i, j) \in Seq(S)
         /\ Len(SubSeq(s, i, j)) = IF i =< j THEN j - i + 1 ELSE 0
  <1>1. \A k \in i..j : s[k] \in S
    OBVIOUS
  <1>2. QED
    BY <1>1, SeqPart

\* append behind the commit index gives a log that still holds it.
LEMMA LogAppendType ==
  ASSUME NEW l \in LogType, NEW after \in l.committed..LastIndex(l), NEW e \in Seq(Entry)
  PROVE  /\ LogAppend(l, after, e) \in LogType
         /\ LastIndex(LogAppend(l, after, e)) = after + Len(e)
         /\ LogAppend(l, after, e).committed = l.committed
  <1> DEFINE s == SubSeq(l.ents, 1, after)
  <1>1. after \in 0..Len(l.ents) /\ after \in Nat /\ l.ents \in Seq(Entry)
    BY LogFields
  <1>2. s \in Seq(Entry) /\ Len(s) = after
    BY <1>1, SubSeqType
  <1>3. LogAppend(l, after, e) = [l EXCEPT !.ents = s \o e]
    BY DEF LogAppend
  <1> HIDE DEF s
  <1>4. s \o e \in Seq(Entry) /\ Len(s \o e) = after + Len(e)
    BY <1>2, SeqConcat, Zenon
  <1>5. Len(e) \in Nat
    BY SeqLen
  <1> DEFINE t == s \o e
  <1> HIDE DEF t
  <1>6. t \in Seq(Entry) /\ Len(t) = after + Len(e) /\ LogAppend(l, after, e) = [l EXCEPT !.ents = t]
    BY <1>3, <1>4 DEF t
  <1>7. l.committed =< Len(t)
    BY <1>1, <1>5, <1>6, LogFields
  <1>8. [l EXCEPT !.ents = t] \in LogType
    BY <1>6, <1>7, LogFields DEF LogType
  <1>9. QED
    BY <1>6, <1>8, LogFields DEF LogType, LastIndex

\* The fields of a progress.
LEMMA ProgressFields ==
  ASSUME NEW pr \in ProgressType
  PROVE  /\ pr.Match \in Nat /\ pr.Next \in Nat /\ pr.Next > 0 /\ pr.PendingSnapshot \in Nat
         /\ pr.Inflights \in Seq(Nat) /\ pr.State \in ProgressStates
         /\ pr.RecentActive \in BOOLEAN /\ pr.ProbeSent \in BOOLEAN
  BY DEF ProgressType

\* The fields of an instance.
LEMMA NodeFields ==
  ASSUME NEW r \in NodeType
  PROVE  /\ r.id \in Server /\ r.Term \in Nat /\ r.Term > 0 /\ r.Term \in Terms
         /\ r.Vote \in Server \cup {None} /\ r.lead \in Server \cup {None}
         /\ r.leadTransferee \in Server \cup {None}
         /\ r.granted \in SUBSET Server /\ r.rejected \in SUBSET Server
         /\ r.log \in LogType /\ r.prs \in [Server -> ProgressType] /\ DOMAIN r.prs = Server
         /\ r.readOnly \in SUBSET ReadRequest
         /\ r.pendingReads \in Seq([Ctx : ReadCtx, From : Server])
         /\ r.msgs \in SUBSET Message
         /\ r.readStates \in SUBSET [Index : Nat, Ctx : ReadCtx]
         /\ Voters(r) = <<Server, {}>> /\ \A p : ~IsLearner(r, p)
         /\ r.state \in {StateFollower, StateCandidate, StateLeader, StatePreCandidate}
  BY DEF NodeType, Terms, Voters, IsLearner

\* The kind of a message tells its fields.
LEMMA MessageKinds ==
  ASSUME NEW m \in Message
  PROVE  /\ m.from \in Server /\ m.to \in Server /\ m.Term \in Nat
         /\ m.type \in {"MsgVote", "MsgPreVote"} => m \in VoteMessage
         /\ m.type \in {"MsgVoteResp", "MsgPreVoteResp"} => m \in VoteRespMessage
         /\ m.type = "MsgApp" => m \in AppMessage
         /\ m.type = "MsgAppResp" => m \in AppRespMessage
         /\ m.type = "MsgHeartbeat" => m \in HeartbeatMessage
         /\ m.type = "MsgHeartbeatResp" => m \in HeartbeatRespMessage
         /\ m.type = "MsgSnap" => m \in SnapMessage
         /\ m.type \in {"MsgTransferLeader", "MsgTimeoutNow"} => m \in BareMessage
         /\ m.type = "MsgProp" => m \in PropMessage
         /\ m.type = "MsgReadIndex" => m \in ReadIndexMessage
         /\ m.type = "MsgReadIndexResp" => m \in ReadIndexRespMessage
         /\ m.type \notin {"MsgProp", "MsgReadIndex", "MsgTransferLeader", "MsgTimeoutNow"} =>
              m.Term \in Terms
  <1>1. /\ \A x \in VoteMessage : /\ x.from \in Server /\ x.to \in Server /\ x.Term \in Terms
                                  /\ x.type \in {"MsgVote", "MsgPreVote"}
        /\ \A x \in VoteRespMessage : /\ x.from \in Server /\ x.to \in Server /\ x.Term \in Terms
                                      /\ x.type \in {"MsgVoteResp", "MsgPreVoteResp"}
    BY DEF VoteMessage, VoteRespMessage
  <1>2. /\ \A x \in AppMessage : /\ x.from \in Server /\ x.to \in Server /\ x.Term \in Terms
                                 /\ x.type = "MsgApp"
        /\ \A x \in AppRespMessage : /\ x.from \in Server /\ x.to \in Server /\ x.Term \in Terms
                                     /\ x.type = "MsgAppResp"
    BY DEF AppMessage, AppRespMessage
  <1>3. /\ \A x \in HeartbeatMessage : /\ x.from \in Server /\ x.to \in Server /\ x.Term \in Terms
                                       /\ x.type = "MsgHeartbeat"
        /\ \A x \in HeartbeatRespMessage : /\ x.from \in Server /\ x.to \in Server /\ x.Term \in Terms
                                           /\ x.type = "MsgHeartbeatResp"
        /\ \A x \in SnapMessage : /\ x.from \in Server /\ x.to \in Server /\ x.Term \in Terms
                                  /\ x.type = "MsgSnap"
    BY DEF HeartbeatMessage, HeartbeatRespMessage, SnapMessage
  <1>4. /\ \A x \in BareMessage : /\ x.from \in Server /\ x.to \in Server /\ x.Term \in Nat
                                  /\ x.type \in {"MsgTransferLeader", "MsgTimeoutNow"}
        /\ \A x \in PropMessage : /\ x.from \in Server /\ x.to \in Server /\ x.Term = 0
                                  /\ x.type = "MsgProp"
    BY DEF BareMessage, PropMessage
  <1>5. /\ \A x \in ReadIndexMessage : /\ x.from \in Server /\ x.to \in Server /\ x.Term = 0
                                       /\ x.type = "MsgReadIndex"
        /\ \A x \in ReadIndexRespMessage : /\ x.from \in Server /\ x.to \in Server /\ x.Term \in Terms
                                           /\ x.type = "MsgReadIndexResp"
    BY DEF ReadIndexMessage, ReadIndexRespMessage
  <1>6. QED
    BY <1>1, <1>2, <1>3, <1>4, <1>5 DEF Message, Terms

\* A set of naturals has a least element.
LEMMA NatMin ==
  ASSUME Basis, NEW S \in SUBSET Nat, S # {}
  PROVE  \E x \in S : \A y \in S : x =< y
  BY Zenon DEF Basis, WellOrdered

\* A bounded set of naturals has a greatest element.
LEMMA NatMax ==
  ASSUME WellOrdered, NEW n \in Nat, NEW S \in SUBSET Nat, S # {}, \A x \in S : x =< n
  PROVE  \E x \in S : \A y \in S : y =< x
  <1> DEFINE D == {n - y : y \in S}
  <1>1. \A y \in S : y \in Nat /\ n - y \in Nat
    OBVIOUS
  <1>2. D \in SUBSET Nat /\ D # {}
    BY <1>1, Zenon
  <1>3. PICK d \in D : \A e \in D : d =< e
    BY <1>2, Zenon DEF WellOrdered
  <1>4. PICK x \in S : d = n - x
    BY <1>3
  <1>5. \A y \in S : n - x =< n - y
    BY <1>3, <1>4, Zenon
  <1>6. QED
    BY <1>5

----------------------------------------------------------------------------
(* Logs that agree.                                                        *)

\* L and M hold the same entries up to index i.
Same(L, M, i) == i =< Len(L) /\ i =< Len(M) /\ \A k \in 1..i : L[k] = M[k]

\* No entry is of a term above T.
TermsUpTo(L, T) == \A j \in 1..Len(L) : L[j].Term =< T

\* H[T] is the log of the leader of term T.  Up to an entry of term T a log
\* is the one that this leader has had.
Coherent(H, L) == \A j \in 1..Len(L) : Same(L, H[L[j].Term], j)

\* Agreement is symmetric and transitive, and holds below.
LEMMA SameTrans ==
  ASSUME NEW L, NEW M, NEW N, NEW i \in Nat, NEW j \in Nat, NEW k \in Nat,
         Same(L, M, i), Same(M, N, j), k =< i, k =< j, Len(L) \in Nat, Len(M) \in Nat, Len(N) \in Nat
  PROVE  Same(L, N, k)
  <1>1. k =< Len(L) /\ k =< Len(N)
    BY DEF Same
  <1>2. ASSUME NEW x \in 1..k
        PROVE  L[x] = N[x]
    <2>1. x \in 1..i /\ x \in 1..j
      OBVIOUS
    <2>2. L[x] = M[x] /\ M[x] = N[x]
      BY <2>1, Zenon DEF Same
    <2>3. QED
      BY <2>2
  <1>3. QED
    BY <1>1, <1>2 DEF Same

\* Agreement does not depend on the order of the logs,
LEMMA SameFlip ==
  ASSUME NEW L, NEW M, NEW i \in Nat, Same(L, M, i)
  PROVE  Same(M, L, i)
  BY DEF Same

\* and goes down to every earlier index.
LEMMA SameBelow ==
  ASSUME NEW L, NEW M, NEW i \in Nat, Same(L, M, i), NEW j \in Nat, j =< i,
         Len(L) \in Nat, Len(M) \in Nat
  PROVE  Same(L, M, j)
  BY DEF Same

\* The terms of entries.
LEMMA EntryTerm ==
  ASSUME NEW L \in Seq(Entry), NEW i \in 1..Len(L)
  PROVE  L[i] \in Entry /\ L[i].Term \in Nat
  <1>1. L[i] \in Entry
    OBVIOUS
  <1>2. QED
    BY <1>1 DEF Entry

\* Log matching: coherent logs with an entry of the same index and term agree up to it.
LEMMA CoherentMatch ==
  ASSUME NEW H \in [Nat -> Seq(Entry)], NEW L \in Seq(Entry), NEW M \in Seq(Entry),
         Coherent(H, L), Coherent(H, M), NEW i \in Nat \ {0}, i =< Len(L), i =< Len(M),
         L[i].Term = M[i].Term
  PROVE  Same(L, M, i)
  <1>1. i \in 1..Len(L) /\ i \in 1..Len(M)
    OBVIOUS
  <1>2. Same(L, H[L[i].Term], i) /\ Same(M, H[L[i].Term], i)
    BY <1>1, Zenon DEF Coherent
  <1>3. QED
    BY <1>1, <1>2 DEF Same

\* No entry of a coherent log is of term 0.
LEMMA CoherentTerm ==
  ASSUME NEW H \in [Nat -> Seq(Entry)], H[0] = <<>>, NEW L \in Seq(Entry), Coherent(H, L),
         NEW i \in 1..Len(L)
  PROVE  L[i].Term \in Nat /\ L[i].Term > 0 /\ H[L[i].Term] # <<>>
  <1> DEFINE t == L[i].Term
             e == <<>>
  <1>1. t \in Nat
    BY EntryTerm, Zenon
  <1>2. Same(L, H[t], i)
    BY Zenon DEF Coherent
  <1>3. Len(e) = 0 /\ e = <<>>
    OBVIOUS
  <1> HIDE DEF t, e
  <1>4. Len(H[t]) # 0
    <2>1. i =< Len(H[t])
      BY <1>2, Zenon DEF Same
    <2> DEFINE n == Len(H[t])
    <2>2. i =< n
      BY <2>1
    <2> HIDE DEF n
    <2>3. n # 0
      BY <2>2
    <2>4. QED
      BY <2>3 DEF n
  <1>5. H[t] # e
    BY <1>3, <1>4, Zenon
  <1>6. t # 0
    BY <1>3, <1>5, Zenon
  <1>7. t > 0
    BY <1>1, <1>6
  <1>8. QED
    BY <1>1, <1>3, <1>5, <1>7, Zenon DEF t

\* What agrees with a coherent log throughout is coherent.
LEMMA CoherentPrefix ==
  ASSUME NEW H \in [Nat -> Seq(Entry)], NEW L \in Seq(Entry), NEW M \in Seq(Entry), NEW T \in Nat,
         Coherent(H, M), TermsUpTo(M, T), Same(L, M, Len(L))
  PROVE  Coherent(H, L) /\ TermsUpTo(L, T)
  <1>1. ASSUME NEW j \in 1..Len(L)
        PROVE  Same(L, H[L[j].Term], j) /\ L[j].Term =< T
    <2>1. j \in 1..Len(M) /\ L[j] = M[j]
      BY DEF Same
    <2>2. Same(M, H[M[j].Term], j) /\ M[j].Term =< T
      BY <2>1, Zenon DEF Coherent, TermsUpTo
    <2>3. QED
      BY <2>1, <2>2 DEF Same
  <1>2. QED
    BY <1>1, Zenon DEF Coherent, TermsUpTo

----------------------------------------------------------------------------
(* maybeAppend, with entries of a log M that the log l matches.            *)

\* Entries that start at index + 1 of M.
SliceOf(M, index, e) ==
  index + Len(e) =< Len(M) /\ \A k \in 1..Len(e) : e[k] = M[index + k]

\* Wherever l has an entry of the same term as M they agree up to there.
Matching(l, M) ==
  /\ \A i \in 1..Len(M) : M[i].Term \in Nat /\ M[i].Term > 0
  /\ \A i \in 1..Len(M) : i =< Len(l.ents) /\ l.ents[i].Term = M[i].Term => Same(l.ents, M, i)

\* The term check of maybeAppend makes sure of everything up to the index.
LEMMA MatchTermSame ==
  ASSUME NEW l \in LogType, NEW M \in Seq(Entry), Matching(l, M), NEW i \in 1..Len(M),
         i >= l.committed
  PROVE  MatchTerm(l, i, M[i].Term) <=> Same(l.ents, M, i)
  <1>1. /\ Len(l.ents) \in Nat /\ LastIndex(l) = Len(l.ents) /\ l.offset =< i
        /\ l.offset \in Nat /\ l.committed \in Nat /\ i \in Nat /\ i > 0
    BY LogFields
  <1>2. M[i].Term \in Nat /\ M[i].Term > 0
    BY Zenon DEF Matching
  <1>3. ASSUME MatchTerm(l, i, M[i].Term)
        PROVE  Same(l.ents, M, i)
    <2>1. i =< Len(l.ents) /\ l.ents[i].Term = M[i].Term
      BY <1>1, <1>2, <1>3 DEF MatchTerm, TermAt
    <2>2. QED
      BY <2>1, Zenon DEF Matching
  <1>4. ASSUME Same(l.ents, M, i)
        PROVE  MatchTerm(l, i, M[i].Term)
    <2>1. i =< Len(l.ents) /\ l.ents[i] = M[i]
      BY <1>1, <1>4 DEF Same
    <2>2. QED
      BY <1>1, <2>1 DEF MatchTerm, TermAt
  <1>5. QED
    BY <1>3, <1>4

\* findConflict finds the first entry of M that the log does not hold.
LEMMA FindConflictSame ==
  ASSUME Basis, NEW l \in LogType, NEW M \in Seq(Entry), Matching(l, M), NEW index \in Nat,
         NEW e \in Seq(Entry), SliceOf(M, index, e), index >= l.committed, Same(l.ents, M, index)
  PROVE  LET ci == FindConflict(l, index, e)
         IN  \/ ci = 0 /\ Same(l.ents, M, index + Len(e))
             \/ /\ ci \in (index + 1)..(index + Len(e))
                /\ Same(l.ents, M, ci - 1) /\ ~Same(l.ents, M, ci)
  <1> DEFINE ci == FindConflict(l, index, e)
             conflicts == {j \in 1..Len(e) : ~MatchTerm(l, index + j, e[j].Term)}
  <1>1. /\ Len(e) \in Nat /\ Len(M) \in Nat /\ index + Len(e) =< Len(M)
        /\ l.committed \in Nat /\ l.committed > 0
    BY LogFields DEF SliceOf
  <1>2. ASSUME NEW j \in 1..Len(e)
        PROVE  j \in conflicts <=> ~Same(l.ents, M, index + j)
    <2>1. e[j] = M[index + j] /\ index + j \in 1..Len(M) /\ index + j >= l.committed
      BY <1>1 DEF SliceOf
    <2>2. MatchTerm(l, index + j, M[index + j].Term) <=> Same(l.ents, M, index + j)
      BY <2>1, MatchTermSame
    <2>3. QED
      BY <2>1, <2>2
  <1>3. CASE conflicts = {}
    <2>1. ci = 0
      BY <1>3 DEF FindConflict
    <2>2. CASE Len(e) = 0
      <3>1. index + Len(e) = index
        BY <2>2
      <3>2. QED
        BY <2>1, <3>1
    <2>3. CASE Len(e) # 0
      <3>1. Len(e) \in 1..Len(e)
        BY <1>1, <2>3
      <3>2. Len(e) \notin conflicts
        BY <1>3
      <3> HIDE DEF conflicts
      <3>3. Same(l.ents, M, index + Len(e))
        BY <1>2, <3>1, <3>2
      <3>4. QED
        BY <2>1, <3>3
    <2>4. QED
      BY <2>2, <2>3
  <1>4. CASE conflicts # {}
    <2> DEFINE j == CHOOSE j \in conflicts : \A k \in conflicts : j =< k
    <2>1. ci = index + j
      BY <1>4 DEF FindConflict
    <2>2. conflicts \in SUBSET Nat /\ conflicts \in SUBSET (1..Len(e))
      BY SeqLen
    <2> HIDE DEF conflicts
    <2>3. \E x \in conflicts : \A k \in conflicts : x =< k
      BY <1>4, <2>2, NatMin
    <2>4. j \in conflicts /\ \A k \in conflicts : j =< k
      BY <2>3
    <2> HIDE DEF j, ci
    <2>5. j \in 1..Len(e) /\ j \in Nat
      BY <1>1, <2>2, <2>4
    <2>6. ~Same(l.ents, M, index + j)
      BY <1>2, <2>4, <2>5
    <2>7. Same(l.ents, M, index + j - 1)
      <3>1. CASE j = 1
        <4>1. index + j - 1 = index
          BY <3>1
        <4>2. QED
          BY <4>1
      <3>2. CASE j # 1
        <4> DEFINE k == j - 1
        <4>1. k \in 1..Len(e) /\ ~(j =< k) /\ index + j - 1 = index + k
          BY <2>5, <3>2
        <4> HIDE DEF k
        <4>2. k \notin conflicts
          BY <2>4, <4>1
        <4>3. Same(l.ents, M, index + k)
          BY <1>2, <4>1, <4>2
        <4>4. QED
          BY <4>1, <4>3
      <3>3. QED
        BY <3>1, <3>2
    <2>8. ci \in (index + 1)..(index + Len(e)) /\ ci - 1 = index + j - 1
      BY <1>1, <2>1, <2>5
    <2>9. Same(l.ents, M, ci - 1) /\ ~Same(l.ents, M, ci)
      BY <2>1, <2>6, <2>7, <2>8
    <2>10. QED
      BY <2>8, <2>9 DEF ci
  <1>5. QED
    BY <1>3, <1>4

\* What append makes of the log from the first conflict on.
LEMMA LogAppendSame ==
  ASSUME NEW l \in LogType, NEW M \in Seq(Entry), NEW index \in Nat, NEW e \in Seq(Entry),
         SliceOf(M, index, e), NEW ci \in (index + 1)..(index + Len(e)), Same(l.ents, M, ci - 1)
  PROVE  LET t == LogAppend(l, ci - 1, SubSeq(e, ci - index, Len(e)))
         IN  Len(t.ents) = index + Len(e) /\ Same(t.ents, M, index + Len(e))
  <1> DEFINE a == SubSeq(l.ents, 1, ci - 1)
             b == SubSeq(e, ci - index, Len(e))
             t == LogAppend(l, ci - 1, b)
  <1>1. /\ Len(e) \in Nat /\ Len(M) \in Nat /\ index + Len(e) =< Len(M) /\ Len(l.ents) \in Nat
        /\ l.ents \in Seq(Entry) /\ ci \in Nat /\ ci > 0
    BY LogFields DEF SliceOf
  <1>2. ci - 1 \in 0..Len(l.ents) /\ ci - index \in Nat \ {0} /\ ci - index =< Len(e)
    BY <1>1 DEF Same
  <1>3. a \in Seq(Entry) /\ Len(a) = ci - 1
    BY <1>1, <1>2, SubSeqType
  <1>4. b \in Seq(Entry) /\ Len(b) = Len(e) - (ci - index) + 1
    BY <1>1, <1>2, SubSeqType
  <1>5. \A k \in 1..(ci - 1) : a[k] = l.ents[k]
    BY <1>1, <1>2, SeqPart
  <1>6. \A k \in 1..Len(b) : b[k] = e[ci - index + k - 1]
    BY <1>1, <1>2, <1>4, SeqPart
  <1>7. t.ents = a \o b
    BY Zenon DEF LogAppend, LogType
  <1> HIDE DEF a, b, t
  <1>8. /\ Len(t.ents) = Len(a) + Len(b)
        /\ \A k \in 1..(Len(a) + Len(b)) : t.ents[k] = IF k =< Len(a) THEN a[k] ELSE b[k - Len(a)]
    <2>1. /\ Len(a \o b) = Len(a) + Len(b)
          /\ \A k \in 1..Len(a) + Len(b) : (a \o b)[k] = IF k <= Len(a) THEN a[k] ELSE b[k - Len(a)]
      <3>1. a \in Seq(Entry) /\ b \in Seq(Entry)
        BY <1>3, <1>4
      <3>2. QED
        BY <3>1, SeqConcat, Zenon
    <2>2. QED
      BY <1>7, <2>1, Zenon
  <1>9. Len(t.ents) = index + Len(e)
    <2>1. Len(t.ents) = Len(a) + Len(b)
      BY <1>8
    <2>2. QED
      BY <1>1, <1>2, <1>3, <1>4, <2>1
  <1>10. ASSUME NEW k \in 1..(index + Len(e))
         PROVE  t.ents[k] = M[k]
    <2>1. CASE k =< ci - 1
      <3>1. t.ents[k] = a[k] /\ k \in 1..(ci - 1)
        BY <1>1, <1>3, <1>8, <1>9, <2>1
      <3>2. l.ents[k] = M[k]
        BY <3>1 DEF Same
      <3>3. QED
        BY <1>5, <3>1, <3>2
    <2>2. CASE ~(k =< ci - 1)
      <3> DEFINE j == k - (ci - 1)
      <3>1. t.ents[k] = b[j] /\ j \in 1..Len(b)
        BY <1>1, <1>3, <1>8, <1>9, <2>2
      <3>2. ci - index + j - 1 = k - index /\ k - index \in 1..Len(e) /\ index + (k - index) = k
        BY <1>1, <1>2, <2>2
      <3> HIDE DEF j
      <3>3. b[j] = e[k - index]
        <4>1. b[j] = e[ci - index + j - 1]
          BY <1>6, <3>1, Zenon
        <4>2. QED
          BY <3>2, <4>1, Zenon
      <3>4. e[k - index] = M[index + (k - index)]
        BY <3>2, Zenon DEF SliceOf
      <3>5. QED
        BY <3>1, <3>2, <3>3, <3>4
    <2>3. QED
      BY <2>1, <2>2
  <1>11. QED
    BY <1>1, <1>9, <1>10 DEF Same, t, b

\* commitTo moves the commit index only.
LEMMA CommitToFields ==
  ASSUME NEW l \in LogType, NEW i \in Nat
  PROVE  /\ CommitTo(l, i).ents = l.ents /\ CommitTo(l, i).committed >= l.committed
         /\ \/ CommitTo(l, i).committed = l.committed
            \/ CommitTo(l, i).committed = i /\ i =< Len(l.ents)
         /\ i =< Len(l.ents) => CommitTo(l, i).committed >= i
  BY LogFields DEF CommitTo, CanCommitTo, LogType, LastIndex

\* maybeAppend makes the log agree with M up to the last of the entries,
\* loses nothing that agreed, and has no reason to panic.
LEMMA MaybeAppendSame ==
  ASSUME Basis, NEW l \in LogType, NEW M \in Seq(Entry), Matching(l, M), NEW index \in Nat,
         NEW e \in Seq(Entry), SliceOf(M, index, e), index >= l.committed, Same(l.ents, M, index),
         NEW committed \in Nat
  PROVE  LET t == MaybeAppend(l, index, committed, e)
         IN  /\ ~AppendPanics(l, index, e)
             /\ Same(t.ents, M, index + Len(e))
             /\ t.ents = l.ents \/ Len(t.ents) = index + Len(e)
             /\ \A i \in Nat : Same(l.ents, M, i) => Same(t.ents, M, i)
             /\ t.committed >= l.committed
             /\ t.committed = l.committed \/ (t.committed =< committed /\ t.committed =< index + Len(e))
  <1> DEFINE ci == FindConflict(l, index, e)
             suffix == SubSeq(e, ci - index, Len(e))
             appended == IF ci = 0 THEN l ELSE LogAppend(l, ci - 1, suffix)
             c == MinOf(committed, index + Len(e))
             t == MaybeAppend(l, index, committed, e)
  <1>1. t = CommitTo(appended, c)
    BY DEF MaybeAppend
  <1>2. Len(e) \in Nat /\ index + Len(e) \in Nat /\ Len(M) \in Nat
    BY SeqLen
  <1>3. c \in Nat /\ c =< committed /\ c =< index + Len(e)
    BY <1>2, MinMaxNat, Zenon
  <1>4. l.committed \in Nat /\ Len(l.ents) \in Nat /\ LastIndex(l) = Len(l.ents)
    BY LogFields
  <1>5. \/ ci = 0 /\ Same(l.ents, M, index + Len(e))
        \/ /\ ci \in (index + 1)..(index + Len(e))
           /\ Same(l.ents, M, ci - 1) /\ ~Same(l.ents, M, ci)
    BY FindConflictSame
  <1>6. /\ ~AppendPanics(l, index, e)
        /\ appended \in LogType /\ appended.committed = l.committed
        /\ Same(appended.ents, M, index + Len(e))
        /\ appended.ents = l.ents \/ Len(appended.ents) = index + Len(e)
        /\ \A i \in Nat : Same(l.ents, M, i) => Same(appended.ents, M, i)
    <2>1. CASE ci = 0
      BY <1>5, <2>1 DEF AppendPanics
    <2>2. CASE ci # 0
      <3>1. /\ ci \in (index + 1)..(index + Len(e))
            /\ Same(l.ents, M, ci - 1) /\ ~Same(l.ents, M, ci)
        BY <1>5, <2>2
      <3>2. ~AppendPanics(l, index, e)
        BY <1>2, <1>4, <3>1 DEF AppendPanics, Same
      <3>3. appended = LogAppend(l, ci - 1, suffix)
        BY <2>2
      <3> HIDE DEF ci
      <3>4. Len(appended.ents) = index + Len(e) /\ Same(appended.ents, M, index + Len(e))
        BY <3>1, <3>3, LogAppendSame
      <3>5. suffix \in Seq(Entry)
        BY <1>2, <3>1, SubSeqType
      <3>6. ci - 1 \in l.committed..LastIndex(l)
        BY <1>2, <1>4, <3>1 DEF Same
      <3> HIDE DEF suffix
      <3>7. appended \in LogType /\ appended.committed = l.committed
        BY <3>3, <3>5, <3>6, LogAppendType
      <3> HIDE DEF appended
      <3>8. ASSUME NEW i \in Nat, Same(l.ents, M, i)
            PROVE  Same(appended.ents, M, i)
        <4>1. i < ci
          BY <1>2, <1>4, <3>1, <3>8 DEF Same
        <4>2. i =< index + Len(e)
          BY <1>2, <3>1, <4>1
        <4>3. QED
          BY <1>2, <3>4, <4>2, SameBelow
      <3>9. QED
        BY <3>2, <3>4, <3>7, <3>8
    <2>3. QED
      BY <2>1, <2>2
  <1> HIDE DEF appended, c
  <1>7. /\ t.ents = appended.ents /\ t.committed >= appended.committed
        /\ t.committed = appended.committed \/ t.committed = c
    BY <1>1, <1>3, <1>6, CommitToFields
  <1> HIDE DEF t
  <1>8. QED
    BY <1>2, <1>3, <1>4, <1>6, <1>7 DEF t

----------------------------------------------------------------------------
(* restore, and the comparison of logs in a vote.                          *)

\* The leaders' logs: coherent, and of terms up to the leader's.
Leaders(H) ==
  /\ H \in [Nat -> Seq(Entry)] /\ H[0] = <<>>
  /\ \A T \in Nat : Coherent(H, H[T]) /\ TermsUpTo(H[T], T)

\* A coherent log matches those of the leaders.
LEMMA LeadersMatch ==
  ASSUME NEW H, Leaders(H), NEW l \in LogType, Coherent(H, l.ents), NEW T \in Nat
  PROVE  Matching(l, H[T])
  <1>1. H[T] \in Seq(Entry) /\ Coherent(H, H[T]) /\ H \in [Nat -> Seq(Entry)] /\ H[0] = <<>>
    BY Zenon DEF Leaders
  <1>2. l.ents \in Seq(Entry) /\ Len(l.ents) \in Nat
    BY LogFields
  <1>3. \A i \in 1..Len(H[T]) : H[T][i].Term \in Nat /\ H[T][i].Term > 0
    BY <1>1, CoherentTerm, Zenon
  <1>4. ASSUME NEW i \in 1..Len(H[T]), i =< Len(l.ents), l.ents[i].Term = H[T][i].Term
        PROVE  Same(l.ents, H[T], i)
    <2> DEFINE n == Len(H[T])
    <2>1. i \in 1..n /\ n \in Nat
      BY <1>1, SeqLen, Zenon
    <2> HIDE DEF n
    <2>2. i \in Nat \ {0} /\ i =< n
      BY <2>1
    <2>3. i \in Nat \ {0} /\ i =< Len(H[T])
      BY <2>2, Zenon DEF n
    <2>4. QED
      BY <1>1, <1>2, <1>4, <2>3, CoherentMatch, Zenon
  <1>5. QED
    BY <1>3, <1>4 DEF Matching

\* The last term of a log is that of its last entry.
LEMMA LastTermIs ==
  ASSUME NEW l \in LogType
  PROVE  /\ LastTerm(l) = l.ents[Len(l.ents)].Term /\ LastIndex(l) = Len(l.ents)
         /\ Len(l.ents) \in 1..Len(l.ents) /\ Len(l.ents) \in Nat
  BY LogFields DEF LastTerm, TermAt, LastIndex

\* A log that is up to date in comparison with one that holds the leader's
\* entry i of term T holds it too, as every later leader does.
LEMMA UpToDateSame ==
  ASSUME NEW H, Leaders(H), NEW l \in LogType, NEW k \in LogType,
         Coherent(H, l.ents), Coherent(H, k.ents), IsUpToDate(l, LastIndex(k), LastTerm(k)),
         NEW T \in Nat, NEW i \in 1..Len(H[T]), H[T][i].Term = T, Same(l.ents, H[T], i),
         \A U \in Nat : U > T /\ H[U] # <<>> => Same(H[U], H[T], i)
  PROVE  Same(k.ents, H[T], i)
  <1> DEFINE L == l.ents
             M == k.ents
             V == L[Len(L)].Term
             W == M[Len(M)].Term
  <1>1. H \in [Nat -> Seq(Entry)] /\ H[0] = <<>> /\ \A U \in Nat : Coherent(H, H[U]) /\ TermsUpTo(H[U], U)
    BY Zenon DEF Leaders
  <1>2. L \in Seq(Entry) /\ M \in Seq(Entry) /\ Len(L) \in 1..Len(L) /\ Len(M) \in 1..Len(M)
    BY LogFields, LastTermIs
  <1>3. W > V \/ (W = V /\ Len(M) >= Len(L))
    BY LastTermIs DEF IsUpToDate
  <1>4. V \in Nat /\ W \in Nat /\ Len(L) \in Nat /\ Len(M) \in Nat /\ i \in Nat /\ Len(H[T]) \in Nat
    <2>1. V \in Nat
      BY <1>2, EntryTerm, Zenon
    <2>2. W \in Nat
      BY <1>2, EntryTerm, Zenon
    <2>3. Len(L) \in Nat /\ Len(M) \in Nat /\ Len(H[T]) \in Nat
      BY <1>1, <1>2, SeqLen, Zenon
    <2>4. QED
      BY <2>1, <2>2, <2>3
  <1>5. Same(L, H[V], Len(L)) /\ Same(M, H[W], Len(M)) /\ H[W] # <<>>
    <2>1. Same(L, H[V], Len(L)) /\ Same(M, H[W], Len(M))
      BY <1>2, Zenon DEF Coherent
    <2>2. H[W] # <<>>
      BY <1>1, <1>2, CoherentTerm, Zenon
    <2>3. QED
      BY <2>1, <2>2
  <1> HIDE DEF L, M, V, W
  <1>6. Same(L, H[T], i) /\ i =< Len(L)
    BY DEF Same, L
  <1>7. T =< V
    <2>1. i \in 1..Len(H[V]) /\ H[V][i].Term = T
      <3>1. H[V] \in Seq(Entry) /\ i \in 1..i /\ i \in 1..Len(L)
        BY <1>1, <1>4, <1>6
      <3>2. L[i] = H[T][i] /\ L[i] = H[V][i]
        BY <1>5, <1>6, <3>1, Zenon DEF Same
      <3>3. i \in 1..Len(H[V])
        BY <1>4, <1>5, <1>6, <3>1 DEF Same
      <3>4. QED
        BY <3>2, <3>3
    <2>2. H[V][i].Term =< V
      BY <1>1, <1>4, <2>1, Zenon DEF TermsUpTo
    <2>3. QED
      BY <2>1, <2>2
  <1>8. CASE W = V
    <2>1. Len(M) >= Len(L)
      BY <1>3, <1>4, <1>8
    <2>2. Same(M, L, i)
      BY <1>4, <1>5, <1>6, <1>8, <2>1 DEF Same
    <2>3. QED
      BY <1>4, <1>6, <2>2 DEF Same, M
  <1>9. CASE W > V
    <2>1. Same(H[W], H[T], i)
      BY <1>4, <1>5, <1>7, <1>9
    <2>2. Len(M) >= i
      <3>1. SUFFICES ASSUME Len(M) < i
                     PROVE  FALSE
        BY <1>4
      <3>2. Len(M) \in 1..Len(H[T])
        BY <1>2, <1>4, <3>1
      <3>3. M[Len(M)] = H[T][Len(M)]
        BY <1>2, <1>4, <1>5, <2>1, <3>1 DEF Same
      <3>4. H[T][Len(M)].Term =< T
        BY <1>1, <3>2, Zenon DEF TermsUpTo
      <3>5. W =< T
        BY <3>3, <3>4 DEF W
      <3>6. QED
        BY <1>4, <1>7, <1>9, <3>5
    <2>3. Same(M, H[T], i)
      BY <1>4, <1>5, <2>1, <2>2 DEF Same
    <2>4. QED
      BY <2>3 DEF M
  <1>10. QED
    BY <1>3, <1>4, <1>8, <1>9

\* A log l becomes t, which agrees with M up to index i: nothing that agreed
\* is lost, and what is newly committed is among what agrees.
Follows(l, t, M, i) ==
  /\ Same(t.ents, M, i) /\ (t.ents = l.ents \/ Len(t.ents) = i)
  /\ \A j \in Nat : Same(l.ents, M, j) => Same(t.ents, M, j)
  /\ t.committed >= l.committed /\ (t.committed = l.committed \/ t.committed =< i)

\* restore follows the log that the snapshot is of, whether the log already
\* holds the snapshot's last entry or is replaced.
LEMMA InstallSame ==
  ASSUME NEW l \in LogType, NEW M \in Seq(Entry), Matching(l, M), NEW sn \in Seq(Entry),
         Same(sn, M, Len(sn)), Len(sn) > l.committed, NEW t,
         t = IF MatchTerm(l, Len(sn), sn[Len(sn)].Term) THEN CommitTo(l, Len(sn))
             ELSE LogRestore(l, sn)
  PROVE  Follows(l, t, M, Len(sn)) /\ t.committed = Len(sn)
  <1> DEFINE last == Len(sn)
  <1>1. /\ last \in Nat /\ Len(M) \in Nat /\ Len(l.ents) \in Nat /\ l.committed \in Nat
        /\ last =< Len(M) /\ last > 0
    BY LogFields DEF Same
  <1>2. last \in 1..Len(M) /\ sn[last] = M[last] /\ last >= l.committed
    BY <1>1 DEF Same
  <1>3. MatchTerm(l, last, sn[last].Term) <=> Same(l.ents, M, last)
    BY <1>2, MatchTermSame
  <1>4. CASE Same(l.ents, M, last)
    <2>1. t = CommitTo(l, last) /\ last =< Len(l.ents)
      BY <1>3, <1>4 DEF Same
    <2> HIDE DEF last
    <2>2. t.ents = l.ents /\ t.committed = last
      BY <1>1, <2>1, CommitToFields DEF last
    <2>3. QED
      BY <1>1, <1>4, <2>2 DEF Follows, last
  <1>5. CASE ~Same(l.ents, M, last)
    <2>1. t = LogRestore(l, sn)
      BY <1>3, <1>5
    <2>2. t.ents = sn /\ t.committed = last
      BY <2>1 DEF LogRestore
    <2>3. ASSUME NEW j \in Nat, Same(l.ents, M, j)
          PROVE  Same(sn, M, j)
      <3>1. ~(last =< j)
        BY <1>1, <1>5, <2>3, SameBelow
      <3>2. QED
        BY <1>1, <3>1, SameBelow
    <2>4. QED
      BY <1>1, <2>2, <2>3 DEF Follows
  <1>6. QED
    BY <1>4, <1>5
=============================================================================
