------------------------- MODULE ReplicationProofs -------------------------
(***************************************************************************)
(* What a leader does to its log, to the progress of its peers and in what *)
(* it says about them: its part of Replicates.                             *)
(***************************************************************************)
EXTENDS NodeProofs

\* A step of a leader that leaves its log and what it counts alone.
Speaks(r, s) ==
  /\ s.id = r.id /\ s.log = r.log /\ s.panic = r.panic /\ s.lead = r.lead
  /\ \A p \in Server : s.prs[p].Match = r.prs[p].Match
  /\ AllWithin(s)
  /\ \A m \in s.msgs : m \in r.msgs \/ Says(s, m)

\* Such steps compose.
LEMMA SpeaksTrans ==
  ASSUME NEW r, NEW s, NEW t, Speaks(r, s), Speaks(s, t)
  PROVE  Speaks(r, t)
  <1>1. \A m : Says(s, m) => Says(t, m)
    BY DEF Speaks, Says
  <1>2. QED
    BY <1>1 DEF Speaks

\* Doing nothing is one.
LEMMA SpeaksRefl ==
  ASSUME NEW r, AllWithin(r)
  PROVE  Speaks(r, r)
  BY DEF Speaks

\* send fails only on a wrong term.
LEMMA SendAllSpeaks ==
  ASSUME NEW r \in NodeType, NEW ms, AllWithin(r),
         \A m \in ms : Stamped(r, m) \in Message /\ ~WrongTerm(m) /\ Says(r, Stamped(r, m))
  PROVE  Speaks(r, SendAll(r, ms))
  <1> DEFINE s == SendAll(r, ms)
  <1>1. Stays(r, s) /\ Data(r, s) /\ s.msgs = r.msgs \cup {Stamped(r, m) : m \in ms}
    BY SendAllStays
  <1>2. s.panic = (r.panic \/ \E m \in ms : WrongTerm(m))
    BY DEF SendAll, NodeType
  <1>3. r.panic \in BOOLEAN
    BY DEF NodeType
  <1> HIDE DEF s
  <1>4. s.panic = r.panic
    BY <1>2, <1>3
  <1>5. \A m : Says(r, m) => Says(s, m)
    BY <1>1 DEF Says, Data, Stays
  <1>6. AllWithin(s)
    BY <1>1 DEF AllWithin, Data, Stays
  <1>7. QED
    BY <1>1, <1>4, <1>5, <1>6 DEF Speaks, Data, Stays, s

\* So is a change of progress that keeps what is counted.
LEMMA SetPrsSpeaks ==
  ASSUME NEW r \in NodeType, NEW x \in [Server -> ProgressType],
         \A p \in Server : /\ x[p].Match = r.prs[p].Match
                           /\ Within(x[p], LastIndex(r.log)) /\ Windowed(x[p]),
         x[r.id].Inflights = <<>>
  PROVE  Speaks(r, [r EXCEPT !.prs = x])
  <1> DEFINE s == [r EXCEPT !.prs = x]
  <1>1. /\ s.id = r.id /\ s.log = r.log /\ s.panic = r.panic /\ s.prs = x /\ s.msgs = r.msgs
        /\ s.lead = r.lead
    BY DEF NodeType
  <1> HIDE DEF s
  <1>2. QED
    BY <1>1 DEF Speaks, AllWithin, s

\* The same for one peer.
LEMMA SetPeerSpeaks ==
  ASSUME NEW r \in NodeType, NEW p \in Server, NEW pr \in ProgressType, AllWithin(r),
         pr.Match = r.prs[p].Match, Within(pr, LastIndex(r.log)), Windowed(pr),
         p # r.id \/ pr.Inflights = <<>>
  PROVE  Speaks(r, [r EXCEPT !.prs[p] = pr]) /\ [r EXCEPT !.prs[p] = pr] \in NodeType
  <1> DEFINE prs == [r.prs EXCEPT ![p] = pr]
  <1>1. prs \in [Server -> ProgressType]
    BY NodeFields
  <1>2. \A q \in Server : /\ prs[q].Match = r.prs[q].Match
                          /\ Within(prs[q], LastIndex(r.log)) /\ Windowed(prs[q])
    BY NodeFields DEF AllWithin
  <1>3. prs[r.id].Inflights = <<>>
    BY NodeFields DEF AllWithin
  <1>4. [r EXCEPT !.prs[p] = pr] = [r EXCEPT !.prs = prs]
    BY DEF NodeType
  <1> HIDE DEF prs
  <1>5. QED
    BY <1>1, <1>2, <1>4, <1>3, SetPrsSpeaks, SetPeer

----------------------------------------------------------------------------
(* Sending entries.                                                        *)

\* A MsgApp carries entries of the log, from an index that is in it.
LEMMA AppMsgSays ==
  ASSUME NEW r \in NodeType, NEW to \in Server, to # r.id, NEW index \in Nat,
         r.log.offset =< index, index =< LastIndex(r.log)
  PROVE  LET m == AppMsg(r, to, index, Entries(r.log, index + 1))
         IN  Stamped(r, m) \in Message /\ ~WrongTerm(m) /\ Says(r, Stamped(r, m))
  <1> DEFINE ents == Entries(r.log, index + 1)
             m == AppMsg(r, to, index, ents)
  <1>1. ents \in Seq(Entry)
    BY NodeFields, EntriesType
  <1>2. Stamped(r, m) \in Message
    <2> HIDE DEF ents
    <2>1. QED
      BY <1>1, AppMsgType DEF FromLeader
  <1>3. Stamped(r, m) = [type |-> "MsgApp", from |-> r.id, to |-> to, Term |-> r.Term, Index |-> index,
                         LogTerm |-> TermAt(r.log, index), Entries |-> ents,
                         Commit |-> r.log.committed]
    BY StampedHeader DEF AppMsg, LeaderMsgs
  <1>4. ~WrongTerm(m)
    BY DEF WrongTerm, AppMsg, CampaignMsgs
  <1>5. Says(r, Stamped(r, m))
    BY <1>3 DEF Says, LeaderOut, LeaderMsgs
  <1>6. QED
    BY <1>2, <1>4, <1>5

\* A MsgSnap carries the state at the compaction point.
LEMMA SnapMsgSays ==
  ASSUME NEW r \in NodeType, NEW to \in Server, to # r.id
  PROVE  LET m == SnapMsg(r, to)
         IN  Stamped(r, m) \in Message /\ ~WrongTerm(m) /\ Says(r, Stamped(r, m))
  <1>1. Stamped(r, SnapMsg(r, to)) \in Message
    BY SnapMsgType DEF FromLeader
  <1>2. Stamped(r, SnapMsg(r, to)) =
          [type |-> "MsgSnap", from |-> r.id, to |-> to, Term |-> r.Term, Snapshot |-> Snapshot(r.log)]
    BY StampedHeader DEF SnapMsg, LeaderMsgs
  <1>3. ~WrongTerm(SnapMsg(r, to))
    BY DEF WrongTerm, SnapMsg, CampaignMsgs
  <1>4. Says(r, Stamped(r, SnapMsg(r, to)))
    BY <1>2 DEF Says, LeaderOut, LeaderMsgs
  <1>5. QED
    BY <1>1, <1>3, <1>4

\* Either message is in order: Next - 1 is neither compacted nor behind the log.
LEMMA AppendOrSnapshotSays ==
  ASSUME NEW r \in NodeType, NEW to \in Server, to # r.id, AllWithin(r)
  PROVE  LET m == AppendOrSnapshot(r, to)
         IN  Stamped(r, m) \in Message /\ ~WrongTerm(m) /\ Says(r, Stamped(r, m))
  <1> DEFINE pr == r.prs[to]
             index == pr.Next - 1
  <1>1. pr \in ProgressType /\ pr.Next \in Nat /\ pr.Next > 0 /\ index \in Nat
    BY NodeFields, ProgressFields
  <1>2. CASE NeedsSnapshot(r, pr)
    BY <1>2, SnapMsgSays DEF AppendOrSnapshot
  <1>3. CASE ~NeedsSnapshot(r, pr)
    <2>1. r.log.offset =< index
      BY <1>1, <1>3, NodeFields, LogFields DEF NeedsSnapshot, Compacted, FirstIndex
    <2>2. index =< LastIndex(r.log)
      BY <1>1, NodeFields, LogFields DEF AllWithin, Within
    <2>3. index + 1 = pr.Next
      BY <1>1
    <2>4. AppendOrSnapshot(r, to) = AppMsg(r, to, index, Entries(r.log, index + 1))
      BY <1>3, <2>3 DEF AppendOrSnapshot, EntriesFor
    <2> HIDE DEF index
    <2>5. QED
      BY <1>1, <2>1, <2>2, <2>4, AppMsgSays
  <1>4. QED
    BY <1>2, <1>3

\* What is on its way is not beyond the log.
LEMMA AfterSendingWithin ==
  ASSUME NEW r \in NodeType, NEW to \in Server, AllWithin(r)
  PROVE  Within(AfterSending(r, to), LastIndex(r.log)) /\ AfterSending(r, to).Match = r.prs[to].Match
  <1> DEFINE pr == r.prs[to]
             ents == EntriesFor(r, pr)
             last == pr.Next + Len(ents) - 1
             up == OptimisticUpdate(pr, last)
             window == Add(up.Inflights, last)
             li == LastIndex(r.log)
  <1>1. /\ pr \in ProgressType /\ pr.Next \in Nat \ {0} /\ r.log \in LogType /\ li \in Nat
        /\ r.log.offset \in Nat /\ r.log.offset =< li /\ Within(pr, li)
    BY NodeFields, ProgressFields, LogFields DEF AllWithin
  <1>2. BecomeSnapshot(pr, r.log.offset).Match = pr.Match /\ Within(BecomeSnapshot(pr, r.log.offset), li)
    BY <1>1, BecomeSnapshotWithin
  <1>3. [pr EXCEPT !.ProbeSent = TRUE].Match = pr.Match /\ Within([pr EXCEPT !.ProbeSent = TRUE], li)
    BY <1>1, FlagsWithin, Zenon
  <1>4. CASE NeedsSnapshot(r, pr) \/ ents = <<>> \/ pr.State # StateReplicate
    <2>1. \/ AfterSending(r, to) = BecomeSnapshot(pr, r.log.offset)
          \/ AfterSending(r, to) = pr
          \/ AfterSending(r, to) = [pr EXCEPT !.ProbeSent = TRUE]
      BY <1>4 DEF AfterSending
    <2>2. QED
      BY <1>1, <1>2, <1>3, <2>1, Zenon
  <1>5. CASE ~NeedsSnapshot(r, pr) /\ ents # <<>> /\ pr.State = StateReplicate
    <2>1. AfterSending(r, to) = [up EXCEPT !.Inflights = window]
      BY <1>5 DEF AfterSending
    <2>2. ents = Entries(r.log, pr.Next)
      BY <1>5 DEF EntriesFor
    <2>3. pr.Next =< li
      BY <1>1, <1>5, <2>2 DEF Entries
    <2>4. last \in Nat /\ last =< li
      <3>1. ents \in Seq(Entry) /\ pr.Next + Len(ents) - 1 =< LastIndex(r.log)
        BY <1>1, <2>2, <2>3, EntriesType
      <3>2. Len(ents) \in Nat
        BY <3>1, SeqLen
      <3> HIDE DEF ents
      <3>3. QED
        BY <1>1, <3>1, <3>2
    <2> HIDE DEF last
    <2>5. /\ [up EXCEPT !.Inflights = window].Match = pr.Match
          /\ [up EXCEPT !.Inflights = window].Next = last + 1
          /\ [up EXCEPT !.Inflights = window].PendingSnapshot = pr.PendingSnapshot
      BY <1>1 DEF OptimisticUpdate, ProgressType
    <2>6. QED
      BY <1>1, <2>1, <2>4, <2>5 DEF Within
  <1>6. QED
    BY <1>4, <1>5

\* It enters a window with a free slot: to a full one nothing is sent.
LEMMA AfterSendingWindowed ==
  ASSUME NEW r \in NodeType, NEW to \in Server, AllWithin(r), ~IsPaused(r.prs[to])
  PROVE  Windowed(AfterSending(r, to))
  <1> DEFINE pr == r.prs[to]
             ents == EntriesFor(r, pr)
             last == pr.Next + Len(ents) - 1
             t == <<last>>
             s == [OptimisticUpdate(pr, last) EXCEPT !.Inflights = Add(@, last)]
  <1>1. /\ pr \in ProgressType /\ r.log \in LogType /\ r.log.offset \in Nat /\ Windowed(pr)
    BY NodeFields, LogFields DEF AllWithin
  <1>2. Windowed(BecomeSnapshot(pr, r.log.offset)) /\ Windowed([pr EXCEPT !.ProbeSent = TRUE])
    BY <1>1, BecomeWindowed, FlagsWindowed, Zenon
  <1>3. CASE NeedsSnapshot(r, pr) \/ ents = <<>> \/ pr.State # StateReplicate
    <2>1. \/ AfterSending(r, to) = BecomeSnapshot(pr, r.log.offset)
          \/ AfterSending(r, to) = pr
          \/ AfterSending(r, to) = [pr EXCEPT !.ProbeSent = TRUE]
      BY <1>3 DEF AfterSending
    <2>2. QED
      BY <1>1, <1>2, <2>1, Zenon
  <1>4. CASE ~NeedsSnapshot(r, pr) /\ ents # <<>> /\ pr.State = StateReplicate
    <2>1. AfterSending(r, to) = s
      BY <1>4 DEF AfterSending
    <2>2. pr.Next \in Nat /\ pr.Inflights \in Seq(Nat) /\ Len(pr.Inflights) \in Nat
      BY <1>1, ProgressFields, SeqLen
    <2>3. ents \in Seq(Entry)
      <3>1. ents = Entries(r.log, pr.Next) /\ pr.Next \in Nat \ {0}
        BY <1>1, <1>4, ProgressFields DEF EntriesFor
      <3>2. QED
        BY <1>1, <3>1, EntriesType
    <2>4. Len(ents) \in Nat \ {0}
      BY <1>4, <2>3, SeqEmpty
    <2> HIDE DEF ents
    <2>5. last \in Nat /\ pr.Next =< last /\ last < last + 1 /\ pr.Next =< last + 1
      BY <2>2, <2>4
    <2> HIDE DEF last
    <2>6. Len(pr.Inflights) # MaxInflightMsgs /\ Len(pr.Inflights) =< MaxInflightMsgs
      BY <1>1, <1>4 DEF IsPaused, Full, Windowed
    <2>7. /\ s.State = StateReplicate /\ s.Match = pr.Match /\ s.Next = last + 1
          /\ s.Inflights = Append(pr.Inflights, last)
      BY <1>1, <1>4, Zenon DEF OptimisticUpdate, Add, ProgressType
    <2>8. /\ t \in Seq(Nat) /\ Len(t) = 1 /\ t[1] = last
          /\ Append(pr.Inflights, last) = pr.Inflights \o t
      <3> HIDE DEF pr
      <3>1. pr.Inflights \in Seq(Nat) /\ last \in Nat
        BY <2>2, <2>5, Zenon
      <3>2. \A q \in Seq(Nat), e \in Nat :
              /\ <<e>> \in Seq(Nat) /\ Len(<<e>>) = 1 /\ <<e>>[1] = e
              /\ Append(q, e) = q \o <<e>>
        BY SeqOne
      <3>3. QED
        BY <3>1, <3>2
    <2>9. /\ \A i \in 1..Len(t) : pr.Next =< t[i] /\ t[i] < s.Next
          /\ \A i, j \in 1..Len(t) : i < j => t[i] < t[j]
      <3>1. \A i \in 1..1 : i = 1
        OBVIOUS
      <3>2. QED
        BY <2>5, <2>7, <2>8, <3>1
    <2>10. Len(pr.Inflights) + Len(t) =< MaxInflightMsgs
      <3> HIDE DEF pr, t
      <3>1. QED
        BY <2>2, <2>6, <2>8, MaxInflightAssumption
    <2>11. s.Next \in Nat /\ pr.Next =< s.Next /\ s.Inflights = pr.Inflights \o t
      <3> HIDE DEF s, t, pr
      <3>1. QED
        BY <2>2, <2>5, <2>7, <2>8
    <2> HIDE DEF s, t, pr
    <2>12. Windowed(s)
      BY <1>1, <1>4, <2>7, <2>8, <2>9, <2>10, <2>11, WindowGrows, Zenon
    <2>13. QED
      BY <2>1, <2>12
  <1>5. QED
    BY <1>3, <1>4

\* maybeSendAppend to a set of peers.
LEMMA SendAppendsSpeaks ==
  ASSUME NEW r \in NodeType, NEW tos \in SUBSET Server, r.id \notin tos, NEW b, AllWithin(r)
  PROVE  Speaks(r, SendAppends(r, tos, b))
  <1> DEFINE going == {to \in tos : Sends(r, to, b)}
             ms == {AppendOrSnapshot(r, to) : to \in going}
             s == SendAll(r, ms)
             prs == SentProgress(r, going)
  <1>1. \A m \in ms : Stamped(r, m) \in Message /\ ~WrongTerm(m) /\ Says(r, Stamped(r, m))
    BY AppendOrSnapshotSays
  <1>2. SendAppends(r, tos, b) = [s EXCEPT !.prs = prs]
    BY DEF SendAppends
  <1> HIDE DEF ms
  <1>3. Speaks(r, s) /\ Stays(r, s) /\ Data(r, s)
    BY <1>1, SendAllSpeaks, SendAllStays
  <1>4. /\ prs \in [Server -> ProgressType]
        /\ \A p \in Server : /\ prs[p].Match = r.prs[p].Match
                             /\ Within(prs[p], LastIndex(r.log)) /\ Windowed(prs[p])
        /\ prs[r.id].Inflights = <<>>
    <2>1. \A p \in Server : AfterSending(r, p) \in ProgressType /\ r.prs[p] \in ProgressType
      BY NodeFields, AfterSendingType
    <2>2. \A p \in Server : /\ AfterSending(r, p).Match = r.prs[p].Match
                            /\ Within(AfterSending(r, p), LastIndex(r.log))
      BY AfterSendingWithin
    <2>3. DOMAIN r.prs = Server
      BY NodeFields
    <2>4. \A p \in going : Windowed(AfterSending(r, p))
      BY AfterSendingWindowed DEF Sends
    <2>5. r.id \notin going
      OBVIOUS
    <2> HIDE DEF going
    <2>6. prs = [p \in Server |-> IF p \in going THEN AfterSending(r, p) ELSE r.prs[p]]
      BY <2>3 DEF SentProgress
    <2>7. prs \in [Server -> ProgressType]
      BY <2>1, <2>6
    <2>8. \A p \in Server : /\ prs[p].Match = r.prs[p].Match
                            /\ Within(prs[p], LastIndex(r.log)) /\ Windowed(prs[p])
      BY <2>2, <2>6, <2>4 DEF AllWithin
    <2>9. prs[r.id].Inflights = <<>>
      BY <2>6, <2>5, NodeFields DEF AllWithin
    <2>10. QED
      BY <2>7, <2>8, <2>9
  <1> HIDE DEF s, prs
  <1>5. s \in NodeType /\ s.prs = r.prs /\ s.log = r.log /\ s.id = r.id
    BY <1>3 DEF Stays, Data
  <1>6. Speaks(s, [s EXCEPT !.prs = prs])
    BY <1>4, <1>5, SetPrsSpeaks
  <1>7. QED
    BY <1>2, <1>3, <1>6, SpeaksTrans

\* sendAppend to another node.
LEMMA SendAppendSpeaks ==
  ASSUME NEW r \in NodeType, NEW to \in Server, to # r.id, AllWithin(r)
  PROVE  Speaks(r, SendAppend(r, to))
  BY SendAppendsSpeaks, Zenon DEF SendAppend

\* bcastAppend.
LEMMA BcastAppendSpeaks ==
  ASSUME NEW r \in NodeType, AllWithin(r)
  PROVE  Speaks(r, BcastAppend(r))
  <1>1. Peers(r) \in SUBSET Server /\ r.id \notin Peers(r)
    BY NodeFields DEF Peers
  <1>2. QED
    BY <1>1, SendAppendsSpeaks, Zenon DEF BcastAppend

\* A batch starts in the log.
LEMMA BatchStart ==
  ASSUME NEW left \in Int, NEW M \in Nat \ {0}, NEW b \in Int, b =< (left + M - 1) \div M
  PROVE  (b - 1) * M < left
  <1> DEFINE q == (left + M - 1) \div M
  <1>1. q \in Int /\ q * M =< left + M - 1
    OBVIOUS
  <1> HIDE DEF q
  <1>2. b =< q
    BY DEF q
  <1>3. b * M =< q * M
    BY <1>1, <1>2
  <1>4. (b - 1) * M = b * M - M
    OBVIOUS
  <1>5. b * M \in Int /\ q * M \in Int
    BY <1>1
  <1>6. QED
    BY <1>1, <1>3, <1>4, <1>5

\* The batches are in order.
LEMMA BatchOrder ==
  ASSUME NEW M \in Nat \ {0}, NEW b \in Int, NEW c \in Int, b < c
  PROVE  (b - 1) * M + M =< (c - 1) * M
  <1>1. b =< c - 1
    OBVIOUS
  <1>2. b * M =< (c - 1) * M
    BY <1>1
  <1>3. (b - 1) * M = b * M - M /\ b * M \in Int
    OBVIOUS
  <1>4. QED
    BY <1>2, <1>3

\* The loop that fills the window of a peer.
LEMMA DrainAppendsSpeaks ==
  ASSUME NEW r \in NodeType, NEW to \in Server, to # r.id, AllWithin(r)
  PROVE  Speaks(r, DrainAppends(r, to))
  <1> DEFINE pr == r.prs[to]
             li == LastIndex(r.log)
             left == li + 1 - pr.Next
             batches == (left + MaxSizePerMsg - 1) \div MaxSizePerMsg
             k == MinOf(MaxInflightMsgs - Len(pr.Inflights), batches)
             prev(b) == pr.Next - 1 + (b - 1) * MaxSizePerMsg
             last(b) == MinOf(prev(b) + MaxSizePerMsg, li)
             ms == {AppMsg(r, to, prev(b), Entries(r.log, prev(b) + 1)) : b \in 1..k}
             s == SendAll(r, ms)
             up == OptimisticUpdate(pr, last(k))
             window == up.Inflights \o [b \in 1..k |-> last(b)]
             new == [up EXCEPT !.Inflights = window]
  <1>1. CASE pr.State # StateReplicate \/ NeedsSnapshot(r, pr) \/ k =< 0
    <2>1. DrainAppends(r, to) = r
      BY <1>1, Zenon DEF DrainAppends
    <2>2. QED
      BY <2>1, SpeaksRefl
  <1>2. CASE ~(pr.State # StateReplicate \/ NeedsSnapshot(r, pr) \/ k =< 0)
    <2>1. /\ pr \in ProgressType /\ pr.Next \in Nat /\ pr.Next > 0 /\ Len(pr.Inflights) \in Nat
          /\ r.log \in LogType /\ li \in Nat /\ li = LastIndex(r.log)
          /\ MaxSizePerMsg \in Nat /\ MaxSizePerMsg > 0 /\ MaxInflightMsgs \in Nat
          /\ Within(pr, li) /\ Windowed(pr) /\ r.log.offset \in Nat
      BY NodeFields, ProgressFields, LogFields, SeqLen, MaxSizeAssumption, MaxInflightAssumption
         DEF AllWithin
    <2>2. r.log.offset < pr.Next
      BY <1>2, <2>1 DEF NeedsSnapshot, Compacted, FirstIndex
    <2>3. DrainAppends(r, to) = [s EXCEPT !.prs[to] = new]
      BY <1>2 DEF DrainAppends
    <2> HIDE DEF pr, li
    <2>4. left \in Int /\ batches \in Int
      BY <2>1
    <2>5. k \in Int /\ k > 0 /\ k =< batches /\ Len(pr.Inflights) + k =< MaxInflightMsgs
      <3> HIDE DEF batches
      <3>1. k \in Int /\ k =< batches /\ Len(pr.Inflights) + k =< MaxInflightMsgs
        <4> DEFINE room == MaxInflightMsgs - Len(pr.Inflights)
        <4>1. room \in Int /\ Len(pr.Inflights) + room = MaxInflightMsgs
          BY <2>1
        <4>2. k = MinOf(room, batches)
          OBVIOUS
        <4> HIDE DEF room, k
        <4>3. k \in Int /\ k =< batches /\ k =< room
          BY <2>4, <4>1, <4>2 DEF MinOf
        <4>4. QED
          BY <2>1, <4>1, <4>3
      <3>2. QED
        BY <1>2, <3>1
    <2> HIDE DEF k
    <2>6. ASSUME NEW b \in 1..k
          PROVE  prev(b) \in Nat /\ r.log.offset =< prev(b) /\ prev(b) < li
      <3>1. b \in Int /\ b =< batches /\ b - 1 \in Nat
        BY <2>4, <2>5
      <3>2. (b - 1) * MaxSizePerMsg < left
        BY <2>1, <2>4, <3>1, BatchStart
      <3>3. (b - 1) * MaxSizePerMsg \in Nat
        BY <2>1, <3>1
      <3> DEFINE x == (b - 1) * MaxSizePerMsg
      <3>4. prev(b) = pr.Next - 1 + x /\ left = li + 1 - pr.Next
        OBVIOUS
      <3>5. x \in Nat /\ x < left
        BY <3>2, <3>3
      <3> HIDE DEF prev, left, x
      <3>6. QED
        BY <2>1, <2>2, <3>4, <3>5
    <2>7. ASSUME NEW b \in 1..k, NEW c \in 1..k, b < c
          PROVE  prev(b) + MaxSizePerMsg =< prev(c)
      <3>1. (b - 1) * MaxSizePerMsg + MaxSizePerMsg =< (c - 1) * MaxSizePerMsg
        BY <2>1, <2>5, <2>7, BatchOrder
      <3>2. b - 1 \in Int /\ c - 1 \in Int
        BY <2>5
      <3>3. (b - 1) * MaxSizePerMsg \in Int /\ (c - 1) * MaxSizePerMsg \in Int
        BY <2>1, <3>2
      <3> DEFINE x == (b - 1) * MaxSizePerMsg
                 y == (c - 1) * MaxSizePerMsg
      <3>4. prev(b) = pr.Next - 1 + x /\ prev(c) = pr.Next - 1 + y
        OBVIOUS
      <3>5. x \in Int /\ y \in Int /\ x + MaxSizePerMsg =< y
        BY <3>1, <3>3
      <3> HIDE DEF prev, x, y
      <3>6. QED
        BY <2>1, <3>4, <3>5
    <2>8. \A b \in 1..k : pr.Next - 1 =< prev(b)
      <3> TAKE b \in 1..k
      <3>1. b - 1 \in Nat
        BY <2>5
      <3>2. (b - 1) * MaxSizePerMsg \in Nat
        BY <2>1, <3>1
      <3>3. QED
        BY <2>1, <3>2
    <2> HIDE DEF prev, left, batches
    <2>9. /\ \A b \in 1..k : last(b) \in Nat /\ pr.Next =< last(b) /\ prev(b) < last(b) /\ last(b) =< li
          /\ \A b, c \in 1..k : b < c => last(b) =< prev(c)
      <3>1. ASSUME NEW b \in 1..k
            PROVE  last(b) \in Nat /\ pr.Next =< last(b) /\ prev(b) < last(b) /\ last(b) =< li
        BY <2>1, <2>6, <2>8 DEF MinOf
      <3>2. ASSUME NEW b \in 1..k, NEW c \in 1..k, b < c
            PROVE  last(b) =< prev(c)
        <4>1. prev(b) + MaxSizePerMsg =< prev(c) /\ prev(c) \in Nat /\ prev(c) < li /\ prev(b) \in Nat
          BY <2>6, <2>7, <3>2
        <4>2. QED
          BY <2>1, <4>1 DEF MinOf
      <3>3. QED
        BY <3>1, <3>2
    <2>10. \A b, c \in 1..k : b < c => last(b) < last(c)
      <3> SUFFICES ASSUME NEW b \in 1..k, NEW c \in 1..k, b < c
                   PROVE  last(b) < last(c)
        OBVIOUS
      <3>1. last(b) =< prev(c) /\ prev(c) < last(c) /\ last(b) \in Nat /\ last(c) \in Nat /\ prev(c) \in Nat
        BY <2>6, <2>9
      <3> HIDE DEF last
      <3>2. QED
        BY <3>1
    <2>11. last(k) \in Nat /\ last(k) =< li
      BY <2>1, <2>5, <2>6 DEF MinOf
    <2> HIDE DEF last
    <2>12. \A m \in ms : Stamped(r, m) \in Message /\ ~WrongTerm(m) /\ Says(r, Stamped(r, m))
      <3> SUFFICES ASSUME NEW b \in 1..k
                   PROVE  LET m == AppMsg(r, to, prev(b), Entries(r.log, prev(b) + 1))
                          IN  Stamped(r, m) \in Message /\ ~WrongTerm(m) /\ Says(r, Stamped(r, m))
        OBVIOUS
      <3>1. prev(b) \in Nat /\ r.log.offset =< prev(b) /\ prev(b) =< LastIndex(r.log)
        BY <2>1, <2>6
      <3>2. QED
        BY <3>1, AppMsgSays
    <2> HIDE DEF ms
    <2>13. Speaks(r, s) /\ s \in NodeType /\ s.prs = r.prs /\ s.log = r.log /\ s.id = r.id
      BY <2>12, SendAllSpeaks, SendAllStays DEF Stays, Data
    <2> HIDE DEF s
    <2>14. new.Match = pr.Match /\ new.Next = last(k) + 1 /\ new.PendingSnapshot = pr.PendingSnapshot
      <3> HIDE DEF window
      <3>1. QED
        BY <2>1 DEF OptimisticUpdate, ProgressType
    <2>15. Within(new, li)
      BY <2>1, <2>11, <2>14 DEF Within
    <2>16. Windowed(new)
      <3> DEFINE t == [b \in 1..k |-> last(b)]
      <3>1. t \in Seq(Nat) /\ Len(t) = k /\ \A b \in 1..k : t[b] = last(b)
        BY <2>5, <2>9
      <3>2. new.State = StateReplicate /\ new.Inflights = pr.Inflights \o t
        BY <1>2, <2>1, Zenon DEF OptimisticUpdate, ProgressType
      <3> HIDE DEF t, new
      <3>3. \A b \in 1..k : b = k \/ last(b) < last(k)
        BY <2>5, <2>10
      <3>4. new.Next \in Nat /\ pr.Next =< new.Next /\ \A b \in 1..k : last(b) < new.Next
        <4>1. \A b \in 1..k : last(b) \in Nat /\ last(b) =< last(k)
          BY <2>5, <2>11, <2>9, <3>3
        <4>2. pr.Next \in Nat /\ pr.Next =< last(k)
          BY <2>1, <2>5, <2>9
        <4>3. new.Next = last(k) + 1 /\ last(k) \in Nat
          BY <2>11, <2>14
        <4>4. QED
          BY <4>1, <4>2, <4>3
      <3>5. pr.State = StateReplicate /\ Len(pr.Inflights) + Len(t) =< MaxInflightMsgs
        BY <1>2, <2>5, <3>1, Zenon
      <3>6. /\ \A i \in 1..Len(t) : pr.Next =< t[i] /\ t[i] < new.Next
            /\ \A i, j \in 1..Len(t) : i < j => t[i] < t[j]
        BY <2>9, <2>10, <3>1, <3>4, Zenon
      <3>7. QED
        BY <2>1, <2>14, <3>1, <3>2, <3>4, <3>5, <3>6, WindowGrows, Zenon
    <2> HIDE DEF new
    <2> DEFINE prs == [r.prs EXCEPT ![to] = new]
    <2>17. [s EXCEPT !.prs[to] = new] = [s EXCEPT !.prs = prs]
      BY <2>13
    <2>18. /\ \A p \in Server : /\ prs[p].Match = r.prs[p].Match
                                 /\ Within(prs[p], li) /\ Windowed(prs[p])
           /\ prs[r.id].Inflights = <<>>
      BY <2>1, <2>14, <2>15, <2>16, NodeFields, Zenon DEF AllWithin, pr
    <2> DEFINE t == [s EXCEPT !.prs = prs]
    <2>19. /\ t.id = s.id /\ t.log = s.log /\ t.panic = s.panic /\ t.prs = prs /\ t.msgs = s.msgs
           /\ t.lead = s.lead
      BY <2>13, Zenon DEF NodeType
    <2> HIDE DEF prs, t
    <2>20. Speaks(s, t)
      BY <2>1, <2>13, <2>18, <2>19, Zenon DEF Speaks, AllWithin
    <2>21. QED
      BY <2>3, <2>13, <2>17, <2>20, SpeaksTrans, Zenon DEF t
  <1>3. QED
    BY <1>1, <1>2

----------------------------------------------------------------------------
(* Heartbeats and reads.                                                   *)

\* What a leader keeps for reads and transfers says nothing of the log.
LEMMA SetReadsSpeaks ==
  ASSUME NEW r \in NodeType, AllWithin(r)
  PROVE  /\ \A x : Speaks(r, [r EXCEPT !.readOnly = x])
         /\ \A x : Speaks(r, [r EXCEPT !.pendingReads = x])
         /\ \A x : Speaks(r, [r EXCEPT !.readStates = x])
         /\ \A x : Speaks(r, [r EXCEPT !.leadTransferee = x])
  <1>1. ASSUME NEW s, s.id = r.id, s.log = r.log, s.panic = r.panic, s.lead = r.lead,
               s.prs = r.prs, s.msgs = r.msgs
        PROVE  Speaks(r, s)
    BY <1>1 DEF Speaks, AllWithin
  <1>2. ASSUME NEW x
        PROVE  /\ Speaks(r, [r EXCEPT !.readOnly = x]) /\ Speaks(r, [r EXCEPT !.pendingReads = x])
               /\ Speaks(r, [r EXCEPT !.readStates = x]) /\ Speaks(r, [r EXCEPT !.leadTransferee = x])
    <2> DEFINE a == [r EXCEPT !.readOnly = x]
               b == [r EXCEPT !.pendingReads = x]
               c == [r EXCEPT !.readStates = x]
               d == [r EXCEPT !.leadTransferee = x]
    <2>1. /\ a.id = r.id /\ a.log = r.log /\ a.panic = r.panic /\ a.lead = r.lead
          /\ a.prs = r.prs /\ a.msgs = r.msgs
          /\ b.id = r.id /\ b.log = r.log /\ b.panic = r.panic /\ b.lead = r.lead
          /\ b.prs = r.prs /\ b.msgs = r.msgs
      BY DEF NodeType
    <2>2. /\ c.id = r.id /\ c.log = r.log /\ c.panic = r.panic /\ c.lead = r.lead
          /\ c.prs = r.prs /\ c.msgs = r.msgs
          /\ d.id = r.id /\ d.log = r.log /\ d.panic = r.panic /\ d.lead = r.lead
          /\ d.prs = r.prs /\ d.msgs = r.msgs
      BY DEF NodeType
    <2> HIDE DEF a, b, c, d
    <2>3. QED
      BY <1>1, <2>1, <2>2, Zenon DEF a, b, c, d
  <1>3. QED
    BY <1>2, Zenon

\* A heartbeat tells a peer of nothing that it does not have.
LEMMA BcastHeartbeatWithCtxSpeaks ==
  ASSUME NEW r \in NodeType, NEW ctxs \in SUBSET (ReadCtx \cup {NoCtx}), AllWithin(r)
  PROVE  Speaks(r, BcastHeartbeatWithCtx(r, ctxs))
  <1> DEFINE ms == {HeartbeatMsg(r, to, c) : to \in Peers(r), c \in ctxs}
  <1>1. ASSUME NEW to \in Server, to # r.id, NEW c \in ReadCtx \cup {NoCtx}
        PROVE  LET m == HeartbeatMsg(r, to, c)
               IN  Stamped(r, m) \in Message /\ ~WrongTerm(m) /\ Says(r, Stamped(r, m))
    <2> DEFINE commit == MinOf(r.prs[to].Match, r.log.committed)
               s == [type |-> "MsgHeartbeat", from |-> r.id, to |-> to, Term |-> r.Term,
                     Commit |-> commit, Context |-> c]
    <2>1. r.prs[to].Match \in Nat /\ r.log.committed \in Nat
      BY NodeFields, ProgressFields, LogFields
    <2>2. commit \in Nat /\ commit =< r.prs[to].Match /\ commit =< r.log.committed
      BY <2>1 DEF MinOf
    <2>3. Stamped(r, HeartbeatMsg(r, to, c)) = s
      BY StampedHeader DEF HeartbeatMsg, LeaderMsgs
    <2>4. ~WrongTerm(HeartbeatMsg(r, to, c))
      BY DEF WrongTerm, HeartbeatMsg, CampaignMsgs
    <2> HIDE DEF commit
    <2>5. s \in HeartbeatMessage
      BY <1>1, <2>2, NodeFields, Zenon DEF HeartbeatMessage
    <2>6. Says(r, s)
      BY <1>1, <2>2, Zenon DEF Says, LeaderOut, LeaderMsgs
    <2>7. QED
      BY <2>3, <2>4, <2>5, <2>6, Zenon DEF Message
  <1>2. \A m \in ms : Stamped(r, m) \in Message /\ ~WrongTerm(m) /\ Says(r, Stamped(r, m))
    BY <1>1, NodeFields DEF Peers
  <1> HIDE DEF ms
  <1>3. Speaks(r, SendAll(r, ms))
    BY <1>2, SendAllSpeaks
  <1>4. QED
    BY <1>3 DEF BcastHeartbeatWithCtx, ms

\* bcastHeartbeat.
LEMMA BcastHeartbeatSpeaks ==
  ASSUME NEW r \in NodeType, AllWithin(r)
  PROVE  Speaks(r, BcastHeartbeat(r))
  <1>1. LastPendingRequestCtx(r) \in ReadCtx \cup {NoCtx}
    <2>1. CASE \E q \in r.readOnly : IsLastRead(r, q)
      <3> DEFINE q == CHOOSE o \in r.readOnly : IsLastRead(r, o)
      <3>1. q \in r.readOnly /\ LastPendingRequestCtx(r) = q.Ctx
        BY <2>1 DEF LastPendingRequestCtx
      <3> HIDE DEF q
      <3>2. q \in ReadRequest
        BY <3>1, NodeFields
      <3>3. QED
        BY <3>1, <3>2 DEF ReadRequest
    <2>2. CASE ~\E q \in r.readOnly : IsLastRead(r, q)
      BY <2>2 DEF LastPendingRequestCtx
    <2>3. QED
      BY <2>1, <2>2
  <1>2. QED
    BY <1>1, BcastHeartbeatWithCtxSpeaks DEF BcastHeartbeat

\* responseToReadIndexReq.
LEMMA RespondToReadsSpeaks ==
  ASSUME NEW r \in NodeType, NEW reqs, AllWithin(r),
         \A q \in reqs : q.Ctx \in ReadCtx /\ q.From \in Server /\ q.Index \in Nat
  PROVE  Speaks(r, RespondToReads(r, reqs))
  <1> DEFINE answers == r.readStates \cup {[Index |-> q.Index, Ctx |-> q.Ctx] :
                                           q \in {o \in reqs : o.From = r.id}}
             s == [r EXCEPT !.readStates = answers]
             answer(q) == [type |-> "MsgReadIndexResp", from |-> r.id, to |-> q.From,
                           Term |-> 0, Index |-> q.Index, Context |-> q.Ctx]
             ms == {answer(q) : q \in {o \in reqs : o.From # r.id}}
  <1>1. answers \in SUBSET [Index : Nat, Ctx : ReadCtx]
    BY NodeFields
  <1>2. RespondToReads(r, reqs) = SendAll(s, ms)
    BY DEF RespondToReads
  <1> HIDE DEF answers
  <1>3. Speaks(r, s) /\ s \in NodeType /\ AllWithin(s)
    <2>1. Internal(r, s)
      BY <1>1, SetReadStates
    <2>2. Speaks(r, s)
      BY SetReadsSpeaks
    <2> HIDE DEF s
    <2>3. QED
      BY <2>1, <2>2 DEF Internal, Stays, Speaks
  <1> HIDE DEF s
  <1>4. ASSUME NEW q \in reqs
        PROVE  /\ Stamped(s, answer(q)) \in Message /\ ~WrongTerm(answer(q))
               /\ Says(s, Stamped(s, answer(q)))
    <2> DEFINE to == q.From
               index == q.Index
               ctx == q.Ctx
               m == [type |-> "MsgReadIndexResp", from |-> r.id, to |-> to,
                     Term |-> s.Term, Index |-> index, Context |-> ctx]
    <2>1. to \in Server /\ index \in Nat /\ ctx \in ReadCtx
      OBVIOUS
    <2>2. Stamped(s, answer(q)) = m
      BY StampedHeader
    <2>3. ~WrongTerm(answer(q))
      BY DEF WrongTerm, CampaignMsgs
    <2> HIDE DEF to, index, ctx
    <2>4. m \in ReadIndexRespMessage
      BY <1>3, <2>1, NodeFields DEF ReadIndexRespMessage
    <2>5. m.type = "MsgReadIndexResp"
      OBVIOUS
    <2> HIDE DEF m, answer
    <2>6. Says(s, m)
      BY <2>5 DEF Says, LeaderOut, LeaderMsgs
    <2>7. QED
      BY <2>2, <2>3, <2>4, <2>6 DEF Message
  <1>5. \A m \in ms : Stamped(s, m) \in Message /\ ~WrongTerm(m) /\ Says(s, Stamped(s, m))
    BY <1>4
  <1> HIDE DEF ms
  <1>6. Speaks(s, SendAll(s, ms))
    BY <1>3, <1>5, SendAllSpeaks
  <1>7. QED
    BY <1>2, <1>3, <1>6, SpeaksTrans

\* sendMsgReadIndexResponse.
LEMMA SendMsgReadIndexResponseSpeaks ==
  ASSUME NEW r \in NodeType, NEW reqs \in Seq([Ctx : ReadCtx, From : Server]), AllWithin(r)
  PROVE  Speaks(r, SendMsgReadIndexResponse(r, reqs))
  <1> DEFINE ctxAt(i) == reqs[i].Ctx
             pending == {q.Ctx : q \in r.readOnly}
             new == {i \in DOMAIN reqs : /\ ctxAt(i) \notin pending
                                         /\ \A j \in 1..(i - 1) : ctxAt(j) # ctxAt(i)}
             request(i) == [Ctx |-> ctxAt(i), From |-> reqs[i].From, Index |-> r.log.committed,
                            acks |-> {r.id}, pos |-> LastReadPos(r) + i]
             added == {request(i) : i \in new}
             queue == r.readOnly \cup added
             s == [r EXCEPT !.readOnly = queue]
             ctxs == {ctxAt(i) : i \in DOMAIN reqs}
  <1>1. \A i \in DOMAIN reqs : i \in Nat /\ reqs[i].Ctx \in ReadCtx /\ reqs[i].From \in Server
    <2> DEFINE R == [Ctx : ReadCtx, From : Server]
    <2>1. \A q \in R : q.Ctx \in ReadCtx /\ q.From \in Server
      OBVIOUS
    <2>2. reqs \in Seq(R)
      OBVIOUS
    <2> HIDE DEF R
    <2>3. \A i \in DOMAIN reqs : i \in Nat /\ reqs[i] \in R
      BY <2>2, SeqLen
    <2>4. QED
      BY <2>1, <2>3 DEF R
  <1>2. ASSUME NEW i \in DOMAIN reqs
        PROVE  request(i) \in ReadRequest
    <2> DEFINE c == reqs[i].Ctx
               f == reqs[i].From
               x == r.log.committed
               a == {r.id}
               p == LastReadPos(r) + i
    <2>1. c \in ReadCtx /\ f \in Server /\ x \in Nat /\ a \in SUBSET Server /\ p \in Nat
      BY <1>1, NodeFields, LogFields, LastReadPosType
    <2>2. request(i) = [Ctx |-> c, From |-> f, Index |-> x, acks |-> a, pos |-> p]
      OBVIOUS
    <2> HIDE DEF c, f, x, a, p, request
    <2>3. QED
      BY <2>1, <2>2 DEF ReadRequest
  <1>3. queue \in SUBSET ReadRequest
    <2>1. \A i \in new : request(i) \in ReadRequest
      BY <1>2
    <2> HIDE DEF request, new
    <2>2. QED
      BY <2>1, NodeFields
  <1>4. ctxs \in SUBSET (ReadCtx \cup {NoCtx})
    BY <1>1
  <1>5. SendMsgReadIndexResponse(r, reqs) = BcastHeartbeatWithCtx(s, ctxs)
    BY DEF SendMsgReadIndexResponse
  <1> HIDE DEF queue, ctxs
  <1>6. Internal(r, s) /\ Speaks(r, s)
    BY <1>3, SetReadOnly, SetReadsSpeaks, Zenon
  <1> HIDE DEF s
  <1>7. s \in NodeType /\ AllWithin(s)
    BY <1>6 DEF Internal, Stays, Speaks
  <1>8. Speaks(s, BcastHeartbeatWithCtx(s, ctxs))
    BY <1>4, <1>7, BcastHeartbeatWithCtxSpeaks
  <1>9. QED
    BY <1>5, <1>6, <1>8, SpeaksTrans

\* releasePendingReadIndexMessages.
LEMMA ReleasePendingSpeaks ==
  ASSUME NEW r \in NodeType, AllWithin(r)
  PROVE  Speaks(r, ReleasePendingReadIndexMessages(r))
  <1> DEFINE none == <<>>
             s == [r EXCEPT !.pendingReads = none]
  <1>1. none \in Seq([Ctx : ReadCtx, From : Server])
    OBVIOUS
  <1>2. \/ ReleasePendingReadIndexMessages(r) = r
        \/ ReleasePendingReadIndexMessages(r) = SendMsgReadIndexResponse(s, r.pendingReads)
    BY DEF ReleasePendingReadIndexMessages
  <1> HIDE DEF none
  <1>3. Internal(r, s) /\ Speaks(r, s)
    BY <1>1, SetPending, SetReadsSpeaks, Zenon
  <1> HIDE DEF s
  <1>4. s \in NodeType /\ AllWithin(s)
    BY <1>3 DEF Internal, Stays, Speaks
  <1>5. Speaks(s, SendMsgReadIndexResponse(s, r.pendingReads))
    BY <1>4, NodeFields, SendMsgReadIndexResponseSpeaks, Zenon
  <1>6. QED
    BY <1>2, <1>3, <1>5, SpeaksTrans, SpeaksRefl

\* recvAck and advance of the reads.
LEMMA AckReadSpeaks ==
  ASSUME NEW r \in NodeType, NEW from \in Server, NEW ctx, AllWithin(r)
  PROVE  Speaks(r, AckRead(r, from, ctx))
  <1> DEFINE ack(q) == IF q.Ctx = ctx THEN [q EXCEPT !.acks = @ \cup {from}] ELSE q
             acked == {ack(q) : q \in r.readOnly}
             won == {q \in acked : q.Ctx = ctx /\ VoteResult(Voters(r), q.acks, {}) = VoteWon}
             served == {q \in acked : \E w \in won : q.pos =< w.pos}
             left == acked \ served
             s == [r EXCEPT !.readOnly = left]
  <1>1. ASSUME NEW q \in ReadRequest
        PROVE  ack(q) \in ReadRequest
    BY DEF ReadRequest
  <1>2. acked \in SUBSET ReadRequest
    <2> HIDE DEF ack
    <2>1. QED
      BY <1>1, NodeFields
  <1> HIDE DEF acked
  <1>3. left \in SUBSET ReadRequest /\ served \in SUBSET ReadRequest
    BY <1>2
  <1>4. AckRead(r, from, ctx) = RespondToReads(s, served)
    BY DEF AckRead, acked
  <1> HIDE DEF served, left
  <1>5. Internal(r, s) /\ Speaks(r, s)
    BY <1>3, SetReadOnly, SetReadsSpeaks, Zenon
  <1> HIDE DEF s
  <1>6. s \in NodeType /\ AllWithin(s)
    BY <1>5 DEF Internal, Stays, Speaks
  <1>7. \A q \in served : q.Ctx \in ReadCtx /\ q.From \in Server /\ q.Index \in Nat
    BY <1>3 DEF ReadRequest
  <1>8. Speaks(s, RespondToReads(s, served))
    BY <1>6, <1>7, RespondToReadsSpeaks
  <1>9. QED
    BY <1>4, <1>5, <1>8, SpeaksTrans

----------------------------------------------------------------------------
(* The handlers of a leader that leave its log alone.                      *)

\* MsgReadIndex.
LEMMA ReadIndexStepSpeaks ==
  ASSUME NEW r \in NodeType, NEW from \in Server, NEW ctx \in ReadCtx, AllWithin(r)
  PROVE  Speaks(r, ReadIndexStep(r, from, ctx))
  <1> DEFINE req == [Ctx |-> ctx, From |-> from]
             now == [Ctx |-> ctx, From |-> from, Index |-> r.log.committed]
             queue == Append(r.pendingReads, req)
  <1>1. req \in [Ctx : ReadCtx, From : Server] /\ r.log.committed \in Nat
    BY NodeFields, LogFields
  <1>2. Speaks(r, RespondToReads(r, {now}))
    <2>1. \A q \in {now} : q.Ctx \in ReadCtx /\ q.From \in Server /\ q.Index \in Nat
      BY <1>1
    <2> HIDE DEF now
    <2>2. QED
      BY <2>1, RespondToReadsSpeaks
  <1>3. Speaks(r, [r EXCEPT !.pendingReads = queue])
    <2> HIDE DEF queue
    <2>1. QED
      BY SetReadsSpeaks
  <1>4. Speaks(r, SendMsgReadIndexResponse(r, <<req>>))
    <2> HIDE DEF req
    <2>1. <<req>> \in Seq([Ctx : ReadCtx, From : Server])
      BY <1>1
    <2>2. QED
      BY <2>1, SendMsgReadIndexResponseSpeaks, Zenon
  <1>5. \/ ReadIndexStep(r, from, ctx) = RespondToReads(r, {now})
        \/ ReadIndexStep(r, from, ctx) = [r EXCEPT !.pendingReads = queue]
        \/ ReadIndexStep(r, from, ctx) = SendMsgReadIndexResponse(r, <<req>>)
    BY DEF ReadIndexStep
  <1>6. QED
    BY <1>2, <1>3, <1>4, <1>5, Zenon

\* sendTimeoutNow.
LEMMA SendTimeoutNowSpeaks ==
  ASSUME NEW r \in NodeType, NEW to \in Server, AllWithin(r)
  PROVE  Speaks(r, SendTimeoutNow(r, to))
  <1> DEFINE m == [type |-> "MsgTimeoutNow", from |-> r.id, to |-> to, Term |-> 0]
             s == [type |-> "MsgTimeoutNow", from |-> r.id, to |-> to, Term |-> r.Term]
  <1>1. Stamped(r, m) = s
    BY StampedHeader
  <1>2. s \in BareMessage /\ s.type = "MsgTimeoutNow"
    BY NodeFields DEF BareMessage
  <1>3. ~WrongTerm(m)
    BY DEF WrongTerm, CampaignMsgs
  <1>4. SendTimeoutNow(r, to) = SendAll(r, {m})
    BY DEF SendTimeoutNow, Send
  <1> HIDE DEF m, s
  <1>5. Stamped(r, m) \in Message /\ Says(r, Stamped(r, m))
    BY <1>1, <1>2 DEF Says, Message, LeaderMsgs, LeaderOut
  <1>6. QED
    BY <1>3, <1>4, <1>5, SendAllSpeaks

\* MsgAppResp with a rejection.
LEMMA AppRejectedStepSpeaks ==
  ASSUME Basis, NEW r \in NodeType, NEW m \in AppRespMessage, m.from # r.id, AllWithin(r)
  PROVE  Speaks(r, AppRejectedStep(r, m))
  <1> DEFINE li == LastIndex(r.log)
             pr == [r.prs[m.from] EXCEPT !.RecentActive = TRUE]
             next == IF m.LogTerm > 0 THEN FindConflictByTerm(r.log, m.RejectHint, m.LogTerm)
                     ELSE m.RejectHint
             decr == MaybeDecrTo(pr, m.Index, next)
             new == IF decr.State = StateReplicate THEN BecomeProbe(decr) ELSE decr
             s == [r EXCEPT !.prs[m.from] = new]
  <1>1. m.from \in Server /\ m.Index \in Nat /\ m.RejectHint \in Nat /\ m.LogTerm \in Nat
    BY DEF AppRespMessage
  <1>2. /\ r.prs[m.from] \in ProgressType /\ li \in Nat
        /\ Within(r.prs[m.from], li) /\ Windowed(r.prs[m.from])
    BY <1>1, NodeFields, LogFields DEF AllWithin
  <1>3. pr \in ProgressType /\ Within(pr, li) /\ Windowed(pr) /\ pr.Match = r.prs[m.from].Match
    BY <1>2, FlagsWithin, FlagsWindowed, Zenon
  <1>4. next \in Nat
    BY <1>1, NodeFields, FindConflictByTermType, Zenon
  <1>5. AppRejectedStep(r, m) = IF ~Decrements(pr, m.Index) THEN [r EXCEPT !.prs[m.from] = pr]
                                ELSE SendAppend(s, m.from)
    BY DEF AppRejectedStep
  <1>6. li = LastIndex(r.log)
    OBVIOUS
  <1> HIDE DEF pr, next, li
  <1>7. decr \in ProgressType /\ Within(decr, li) /\ decr.Match = pr.Match
    BY <1>1, <1>2, <1>3, <1>4, MaybeDecrToType, MaybeDecrToWithin, ZenonT(30)
  <1>8. Windowed(new)
    BY <1>1, <1>3, <1>4, RejectedWindowed
  <1> HIDE DEF decr
  <1>9. new \in ProgressType /\ Within(new, li) /\ new.Match = pr.Match
    BY <1>2, <1>7, BecomeProbeType, BecomeProbeWithin
  <1> HIDE DEF new
  <1>10. Speaks(r, [r EXCEPT !.prs[m.from] = pr])
    BY <1>1, <1>3, <1>6, SetPeerSpeaks
  <1>11. Speaks(r, s) /\ s \in NodeType
    BY <1>1, <1>3, <1>6, <1>9, <1>8, SetPeerSpeaks, Zenon
  <1> HIDE DEF s
  <1>12. s.id = r.id /\ AllWithin(s)
    BY <1>11 DEF Speaks
  <1>13. Speaks(s, SendAppend(s, m.from))
    BY <1>1, <1>11, <1>12, SendAppendSpeaks
  <1>14. QED
    BY <1>5, <1>10, <1>11, <1>13, SpeaksTrans

\* MsgHeartbeatResp.
LEMMA HeartbeatRespStepSpeaks ==
  ASSUME Basis, NEW r \in NodeType, NEW m \in HeartbeatRespMessage, m.from # r.id, AllWithin(r)
  PROVE  Speaks(r, HeartbeatRespStep(r, m))
  <1> DEFINE pr == r.prs[m.from]
             li == LastIndex(r.log)
             freed == IF pr.State = StateReplicate /\ Full(pr.Inflights)
                      THEN FreeFirstOne(pr.Inflights) ELSE pr.Inflights
             new == [pr EXCEPT !.RecentActive = TRUE, !.ProbeSent = FALSE, !.Inflights = freed]
             awake == [r EXCEPT !.prs[m.from] = new]
             sent == IF pr.Match < li THEN SendAppend(awake, m.from) ELSE awake
  <1>1. m.from \in Server
    BY DEF HeartbeatRespMessage
  <1>2. pr \in ProgressType /\ li \in Nat /\ Within(pr, li) /\ Windowed(pr)
    BY <1>1, NodeFields, LogFields DEF AllWithin
  <1>3. HeartbeatRespStep(r, m) = sent \/ HeartbeatRespStep(r, m) = AckRead(sent, m.from, m.Context)
    BY DEF HeartbeatRespStep
  <1>4. pr = r.prs[m.from] /\ li = LastIndex(r.log)
    OBVIOUS
  <1> HIDE DEF pr, li
  <1>5. freed \in Seq(Nat)
    BY <1>2, ProgressFields, FreeLEType DEF FreeFirstOne
  <1> DEFINE x == [pr EXCEPT !.Inflights = freed]
  <1>6. x \in ProgressType
    BY <1>2, <1>5, SetProgress
  <1>7. Windowed(x)
    <2>1. CASE pr.State = StateReplicate /\ Full(pr.Inflights)
      BY <1>2, <2>1, FreeFirstWindowed
    <2>2. CASE ~(pr.State = StateReplicate /\ Full(pr.Inflights))
      <3>1. x = pr
        BY <1>2, <2>2 DEF ProgressType
      <3>2. QED
        BY <1>2, <3>1
    <2>3. QED
      BY <2>1, <2>2
  <1> HIDE DEF freed
  <1>8. /\ new.Inflights = x.Inflights /\ new.State = x.State
        /\ new.Match = x.Match /\ new.Next = x.Next
    BY <1>2 DEF ProgressType
  <1>9. Windowed(new)
    <2> HIDE DEF x, new
    <2>1. x.Next \in Nat /\ x.Next =< x.Next
      BY <1>6, ProgressFields
    <2>2. QED
      BY <1>6, <1>7, <1>8, <2>1, SameWindow
  <1>10. new \in ProgressType
    BY <1>2, <1>5, Zenon DEF ProgressType
  <1>11. Within(new, li) /\ new.Match = pr.Match
    BY <1>2 DEF Within, ProgressType
  <1> HIDE DEF new
  <1>12. Speaks(r, awake) /\ awake \in NodeType
    BY <1>1, <1>4, <1>10, <1>11, <1>9, SetPeerSpeaks, Zenon
  <1> HIDE DEF awake
  <1>13. awake.id = r.id /\ AllWithin(awake)
    BY <1>12 DEF Speaks
  <1>14. Speaks(awake, SendAppend(awake, m.from)) /\ SendAppend(awake, m.from) \in NodeType
    BY <1>1, <1>12, <1>13, SendAppendSpeaks, SendAppendStep DEF LeaderStep, Stays
  <1>15. Speaks(r, sent) /\ sent \in NodeType
    BY <1>12, <1>14, SpeaksTrans
  <1> HIDE DEF sent
  <1>16. AllWithin(sent)
    BY <1>15 DEF Speaks
  <1>17. Speaks(sent, AckRead(sent, m.from, m.Context))
    BY <1>1, <1>15, <1>16, AckReadSpeaks
  <1>18. QED
    BY <1>3, <1>15, <1>17, SpeaksTrans

\* MsgSnapStatus.
LEMMA SnapStatusStepSpeaks ==
  ASSUME NEW r \in NodeType, NEW from \in Server, NEW reject \in BOOLEAN, AllWithin(r)
  PROVE  Speaks(r, SnapStatusStep(r, from, reject))
  <1> DEFINE li == LastIndex(r.log)
             old == r.prs[from]
             pending == IF reject THEN 0 ELSE old.PendingSnapshot
             pr == [old EXCEPT !.PendingSnapshot = pending]
             probe == BecomeProbe(pr)
             new == [probe EXCEPT !.ProbeSent = TRUE]
  <1>1. old \in ProgressType /\ li \in Nat /\ Within(old, li)
    BY NodeFields, LogFields DEF AllWithin
  <1>2. pending \in Nat /\ pending =< li
    BY <1>1, ProgressFields DEF Within
  <1>3. \/ SnapStatusStep(r, from, reject) = r
        \/ SnapStatusStep(r, from, reject) = [r EXCEPT !.prs[from] = new]
    BY DEF SnapStatusStep
  <1>4. old = r.prs[from] /\ li = LastIndex(r.log)
    OBVIOUS
  <1> HIDE DEF pending, old, li
  <1>5. pr \in ProgressType /\ Within(pr, li) /\ pr.Match = old.Match
    <2>1. pr \in ProgressType
      BY <1>1, <1>2, SetProgress
    <2>2. QED
      BY <1>1, <1>2, <2>1 DEF Within, ProgressType
  <1> HIDE DEF pr
  <1>6. probe \in ProgressType /\ Within(probe, li) /\ probe.Match = old.Match
    BY <1>1, <1>5, BecomeProbeType, BecomeProbeWithin
  <1>7. Windowed(probe) /\ probe.Inflights = <<>>
    BY <1>5, BecomeWindowed
  <1> HIDE DEF probe
  <1>8. new \in ProgressType /\ Within(new, li) /\ new.Match = old.Match
    BY <1>1, <1>6, FlagsWithin, Zenon
  <1>9. Windowed(new) /\ new.Inflights = <<>>
    BY <1>6, <1>7, FlagsWindowed, Zenon
  <1> HIDE DEF new
  <1>10. Speaks(r, [r EXCEPT !.prs[from] = new])
    BY <1>4, <1>8, <1>9, SetPeerSpeaks
  <1>11. QED
    BY <1>3, <1>10, SpeaksRefl, Zenon

\* MsgUnreachable.
LEMMA UnreachableStepSpeaks ==
  ASSUME NEW r \in NodeType, NEW from \in Server, AllWithin(r)
  PROVE  Speaks(r, UnreachableStep(r, from))
  <1> DEFINE new == BecomeProbe(r.prs[from])
  <1>1. r.prs[from] \in ProgressType /\ LastIndex(r.log) \in Nat /\ Within(r.prs[from], LastIndex(r.log))
    BY NodeFields, LogFields DEF AllWithin
  <1>2. new \in ProgressType /\ Within(new, LastIndex(r.log)) /\ new.Match = r.prs[from].Match
    BY <1>1, BecomeProbeType, BecomeProbeWithin
  <1>3. Windowed(new) /\ new.Inflights = <<>>
    BY <1>1, BecomeWindowed
  <1>4. UnreachableStep(r, from) = r \/ UnreachableStep(r, from) = [r EXCEPT !.prs[from] = new]
    BY DEF UnreachableStep
  <1> HIDE DEF new
  <1>5. QED
    BY <1>2, <1>4, <1>3, SpeaksRefl, SetPeerSpeaks

\* MsgTransferLeader.
LEMMA TransferLeaderStepSpeaks ==
  ASSUME NEW r \in NodeType, NEW p \in Server, AllWithin(r)
  PROVE  Speaks(r, TransferLeaderStep(r, p))
  <1> DEFINE started == [r EXCEPT !.leadTransferee = p]
  <1>1. Internal(r, started) /\ Speaks(r, started) /\ Speaks(r, AbortLeaderTransfer(r))
    BY SetTransferee, SetReadsSpeaks DEF AbortLeaderTransfer
  <1>2. \/ TransferLeaderStep(r, p) = r
        \/ TransferLeaderStep(r, p) = AbortLeaderTransfer(r)
        \/ p # r.id /\ TransferLeaderStep(r, p) = SendTimeoutNow(started, p)
        \/ p # r.id /\ TransferLeaderStep(r, p) = SendAppend(started, p)
    BY DEF TransferLeaderStep
  <1> HIDE DEF started
  <1>3. started \in NodeType /\ AllWithin(started) /\ started.id = r.id
    BY <1>1 DEF Internal, Stays, Speaks
  <1>4. Speaks(started, SendTimeoutNow(started, p))
    BY <1>3, SendTimeoutNowSpeaks
  <1>5. p # r.id => Speaks(started, SendAppend(started, p))
    BY <1>3, SendAppendSpeaks
  <1>6. QED
    BY <1>1, <1>2, <1>4, <1>5, SpeaksTrans, SpeaksRefl

\* A quorum has acknowledged the index that CommittedIndex returns.
LEMMA CommittedIndexIsAcked ==
  ASSUME Basis, NEW r \in NodeType
  PROVE  Wins({p \in Server : r.prs[p].Match >= CommittedIndex(Voters(r), MatchIndexes(r))})
  <1> DEFINE acked == MatchIndexes(r)
             i == CommittedIndex(Voters(r), acked)
             k == MajorityCommittedIndex(Server, acked)
             P == {p \in Server : AckedIndex(acked, p) >= k}
             Q == {p \in Server : r.prs[p].Match >= i}
  <1>1. \A p \in Server : AckedIndex(acked, p) = r.prs[p].Match /\ r.prs[p].Match \in Nat
    BY NodeFields, ProgressFields DEF MatchIndexes, AckedIndex
  <1>2. Voters(r) = <<Server, {}>> /\ MajorityCommittedIndex({}, acked) = MaxUint64
    BY NodeFields DEF MajorityCommittedIndex
  <1>3. i = MinOf(k, MaxUint64)
    BY <1>2 DEF CommittedIndex
  <1> HIDE DEF acked
  <1>4. k \in Nat /\ Wins(P)
    BY <1>1, Zenon DEF Basis
  <1> HIDE DEF i, k
  <1>5. i \in Nat /\ i =< k
    BY <1>3, <1>4, MaxUint64Assumption, MinMaxNat
  <1>6. P \subseteq Q
    BY <1>1, <1>4, <1>5
  <1> HIDE DEF P
  <1> HIDE DEF Q
  <1>7. Wins(Q)
    BY <1>4, <1>6, WinsMore DEF Wins
  <1>8. QED
    BY <1>7 DEF Q, i, acked

\* maybeCommit leaves everything but the commit index alone.
LEMMA MaybeCommitFields ==
  ASSUME Basis, NEW r \in NodeType
  PROVE  LET s == MaybeCommit(r)
         IN  /\ s \in NodeType /\ s.log.ents = r.log.ents /\ CommitGrows(r, s)
             /\ s.id = r.id /\ s.Term = r.Term /\ s.state = r.state /\ s.panic = r.panic
             /\ s.prs = r.prs /\ s.msgs = r.msgs /\ s.lead = r.lead
  <1> DEFINE i == CommittedIndex(Voters(r), MatchIndexes(r))
             l == LogMaybeCommit(r.log, i, r.Term)
             s == [r EXCEPT !.log = l]
  <1>1. MaybeCommit(r) = s
    BY DEF MaybeCommit
  <1>2. s \in NodeType
    BY <1>1, MaybeCommitStep
  <1>3. r.log \in LogType /\ i \in Nat
    BY NodeFields, CommittedIndexType
  <1>4. Wins({p \in Server : r.prs[p].Match >= i})
    BY CommittedIndexIsAcked
  <1> HIDE DEF i
  <1>5. /\ l.ents = r.log.ents
        /\ \/ l.committed = r.log.committed
           \/ l.committed = i /\ i > r.log.committed /\ r.log.ents[i].Term = r.Term
    <2>1. \/ l = r.log
          \/ /\ l = [r.log EXCEPT !.committed = i]
             /\ i > r.log.committed /\ i =< LastIndex(r.log) /\ TermAt(r.log, i) = r.Term
      BY <1>3, LogFields DEF LogMaybeCommit, CommitTo, Commits, CanCommitTo
    <2> HIDE DEF l
    <2>2. [r.log EXCEPT !.committed = i].ents = r.log.ents /\ [r.log EXCEPT !.committed = i].committed = i
      BY <1>3 DEF LogType
    <2>3. ASSUME i > r.log.committed, i =< LastIndex(r.log), TermAt(r.log, i) = r.Term
          PROVE  r.log.ents[i].Term = r.Term
      BY <1>3, <2>3, LogFields DEF TermAt
    <2>4. QED
      BY <2>1, <2>2, <2>3, Zenon
  <1> HIDE DEF l
  <1>6. /\ s.id = r.id /\ s.Term = r.Term /\ s.state = r.state /\ s.panic = r.panic
        /\ s.prs = r.prs /\ s.msgs = r.msgs /\ s.lead = r.lead /\ s.log = l
    BY DEF NodeType
  <1> HIDE DEF s
  <1>7. CommitGrows(r, s)
    BY <1>4, <1>5, <1>6, Zenon DEF CommitGrows
  <1>8. QED
    BY <1>1, <1>2, <1>5, <1>6, <1>7

\* An entry behind the last one.
LEMMA AppendAtEnd ==
  ASSUME NEW l \in LogType, NEW e \in Entry
  PROVE  LET a == LogAppend(l, LastIndex(l), <<e>>)
         IN  /\ a \in LogType /\ a.ents = Append(l.ents, e) /\ a.committed = l.committed
             /\ LastIndex(a) = LastIndex(l) + 1
  <1> DEFINE a == LogAppend(l, LastIndex(l), <<e>>)
  <1>1. l.ents \in Seq(Entry) /\ LastIndex(l) \in Nat /\ LastIndex(l) = Len(l.ents)
        /\ LastIndex(l) \in l.committed..LastIndex(l)
    BY LogFields
  <1>2. <<e>> \in Seq(Entry) /\ Len(<<e>>) = 1
    OBVIOUS
  <1>3. a \in LogType /\ LastIndex(a) = LastIndex(l) + 1 /\ a.committed = l.committed
    <2> DEFINE x == <<e>>
    <2>1. x \in Seq(Entry) /\ Len(x) = 1
      BY <1>2
    <2> HIDE DEF x
    <2>2. /\ LogAppend(l, LastIndex(l), x) \in LogType
          /\ LastIndex(LogAppend(l, LastIndex(l), x)) = LastIndex(l) + Len(x)
          /\ LogAppend(l, LastIndex(l), x).committed = l.committed
      BY <1>1, <2>1, LogAppendType, Zenon
    <2>3. QED
      BY <2>1, <2>2 DEF x
  <1>4. a.ents = SubSeq(l.ents, 1, LastIndex(l)) \o <<e>>
    BY ZenonT(30) DEF LogAppend, LogType
  <1>5. SubSeq(l.ents, 1, LastIndex(l)) = l.ents
    BY <1>1
  <1>6. l.ents \o <<e>> = Append(l.ents, e)
    BY <1>1
  <1>7. QED
    BY <1>3, <1>4, <1>5, <1>6, Zenon

\* appendEntry: one entry of the term, and perhaps a commit.
LEMMA AppendEntryFields ==
  ASSUME Basis, NEW r \in NodeType, NEW data \in Value \cup {NilData, ConfChangeData}, AllWithin(r)
  PROVE  LET s == AppendEntry(r, data)
         IN  /\ s \in NodeType /\ Appends(r, s) /\ CommitGrows(r, s) /\ AllWithin(s)
             /\ s.id = r.id /\ s.Term = r.Term /\ s.state = r.state /\ s.panic = r.panic
             /\ s.msgs = r.msgs /\ s.lead = r.lead
             /\ \A p \in Server : p # r.id => s.prs[p].Match = r.prs[p].Match
  <1> DEFINE li == LastIndex(r.log)
             e == [Term |-> r.Term, Data |-> data]
             l == LogAppend(r.log, li, <<e>>)
             pr == MaybeUpdate(r.prs[r.id], li + 1)
             prs == [r.prs EXCEPT ![r.id] = pr]
             b == [r EXCEPT !.log = l, !.prs = prs]
  <1>1. r.log \in LogType /\ li \in Nat /\ li = LastIndex(r.log) /\ r.id \in Server
    BY NodeFields, LogFields
  <1>2. e \in Entry /\ e.Term = r.Term
    BY NodeFields DEF Entry
  <1>3. l \in LogType /\ l.ents = Append(r.log.ents, e) /\ l.committed = r.log.committed
        /\ LastIndex(l) = li + 1
    <2> HIDE DEF e
    <2>1. QED
      BY <1>1, <1>2, AppendAtEnd, Zenon
  <1>4. AppendEntry(r, data) = MaybeCommit(b)
    <2>1. AppendEntry(r, data) = MaybeCommit([r EXCEPT !.log = l, !.prs[r.id] = pr])
      BY DEF AppendEntry
    <2> HIDE DEF l, pr
    <2>2. [r EXCEPT !.log = l, !.prs[r.id] = pr] = b
      BY DEF NodeType
    <2>3. QED
      BY <2>1, <2>2
  <1> HIDE DEF l, e, li
  <1>5. \A p \in Server : r.prs[p] \in ProgressType /\ Within(r.prs[p], li + 1)
    BY <1>1, NodeFields, ProgressFields DEF AllWithin, Within
  <1>6. pr \in ProgressType /\ Within(pr, li + 1)
    BY <1>1, <1>5, MaybeUpdateType, MaybeUpdateWithin
  <1>7. Windowed(pr) /\ pr.Inflights = <<>>
    <2>1. Windowed(r.prs[r.id]) /\ r.prs[r.id].Inflights = <<>> /\ li + 1 \in Nat
      BY <1>1 DEF AllWithin
    <2>2. QED
      BY <1>1, <1>5, <2>1, MaybeUpdateWindowed
  <1> HIDE DEF pr
  <1>8. prs \in [Server -> ProgressType]
    BY <1>6, NodeFields
  <1>9. \A p \in Server : Within(prs[p], li + 1) /\ (p # r.id => prs[p] = r.prs[p])
    BY <1>5, <1>6, NodeFields
  <1>10. (\A p \in Server : Windowed(prs[p])) /\ prs[r.id].Inflights = <<>>
    BY <1>1, <1>7, NodeFields DEF AllWithin
  <1> HIDE DEF prs
  <1>11. b \in NodeType
    BY <1>3, <1>8, Zenon DEF NodeType
  <1>12. /\ b.log = l /\ b.prs = prs /\ b.id = r.id /\ b.Term = r.Term /\ b.state = r.state
         /\ b.panic = r.panic /\ b.msgs = r.msgs /\ b.lead = r.lead
    BY DEF NodeType
  <1> HIDE DEF b
  <1> DEFINE s == MaybeCommit(b)
  <1>13. /\ s \in NodeType /\ s.log.ents = b.log.ents /\ CommitGrows(b, s)
         /\ s.id = b.id /\ s.Term = b.Term /\ s.state = b.state /\ s.panic = b.panic
         /\ s.prs = b.prs /\ s.msgs = b.msgs /\ s.lead = b.lead
    BY <1>11, MaybeCommitFields
  <1> HIDE DEF s
  <1>14. Appends(r, s)
    BY <1>2, <1>3, <1>12, <1>13 DEF Appends
  <1>15. CommitGrows(r, s)
    BY <1>3, <1>12, <1>13, ZenonT(30) DEF CommitGrows
  <1>16. AllWithin(s)
    <2>1. LastIndex(s.log) = li + 1
      BY <1>3, <1>12, <1>13 DEF LastIndex
    <2>2. QED
      BY <1>9, <1>12, <1>13, <1>10, <2>1, Zenon DEF AllWithin
  <1>17. s = AppendEntry(r, data)
    BY <1>4 DEF s
  <1>18. QED
    BY <1>9, <1>12, <1>13, <1>14, <1>15, <1>16, <1>17, Zenon

\* becomeLeader forgets what its peers had, and appends an empty entry.
LEMMA BecomeLeaderLog ==
  ASSUME Basis, NEW r \in NodeType
  PROVE  LET s == BecomeLeader(r)
         IN  /\ Appends(r, s) /\ CommitGrows(r, s) /\ AllWithin(s)
             /\ s.panic = r.panic /\ s.lead = r.id
             /\ \A p \in Server : p # r.id => s.prs[p].Match = 0
  <1> DEFINE li == LastIndex(r.log)
             base == NewProgress(li + 1)
             match(p) == IF p = r.id THEN li ELSE 0
             b == Reset(r, r.Term)
             prs == ResetProgress(r)
             c == [b EXCEPT !.lead = r.id, !.state = StateLeader]
             own == BecomeReplicate(prs[r.id])
             d == [c EXCEPT !.prs[r.id] = own]
  <1>1. li \in Nat /\ r.id \in Server /\ DOMAIN r.prs = Server /\ r.log \in LogType
    BY NodeFields, LogFields
  <1>2. \A p \in Server : prs[p] = [base EXCEPT !.Match = match(p)]
    BY <1>1 DEF ResetProgress
  <1>3. \A p \in Server : prs[p] \in ProgressType
    BY ResetProgressType
  <1>4. \A p \in Server : /\ Within(prs[p], li) /\ Windowed(prs[p])
                          /\ p # r.id => prs[p].Match = 0
    <2>1. \A p \in Server : match(p) \in Nat /\ match(p) =< li /\ (p # r.id => match(p) = 0)
      BY <1>1
    <2> HIDE DEF li, match
    <2>2. /\ DOMAIN base = {"Match", "Next", "State", "PendingSnapshot", "RecentActive", "ProbeSent", "Inflights"}
          /\ base.Next = li + 1 /\ base.PendingSnapshot = 0
          /\ base.State = StateProbe /\ base.Inflights = <<>>
      BY DEF NewProgress
    <2> HIDE DEF base
    <2>3. \A x : [base EXCEPT !.Match = x].Match = x /\ [base EXCEPT !.Match = x].Next = li + 1
                 /\ [base EXCEPT !.Match = x].PendingSnapshot = 0
                 /\ [base EXCEPT !.Match = x].State = StateProbe
                 /\ [base EXCEPT !.Match = x].Inflights = <<>>
      BY <2>2
    <2>4. li \in Nat
      BY <1>1 DEF li
    <2> SUFFICES ASSUME NEW p \in Server
                 PROVE  /\ Within(prs[p], li) /\ Windowed(prs[p])
                        /\ p # r.id => prs[p].Match = 0
      OBVIOUS
    <2> DEFINE x == match(p)
               pr == prs[p]
    <2>5. pr = [base EXCEPT !.Match = x]
      BY <1>2, Zenon
    <2>6. x \in Nat /\ x =< li /\ (p # r.id => x = 0)
      BY <2>1, Zenon
    <2> HIDE DEF x, pr
    <2>7. /\ pr.Match = x /\ pr.Next = li + 1 /\ pr.PendingSnapshot = 0
          /\ pr.State = StateProbe /\ pr.Inflights = <<>>
      BY <2>3, <2>5
    <2>8. Within(pr, li)
      BY <2>4, <2>6, <2>7 DEF Within
    <2>9. Windowed(pr)
      BY <2>7, EmptyWindow DEF StateProbe, StateReplicate
    <2>10. QED
      BY <2>6, <2>7, <2>8, <2>9 DEF pr
  <1>5. b \in NodeType /\ b.id = r.id /\ b.Term = r.Term /\ b.log = r.log
    BY NodeFields, ResetFields
  <1>6. b.prs = prs /\ b.panic = r.panic
    BY DEF Reset, NodeType
  <1>7. BecomeLeader(r) = AppendEntry([b EXCEPT !.lead = r.id, !.state = StateLeader,
                                                !.prs[r.id] = BecomeReplicate(@)], NilData)
    BY DEF BecomeLeader
  <1> HIDE DEF prs, b
  <1>8. own \in ProgressType /\ Within(own, li) /\ Windowed(own) /\ own.Inflights = <<>>
    <2>1. prs[r.id] \in ProgressType /\ Within(prs[r.id], li)
      BY <1>1, <1>3, <1>4
    <2>2. QED
      BY <1>1, <2>1, BecomeReplicateType, BecomeReplicateWithin, BecomeWindowed, Zenon
  <1>9. [b EXCEPT !.lead = r.id, !.state = StateLeader, !.prs[r.id] = BecomeReplicate(@)] = d
    <2>1. r.id \in DOMAIN b.prs
      BY <1>1, <1>5, NodeFields
    <2>2. QED
      BY <1>5, <1>6, <2>1, Zenon DEF NodeType
  <1> HIDE DEF own
  <1>10. c \in NodeType
    BY <1>1, <1>5, ZenonT(30) DEF NodeType
  <1>11. c.id = r.id /\ c.Term = r.Term /\ c.log = r.log /\ c.panic = r.panic /\ c.lead = r.id /\ c.prs = prs
    BY <1>5, <1>6 DEF NodeType
  <1> HIDE DEF c
  <1>12. d \in NodeType
    BY <1>1, <1>8, <1>10, SetPeer
  <1>13. /\ d.id = r.id /\ d.Term = r.Term /\ d.log = r.log /\ d.panic = r.panic /\ d.lead = r.id
         /\ \A p \in Server : d.prs[p] = IF p = r.id THEN own ELSE prs[p]
    BY <1>1, <1>10, <1>11, Zenon DEF NodeType
  <1> HIDE DEF d
  <1>14. AllWithin(d)
    <2>1. \A p \in Server : Within(d.prs[p], li) /\ Windowed(d.prs[p])
      BY <1>4, <1>8, <1>13
    <2>2. d.prs[d.id].Inflights = <<>> /\ li = LastIndex(d.log)
      BY <1>1, <1>8, <1>13, Zenon
    <2>3. QED
      BY <2>1, <2>2 DEF AllWithin
  <1> DEFINE s == AppendEntry(d, NilData)
  <1>15. /\ Appends(d, s) /\ CommitGrows(d, s) /\ AllWithin(s) /\ s.Term = d.Term
         /\ s.panic = d.panic /\ s.lead = d.lead
         /\ \A p \in Server : p # d.id => s.prs[p].Match = d.prs[p].Match
    BY <1>12, <1>14, AppendEntryFields
  <1>16. s = BecomeLeader(r)
    BY <1>7, <1>9
  <1> HIDE DEF s
  <1>17. Appends(r, s) /\ CommitGrows(r, s)
    BY <1>13, <1>15, ZenonT(30) DEF Appends, CommitGrows
  <1>18. \A p \in Server : p # r.id => s.prs[p].Match = 0
    <2>1. \A p \in Server : p # r.id => prs[p].Match = 0
      BY <1>4, Zenon
    <2>2. QED
      BY <1>13, <1>15, <2>1
  <1>19. QED
    BY <1>13, <1>15, <1>16, <1>17, <1>18

----------------------------------------------------------------------------
(* A leader at work.                                                       *)

\* What a step of a leader that stays one does.
LeaderWork(r, s, G) ==
  /\ s.panic = r.panic /\ s.lead = r.lead /\ AllWithin(s)
  /\ CommitGrows(r, s) /\ (Appends(r, s) \/ s.log.ents = r.log.ents)
  /\ \A p \in Server :
       \/ p = s.id
       \/ s.prs[p].Match = r.prs[p].Match
       \/ \E o \in G : IsAck(o) /\ o.from = p /\ o.Term = s.Term /\ o.Index = s.prs[p].Match
  /\ \A m \in s.msgs : m \in r.msgs \/ Says(s, m)

\* Such a step is within the contract.
LEMMA WorkReplicates ==
  ASSUME NEW r, NEW s, NEW G, r.state = StateLeader, LeaderStep(r, s), LeaderWork(r, s, G)
  PROVE  Replicates(r, s, G)
  <1>1. s.state = StateLeader /\ s.Term = r.Term /\ LedBefore(r, s)
    BY DEF LeaderStep, Stays, LedBefore
  <1>2. RolesFair(r, s)
    BY <1>1, Zenon DEF RolesFair, StateLeader, StateCandidate
  <1>3. LogFair(r, s, G) /\ MatchFair(r, s, G)
    BY <1>1, Zenon DEF LogFair, MatchFair, LeaderWork
  <1>4. PanicFair(r, s, G) /\ LeadFair(r, s, G)
    BY <1>1, Zenon DEF PanicFair, LeadFair, LeaderWork
  <1>5. \A m : Says(s, m) => SentFair(r, s, G, m)
    BY DEF Says, SentFair, LeaderOut, LeaderMsgs, IsAck, IsGrant, Responses
  <1>6. QED
    BY <1>2, <1>3, <1>4, <1>5, Zenon DEF Replicates, LeaderWork

\* A step that only speaks is one, on its own or after another.
LEMMA SpeaksWork ==
  ASSUME NEW r, NEW s, NEW G
  PROVE  /\ Speaks(r, s) => LeaderWork(r, s, G)
         /\ \A a : LeaderWork(r, a, G) /\ Speaks(a, s) /\ s.Term = a.Term => LeaderWork(r, s, G)
  <1>1. Speaks(r, s) => LeaderWork(r, s, G)
    BY DEF Speaks, LeaderWork, CommitGrows
  <1>2. ASSUME NEW a, LeaderWork(r, a, G), Speaks(a, s), s.Term = a.Term
        PROVE  LeaderWork(r, s, G)
    <2>1. /\ s.id = a.id /\ s.log = a.log /\ s.panic = a.panic /\ s.lead = a.lead /\ AllWithin(s)
          /\ \A p \in Server : s.prs[p].Match = a.prs[p].Match
      BY <1>2 DEF Speaks
    <2>2. {p \in Server : s.prs[p].Match >= s.log.committed}
            = {p \in Server : a.prs[p].Match >= a.log.committed}
      BY <2>1
    <2>3. CommitGrows(r, s)
      BY <1>2, <2>1, <2>2, Zenon DEF CommitGrows, LeaderWork
    <2>4. Appends(r, s) \/ s.log.ents = r.log.ents
      BY <1>2, <2>1, ZenonT(30) DEF Appends, LeaderWork
    <2>5. \A m : Says(a, m) => Says(s, m)
      BY <2>1 DEF Says
    <2>6. \A m \in s.msgs : m \in r.msgs \/ Says(s, m)
      BY <1>2, <2>5 DEF Speaks, LeaderWork
    <2>7. QED
      BY <1>2, <2>1, <2>3, <2>4, <2>6 DEF LeaderWork
  <1>3. QED
    BY <1>1, <1>2

\* MsgProp.
LEMMA ProposeStepWork ==
  ASSUME Basis, NEW r \in NodeType, NEW data \in Value, NEW G, AllWithin(r)
  PROVE  LeaderWork(r, ProposeStep(r, data), G)
  <1> DEFINE a == AppendEntry(r, data)
             s == BcastAppend(a)
  <1>1. /\ a \in NodeType /\ Appends(r, a) /\ CommitGrows(r, a) /\ AllWithin(a)
        /\ a.id = r.id /\ a.Term = r.Term /\ a.state = r.state /\ a.panic = r.panic
        /\ a.msgs = r.msgs /\ a.lead = r.lead
        /\ \A p \in Server : p # r.id => a.prs[p].Match = r.prs[p].Match
    BY AppendEntryFields
  <1>2. ProposeStep(r, data) = r \/ ProposeStep(r, data) = s
    BY DEF ProposeStep
  <1> HIDE DEF a
  <1>3. LeaderWork(r, a, G)
    BY <1>1 DEF LeaderWork
  <1>4. Speaks(a, s) /\ s.Term = a.Term
    BY <1>1, BcastAppendSpeaks, BcastAppendStep DEF LeaderStep, Stays
  <1>5. QED
    BY <1>2, <1>3, <1>4, SpeaksWork, SpeaksRefl, Zenon

\* What an acknowledgement that is news makes of a progress.
LEMMA AcknowledgedWithin ==
  ASSUME Basis, NEW pr \in ProgressType, NEW last \in Nat, Within(pr, last), NEW n \in Nat, n =< last,
         Updates(pr, n)
  PROVE  Within(Acknowledged(pr, n), last) /\ Acknowledged(pr, n).Match = n
  <1> DEFINE up == MaybeUpdate(pr, n)
             probe == BecomeProbe(up)
             window == FreeLE(up.Inflights, n)
  <1>1. up \in ProgressType /\ Within(up, last) /\ up.Match = n
    BY MaybeUpdateType, MaybeUpdateWithin
  <1>2. \/ Acknowledged(pr, n) = BecomeReplicate(up)
        \/ Acknowledged(pr, n) = BecomeReplicate(probe)
        \/ Acknowledged(pr, n) = up
        \/ Acknowledged(pr, n) = [up EXCEPT !.Inflights = window]
    BY DEF Acknowledged
  <1> HIDE DEF up
  <1>3. window \in Seq(Nat)
    BY <1>1, ProgressFields, FreeLEType
  <1>4. probe \in ProgressType /\ Within(probe, last) /\ probe.Match = n
    BY <1>1, BecomeProbeType, BecomeProbeWithin
  <1> HIDE DEF window, probe
  <1>5. QED
    BY <1>1, <1>2, <1>3, <1>4, BecomeReplicateWithin, WindowWithin, ZenonT(30)

\* MsgAppResp with an acknowledgement.
LEMMA AppAcceptedStepWork ==
  ASSUME Basis, NEW r \in NodeType, NEW m \in AppRespMessage, NEW G, m \in G, IsAck(m), AllWithin(r),
         m.from # r.id, m.Term = r.Term, m.Index =< LastIndex(r.log)
  PROVE  LeaderWork(r, AppAcceptedStep(r, m), G)
  <1> DEFINE li == LastIndex(r.log)
             pr == [r.prs[m.from] EXCEPT !.RecentActive = TRUE]
             new == Acknowledged(pr, m.Index)
             acked == [r EXCEPT !.prs[m.from] = new]
             commit == MaybeCommit(acked)
             release == ReleasePendingReadIndexMessages(commit)
             sent == IF CanCommit(acked) THEN BcastAppend(release)
                     ELSE IF IsPaused(pr) THEN SendAppend(acked, m.from)
                     ELSE acked
             drained == DrainAppends(sent, m.from)
             old == MaybeUpdate(pr, m.Index)
  <1>1. m.from \in Server /\ m.Index \in Nat /\ li \in Nat /\ li = LastIndex(r.log)
    BY NodeFields, LogFields DEF AppRespMessage
  <1>2. pr \in ProgressType /\ Within(pr, li) /\ Windowed(pr) /\ pr.Match = r.prs[m.from].Match
    <2>1. r.prs[m.from] \in ProgressType /\ Within(r.prs[m.from], li) /\ Windowed(r.prs[m.from])
      BY <1>1, NodeFields DEF AllWithin
    <2>2. QED
      BY <1>1, <2>1, FlagsWithin, FlagsWindowed, ZenonT(30)
  <1>3. IF ~Updates(pr, m.Index) THEN AppAcceptedStep(r, m) = [r EXCEPT !.prs[m.from] = old]
        ELSE AppAcceptedStep(r, m) \in {drained, SendTimeoutNow(drained, m.from)}
    BY DEF AppAcceptedStep
  <1> HIDE DEF pr, li
  <1>4. CASE ~Updates(pr, m.Index)
    <2>1. old \in ProgressType /\ Within(old, li) /\ Windowed(old) /\ old.Match = pr.Match
      BY <1>1, <1>2, <1>4, MaybeUpdateType, MaybeUpdateWithin, MaybeUpdateWindowed
    <2> HIDE DEF old
    <2>2. Speaks(r, [r EXCEPT !.prs[m.from] = old])
      BY <1>1, <1>2, <2>1, SetPeerSpeaks
    <2>3. QED
      BY <1>3, <1>4, <2>2, SpeaksWork
  <1>5. CASE Updates(pr, m.Index)
    <2>1. new \in ProgressType /\ Within(new, li) /\ Windowed(new) /\ new.Match = m.Index
      BY <1>1, <1>2, <1>5, AcknowledgedType, AcknowledgedWithin, AcknowledgedWindowed
    <2> HIDE DEF new
    <2>2. acked \in NodeType
      BY <1>1, <2>1, SetPeer
    <2>3. /\ acked.id = r.id /\ acked.Term = r.Term /\ acked.log = r.log /\ acked.panic = r.panic
          /\ acked.lead = r.lead /\ acked.msgs = r.msgs
          /\ \A p \in Server : acked.prs[p] = IF p = m.from THEN new ELSE r.prs[p]
      BY <1>1, NodeFields DEF NodeType
    <2> HIDE DEF acked
    <2>4. AllWithin(acked)
      <3>1. \A p \in Server : Within(acked.prs[p], li) /\ Windowed(acked.prs[p])
        BY <1>1, <2>1, <2>3 DEF AllWithin
      <3>2. acked.prs[acked.id].Inflights = <<>> /\ li = LastIndex(acked.log)
        BY <1>1, <2>3, NodeFields DEF AllWithin
      <3>3. QED
        BY <3>1, <3>2 DEF AllWithin
    <2>5. LeaderWork(r, acked, G)
      BY <2>1, <2>3, <2>4 DEF LeaderWork, CommitGrows
    <2>6. /\ commit \in NodeType /\ commit.log.ents = acked.log.ents /\ CommitGrows(acked, commit)
          /\ commit.id = acked.id /\ commit.Term = acked.Term /\ commit.panic = acked.panic
          /\ commit.prs = acked.prs /\ commit.msgs = acked.msgs /\ commit.lead = acked.lead
      BY <2>2, MaybeCommitFields
    <2> HIDE DEF commit
    <2>7. AllWithin(commit)
      BY <2>4, <2>6 DEF AllWithin, LastIndex
    <2>8. LeaderWork(r, commit, G)
      <3>1. commit.log.ents = r.log.ents /\ CommitGrows(r, commit)
        BY <2>3, <2>6 DEF CommitGrows
      <3>2. /\ commit.panic = r.panic /\ commit.lead = r.lead /\ commit.id = r.id
            /\ commit.Term = r.Term /\ commit.msgs = r.msgs
        BY <2>3, <2>6
      <3>3. \A p \in Server : commit.prs[p] = IF p = m.from THEN new ELSE r.prs[p]
        BY <2>3, <2>6
      <3>4. QED
        BY <1>1, <2>1, <2>7, <3>1, <3>2, <3>3 DEF LeaderWork
    <2>9. /\ LeaderStep(commit, release) /\ Speaks(commit, release)
      BY <2>6, <2>7, ReleasePendingStep, ReleasePendingSpeaks, Zenon
    <2> HIDE DEF release
    <2>10. release \in NodeType /\ release.id = r.id /\ release.Term = r.Term /\ AllWithin(release)
      BY <2>3, <2>6, <2>9 DEF LeaderStep, Stays, Speaks
    <2>11. /\ LeaderStep(release, BcastAppend(release)) /\ Speaks(release, BcastAppend(release))
      BY <2>10, BcastAppendStep, BcastAppendSpeaks
    <2>12. LeaderWork(r, BcastAppend(release), G) /\ LeaderStep(commit, BcastAppend(release))
      <3>1. Speaks(commit, BcastAppend(release)) /\ LeaderStep(commit, BcastAppend(release))
        BY <2>9, <2>11, SpeaksTrans, StepTrans
      <3>2. BcastAppend(release).Term = commit.Term
        BY <3>1 DEF LeaderStep, Stays
      <3>3. QED
        BY <2>8, <3>1, <3>2, SpeaksWork
    <2>13. /\ LeaderStep(acked, SendAppend(acked, m.from)) /\ Speaks(acked, SendAppend(acked, m.from))
      BY <1>1, <2>2, <2>3, <2>4, SendAppendStep, SendAppendSpeaks, Zenon
    <2>14. LeaderWork(r, SendAppend(acked, m.from), G)
      BY <2>5, <2>13, SpeaksWork DEF LeaderStep, Stays
    <2>15. sent \in NodeType /\ sent.id = r.id /\ sent.Term = r.Term /\ LeaderWork(r, sent, G)
      <3>1. sent \in {BcastAppend(release), SendAppend(acked, m.from), acked}
        BY DEF commit, release
      <3> HIDE DEF sent
      <3>2. QED
        BY <2>2, <2>3, <2>5, <2>6, <2>12, <2>13, <2>14, <3>1, ZenonT(30) DEF LeaderStep, Stays
    <2> HIDE DEF sent
    <2>16. AllWithin(sent)
      BY <2>15 DEF LeaderWork
    <2>17. LeaderStep(sent, drained) /\ Speaks(sent, drained)
      BY <1>1, <2>15, <2>16, DrainAppendsStep, DrainAppendsSpeaks, Zenon
    <2> HIDE DEF drained
    <2>18. drained \in NodeType /\ drained.Term = sent.Term /\ AllWithin(drained)
      BY <2>17 DEF LeaderStep, Stays, Speaks
    <2>19. /\ LeaderStep(drained, SendTimeoutNow(drained, m.from))
           /\ Speaks(drained, SendTimeoutNow(drained, m.from))
      BY <1>1, <2>18, SendTimeoutNowStep, SendTimeoutNowSpeaks, Zenon
    <2>20. LeaderWork(r, drained, G)
      BY <2>15, <2>17, <2>18, SpeaksWork, Zenon
    <2>21. LeaderWork(r, SendTimeoutNow(drained, m.from), G)
      BY <2>19, <2>20, SpeaksWork, Zenon DEF LeaderStep, Stays
    <2>22. QED
      BY <1>3, <1>5, <2>20, <2>21
  <1>6. QED
    BY <1>4, <1>5

\* stepLeader as a whole.
LEMMA StepLeaderReplicates ==
  ASSUME Basis, NEW r \in NodeType, NEW m \in Message, NEW G, r.state = StateLeader, m.to = r.id,
         m \in G \/ m.Term = 0, Current(r, m), Sound(r, G)
  PROVE  Replicates(r, StepLeader(r, m), G)
  <1> SUFFICES LeaderWork(r, StepLeader(r, m), G)
    BY StepLeaderStep, WorkReplicates, Zenon
  <1>1. m.from \in Server /\ DOMAIN r.prs = Server /\ AllWithin(r)
    BY MessageKinds, NodeFields DEF Sound
  <1>2. CASE m.type = "MsgProp"
    <2>1. m.Data \in Value
      BY <1>2, MessageKinds DEF PropMessage
    <2>2. StepLeader(r, m) = ProposeStep(r, m.Data)
      BY <1>1, <1>2 DEF StepLeader
    <2>3. QED
      BY <1>1, <2>1, <2>2, ProposeStepWork
  <1>3. CASE m.type = "MsgReadIndex"
    <2>1. m.Context \in ReadCtx
      BY <1>3, MessageKinds DEF ReadIndexMessage
    <2>2. StepLeader(r, m) = ReadIndexStep(r, m.from, m.Context)
      BY <1>1, <1>3 DEF StepLeader
    <2>3. QED
      BY <1>1, <2>1, <2>2, ReadIndexStepSpeaks, SpeaksWork
  <1>4. CASE m.type = "MsgAppResp"
    <2>1. StepLeader(r, m) = AppRespStep(r, m)
      BY <1>1, <1>4 DEF StepLeader
    <2>2. m \in AppRespMessage /\ m.Term \in Terms
      BY <1>4, MessageKinds
    <2>3. m \in G /\ m.Term = r.Term /\ m.from # r.id
      BY <1>4, <2>2 DEF Terms, Current, KeepsTerm, Sound, Responses
    <2>4. CASE m.Reject
      BY <1>1, <2>1, <2>2, <2>3, <2>4, AppRejectedStepSpeaks, SpeaksWork DEF AppRespStep
    <2>5. CASE ~m.Reject
      <3>1. IsAck(m)
        BY <1>4, <2>5 DEF IsAck
      <3>2. m.Index =< LastIndex(r.log)
        BY <2>3, <3>1 DEF Sound, LedBefore
      <3>3. StepLeader(r, m) = AppAcceptedStep(r, m)
        BY <2>1, <2>5 DEF AppRespStep
      <3>4. QED
        BY <1>1, <2>2, <2>3, <3>1, <3>2, <3>3, AppAcceptedStepWork
    <2>6. QED
      BY <2>4, <2>5
  <1>5. CASE m.type = "MsgHeartbeatResp"
    <2>1. StepLeader(r, m) = HeartbeatRespStep(r, m)
      BY <1>1, <1>5 DEF StepLeader
    <2>2. m \in HeartbeatRespMessage /\ m.Term \in Terms
      BY <1>5, MessageKinds
    <2>3. m \in G /\ m.from # r.id
      BY <1>5, <2>2 DEF Terms, Sound, Responses
    <2>4. QED
      BY <1>1, <2>1, <2>2, <2>3, HeartbeatRespStepSpeaks, SpeaksWork
  <1>6. CASE m.type = "MsgTransferLeader"
    <2>1. StepLeader(r, m) = TransferLeaderStep(r, m.from)
      BY <1>1, <1>6 DEF StepLeader
    <2>2. QED
      BY <1>1, <2>1, TransferLeaderStepSpeaks, SpeaksWork
  <1>7. CASE m.type \notin {"MsgProp", "MsgReadIndex", "MsgAppResp", "MsgHeartbeatResp",
                            "MsgTransferLeader"}
    <2>1. StepLeader(r, m) = r
      BY <1>1, <1>7 DEF StepLeader
    <2>2. QED
      BY <1>1, <2>1, SpeaksRefl, SpeaksWork
  <1>8. QED
    BY <1>2, <1>3, <1>4, <1>5, <1>6, <1>7, Zenon

----------------------------------------------------------------------------
(* A node that first becomes or stays a follower or a pre-candidate.       *)

Enters(r, t, G) ==
  /\ t.state \in {StateFollower, StatePreCandidate} /\ t.id = r.id /\ t.Term >= r.Term /\ t.log = r.log
  /\ t.msgs = r.msgs /\ t.panic = r.panic /\ LeadFair(r, t, G)

\* That is within the contract,
LEMMA EntersReplicates ==
  ASSUME NEW r, NEW t, NEW G, Enters(r, t, G)
  PROVE  Replicates(r, t, G)
  BY ZenonT(30) DEF Enters, Replicates, RolesFair, LogFair, MatchFair, PanicFair, Kept,
     StateFollower,
         StatePreCandidate, StateCandidate, StateLeader

\* and so is a call that does it before anything else.
LEMMA EntersThen ==
  ASSUME NEW r \in NodeType, NEW t \in NodeType, NEW s \in NodeType, NEW G, Enters(r, t, G),
         Replicates(t, s, G), s.id = t.id, s.Term >= t.Term
  PROVE  Replicates(r, s, G)
  <1>1. /\ t.state \in {StateFollower, StatePreCandidate} /\ t.id = r.id /\ t.Term >= r.Term /\ t.log = r.log
        /\ t.msgs = r.msgs /\ t.panic = r.panic /\ LeadFair(r, t, G)
    BY DEF Enters
  <1>2. r.Term \in Nat /\ t.Term \in Nat /\ s.Term \in Nat
    BY NodeFields, Zenon
  <1>3. /\ RolesFair(t, s) /\ LogFair(t, s, G) /\ MatchFair(t, s, G)
        /\ \A m \in s.msgs : m \in t.msgs \/ SentFair(t, s, G, m)
        /\ PanicFair(t, s, G) /\ LeadFair(t, s, G)
    BY DEF Replicates
  <1>4. RolesFair(r, s)
    <2>1. t.state \notin {StateCandidate, StateLeader} /\ Kept(t, s) = Kept(r, s)
      BY <1>1 DEF Kept, StateFollower, StatePreCandidate, StateCandidate, StateLeader
    <2>2. s.Term > t.Term => s.Term > r.Term
      BY <1>1, <1>2
    <2>3. RolesFair(t, s)
      BY <1>3
    <2>4. QED
      BY <2>1, <2>2, <2>3, Zenon DEF RolesFair
  <1>5. /\ \A o : Merges(t, s, o) = Merges(r, s, o) /\ Beats(t, s, o) = Beats(r, s, o)
                  /\ Installs(t, s, o) = Installs(r, s, o)
        /\ Kept(t, s) = Kept(r, s) /\ Appends(t, s) = Appends(r, s)
        /\ CommitGrows(t, s) = CommitGrows(r, s) /\ ~LedBefore(t, s)
    BY <1>1, ZenonT(30) DEF Merges, Beats, Installs, Kept, Appends, CommitGrows, LedBefore,
       StateFollower,
                StatePreCandidate, StateLeader
  <1>6. LogFair(r, s, G)
    BY <1>3, <1>5, ZenonT(30) DEF LogFair
  <1>7. MatchFair(r, s, G)
    BY <1>3, <1>5, ZenonT(30) DEF MatchFair
  <1>8. \A m \in s.msgs : m \in r.msgs \/ SentFair(r, s, G, m)
    <2>1. \A i : AckFair(t, s, G, i) => AckFair(r, s, G, i)
      BY <1>5, ZenonT(30) DEF AckFair
    <2>2. \A m : SentFair(t, s, G, m) => SentFair(r, s, G, m)
      BY <2>1, ZenonT(30) DEF SentFair
    <2>3. QED
      BY <1>1, <1>3, <2>2, ZenonT(30)
  <1>9. PanicFair(r, s, G)
    BY <1>1, <1>3, ZenonT(30) DEF PanicFair
  <1>10. LeadFair(r, s, G)
    BY <1>1, <1>3, ZenonT(30) DEF LeadFair, Heard, StateFollower, StatePreCandidate, StateLeader
  <1>11. QED
    BY <1>4, <1>6, <1>7, <1>8, <1>9, <1>10, Zenon DEF Replicates

\* becomeFollower, with a leader that was heard of or with none.
LEMMA BecomeFollowerEnters ==
  ASSUME NEW r \in NodeType, NEW term \in Terms, NEW lead \in Server \cup {None}, NEW G,
         term >= r.Term,
         lead = None \/ \E o \in G : o.type \in LeaderMsgs /\ o.to = r.id /\ o.Term = term /\ o.from = lead
  PROVE  /\ Enters(r, BecomeFollower(r, term, lead), G)
         /\ BecomeFollower(r, term, lead) \in NodeType /\ BecomeFollower(r, term, lead).Term = term
  <1> DEFINE b == Reset(r, term)
             s == BecomeFollower(r, term, lead)
  <1>1. s \in NodeType /\ s.id = r.id /\ s.Term = term /\ s.state = StateFollower /\ s.msgs = r.msgs
    BY BecomeFollowerFields
  <1>2. b \in NodeType /\ b.log = r.log
    BY ResetFields
  <1>3. b.panic = r.panic
    BY DEF Reset, NodeType
  <1>4. s = [b EXCEPT !.lead = lead, !.state = StateFollower]
    BY DEF BecomeFollower
  <1> HIDE DEF b, s
  <1>5. s.log = r.log /\ s.panic = r.panic /\ s.lead = lead
    BY <1>2, <1>3, <1>4, Zenon DEF NodeType
  <1>6. LeadFair(r, s, G)
    BY <1>1, <1>5 DEF LeadFair, Heard
  <1>7. QED
    BY <1>1, <1>5, <1>6 DEF Enters, s

\* MsgCheckQuorum: a leader goes on, or steps down.
LEMMA CheckQuorumStepFair ==
  ASSUME NEW r \in NodeType, NEW G, AllWithin(r)
  PROVE  LET s == CheckQuorumStep(r)
         IN  s \in NodeType /\ ((Speaks(r, s) /\ s.state = r.state) \/ Enters(r, s, G))
  <1> DEFINE active == {p \in DOMAIN r.prs : p = r.id \/ r.prs[p].RecentActive}
             quorumActive == VoteResult(Voters(r), active, DOMAIN r.prs \ active) = VoteWon
             own == [r.prs[r.id] EXCEPT !.RecentActive = TRUE]
             up == [r EXCEPT !.prs[r.id] = own]
             down == BecomeFollower(r, r.Term, None)
             s == IF quorumActive THEN up ELSE down
             idle(p) == IF p = r.id THEN s.prs[p] ELSE [s.prs[p] EXCEPT !.RecentActive = FALSE]
             prs == [p \in DOMAIN s.prs |-> idle(p)]
             t == [s EXCEPT !.prs = prs]
  <1>1. own \in ProgressType /\ r.id \in Server
    BY NodeFields, ActiveType
  <1>2. [r EXCEPT !.prs[r.id].RecentActive = TRUE] = up
    BY DEF NodeType
  <1>3. up \in NodeType /\ Speaks(r, up) /\ up.state = r.state
    <2>1. own.Match = r.prs[r.id].Match /\ Within(own, LastIndex(r.log))
      BY <1>1, NodeFields, LogFields, FlagsWithin, ZenonT(30) DEF AllWithin
    <2>2. Windowed(own) /\ own.Inflights = <<>>
      BY <1>1, NodeFields, FlagsWindowed, ZenonT(30) DEF AllWithin
    <2> HIDE DEF own
    <2>3. QED
      BY <1>1, <2>1, <2>2, SetPeerSpeaks, SetPeer DEF Internal, Stays
  <1>4. down \in NodeType /\ Enters(r, down, G)
    BY NodeFields, BecomeFollowerEnters
  <1>5. CheckQuorumStep(r) = t
    BY <1>2 DEF CheckQuorumStep
  <1> HIDE DEF up, down, quorumActive
  <1>6. s \in NodeType /\ ((Speaks(r, s) /\ s.state = r.state) \/ Enters(r, s, G))
    BY <1>3, <1>4
  <1> HIDE DEF s
  <1>7. DOMAIN s.prs = Server /\ prs \in [Server -> ProgressType]
    <2>1. DOMAIN s.prs = Server
      BY <1>6, NodeFields, ZenonT(30)
    <2>2. \A p \in Server : idle(p) \in ProgressType
      BY <1>6, NodeFields, SetProgress, Zenon
    <2> HIDE DEF idle
    <2>3. QED
      BY <2>1, <2>2
  <1>8. AllWithin(s) =>
          \A p \in Server : /\ prs[p].Match = s.prs[p].Match /\ prs[p].Inflights = s.prs[p].Inflights
                            /\ Within(prs[p], LastIndex(s.log)) /\ Windowed(prs[p])
    <2> SUFFICES ASSUME AllWithin(s), NEW p \in Server
                 PROVE  /\ idle(p).Match = s.prs[p].Match /\ idle(p).Inflights = s.prs[p].Inflights
                        /\ Within(idle(p), LastIndex(s.log)) /\ Windowed(idle(p))
      BY <1>7, Zenon
    <2>1. /\ s.prs[p] \in ProgressType /\ LastIndex(s.log) \in Nat
          /\ Within(s.prs[p], LastIndex(s.log)) /\ Windowed(s.prs[p])
      BY <1>6, NodeFields, LogFields DEF AllWithin
    <2>2. QED
      BY <2>1, FlagsWithin, FlagsWindowed, ZenonT(30)
  <1> HIDE DEF prs
  <1>9. t \in NodeType /\ t.state = s.state
    BY <1>6, <1>7, SetPrs DEF Internal, Stays
  <1>10. ASSUME Speaks(r, s), s.state = r.state PROVE Speaks(r, t) /\ t.state = r.state
    <2>1. AllWithin(s)
      BY <1>10 DEF Speaks
    <2>2. prs[s.id].Inflights = <<>>
      BY <1>6, <1>8, <2>1, NodeFields DEF AllWithin
    <2>3. Speaks(s, t)
      BY <1>6, <1>7, <1>8, <2>1, <2>2, SetPrsSpeaks
    <2> HIDE DEF t
    <2>4. QED
      BY <1>9, <1>10, <2>3, SpeaksTrans
  <1>11. ASSUME Enters(r, s, G) PROVE Enters(r, t, G)
    <2>1. /\ t.id = s.id /\ t.Term = s.Term /\ t.log = s.log /\ t.msgs = s.msgs
          /\ t.panic = s.panic /\ t.lead = s.lead
      BY <1>6 DEF NodeType
    <2> HIDE DEF t
    <2>2. LeadFair(r, t, G)
      BY <1>9, <1>11, <2>1 DEF Enters, LeadFair, Heard
    <2>3. QED
      BY <1>9, <1>11, <2>1, <2>2 DEF Enters
  <1>12. QED
    BY <1>5, <1>6, <1>9, <1>10, <1>11

\* tickHeartbeat as a whole.
LEMMA TickHeartbeatReplicates ==
  ASSUME NEW r \in NodeType, NEW e \in BOOLEAN, NEW h \in BOOLEAN, NEW G,
         r.state = StateLeader, AllWithin(r)
  PROVE  Replicates(r, TickHeartbeat(r, e, h), G)
  <1> DEFINE checked == IF e /\ CheckQuorum THEN CheckQuorumStep(r) ELSE r
             aborted == IF e /\ checked.state = StateLeader THEN AbortLeaderTransfer(checked)
                        ELSE checked
             s == TickHeartbeat(r, e, h)
  <1>1. s = IF h /\ aborted.state = StateLeader THEN BcastHeartbeat(aborted) ELSE aborted
    BY DEF TickHeartbeat
  <1>2. LeaderStep(r, s) \/ StepsDown(r, s)
    BY TickHeartbeatStep
  <1>3. /\ checked \in NodeType
        /\ (Speaks(r, checked) /\ checked.state = StateLeader) \/ Enters(r, checked, G)
    BY CheckQuorumStepFair, SpeaksRefl
  <1> HIDE DEF checked, s
  <1>4. CASE Enters(r, checked, G)
    <2>1. s = checked
      BY <1>1, <1>4 DEF Enters, StateFollower, StatePreCandidate, StateLeader
    <2>2. QED
      BY <1>4, <2>1, EntersReplicates DEF s
  <1>5. CASE Speaks(r, checked) /\ checked.state = StateLeader
    <2>1. Internal(checked, AbortLeaderTransfer(checked)) /\ Speaks(checked, AbortLeaderTransfer(checked))
      BY <1>3, <1>5, SetTransferee, SetReadsSpeaks DEF AbortLeaderTransfer, Speaks
    <2>2. aborted \in NodeType /\ Speaks(r, aborted) /\ aborted.state = StateLeader
      BY <1>3, <1>5, <2>1, SpeaksTrans DEF Internal, Stays
    <2> HIDE DEF aborted
    <2>3. Speaks(r, s) /\ s.state = StateLeader
      <3>1. AllWithin(aborted)
        BY <2>2 DEF Speaks
      <3>2. Speaks(aborted, BcastHeartbeat(aborted)) /\ LeaderStep(aborted, BcastHeartbeat(aborted))
        BY <2>2, <3>1, BcastHeartbeatSpeaks, BcastHeartbeatStep
      <3>3. BcastHeartbeat(aborted).state = StateLeader
        BY <2>2, <3>2 DEF LeaderStep, Stays
      <3>4. QED
        BY <1>1, <2>2, <3>2, <3>3, SpeaksTrans, Zenon
    <2>4. LeaderStep(r, s)
      BY <1>2, <2>3 DEF StepsDown, StateFollower, StateLeader
    <2>5. QED
      BY <2>3, <2>4, SpeaksWork, WorkReplicates DEF s
  <1>6. QED
    BY <1>3, <1>4, <1>5
=============================================================================
