--------------------------- MODULE AppNodeProofs ---------------------------
(***************************************************************************)
(* The safety of the goroutines of one process: types, one loop at a time, *)
(* and what the loop has applied, for every log, any number of starts and  *)
(* every interleaving of the callers.                                      *)
(***************************************************************************)
EXTENDS AppNode, FiniteSetTheorems, TLAPS

----------------------------------------------------------------------------
(* The inductive invariant.                                                *)

\* Where a call is between the end of the loop and the running flag's fall,
\* or between the start of an instance and that of its loop.
InBetween == {"stopRN", "stopped", "startLoop"}
Settled(c) == caller[c].pc \notin InBetween

\* The node serves: instance and loop are alive, and no call is half done.
Serving ==
  /\ running /\ Up(rn) /\ loop[rn].pc \notin {"none", "end"}
  /\ \A c \in Caller : Settled(c)

\* The loop has ended, and the Stop that ended it is on its way.
Stopping ==
  /\ running /\ loop[rn].pc = "end"
  /\ \E c \in Caller :
       /\ \/ caller[c].pc = "stopRN" /\ Up(rn)
          \/ caller[c].pc = "stopped" /\ inst[rn].pc = "done"
       /\ \A d \in Caller \ {c} : Settled(d)

Down ==
  /\ ~running /\ loop[rn].pc = "end" /\ inst[rn].pc = "done"
  /\ \A c \in Caller : Settled(c)

\* The instance has begun, its loop not yet.
Starting ==
  /\ ~running /\ loop[rn].pc = "none" /\ Up(rn)
  /\ caller["directive"].pc = "startLoop" /\ Settled("main")

\* Instances and loops before the current one are over, those after it are
\* untouched, and of the current one the phase tells.
Life ==
  /\ \A i \in Start : i < rn => inst[i].pc = "done" /\ loop[i].pc = "end"
  /\ \A i \in Start : i > rn => inst[i] = NoInstance /\ loop[i] = NoLoop
  /\ caller["main"].pc \notin {"start", "startLoop"} /\ ~caller["main"].restart
  /\ caller["directive"].pc = "start" \/ caller["directive"].restart => rn < MaxStarts
  /\ ~(caller["directive"].pc = "start" /\ caller["directive"].restart)
  /\ Serving \/ Stopping \/ Down \/ Starting

Change(j) == Log[j] \in {AddPeer, RemoveSelf}

\* The loop has taken a Ready.
Handling(l) == l.pc \in {"send", "apply", "advance", "stop"}

\* What the loop l has done with the Ready of instance x, c being the commit
\* index of the node.
Progressed(x, l, c) ==
  /\ Handling(l) => /\ l.last = x.rd.last /\ l.last \in 1..x.committed
                    /\ x.applied =< l.last
  /\ l.pc = "send" => l.next = x.applied + 1
  /\ l.pc = "apply" =>
       /\ x.applied < l.next /\ l.next =< l.last
       /\ \/ c = l.next - 1
          \/ l.next = 1 /\ l.last =< c /\ c = x.floor
  /\ l.pc = "advance" => c = l.last
  /\ l.pc \notin {"apply", "advance", "stop"} =>
       x.applied = c \/ (x.applied = 0 /\ c = x.floor)

\* The current instance, as long as it is up.
Work ==
  /\ ~fatal
  /\ loop[rn].pc \in {"select", "status"} \/ Handling(loop[rn]) => loop[rn].at = rn
  /\ Up(rn) =>
       /\ inst[rn].advancec <=> Handling(loop[rn])
       /\ inst[rn].committed >= 1 /\ inst[rn].applied =< inst[rn].committed
       /\ inst[rn].applied =< commitIndex
       /\ Progressed(inst[rn], loop[rn], commitIndex)
       /\ \A j \in (inst[rn].floor + 1)..commitIndex : Change(j) => j \in inst[rn].conf

\* The map is what the log makes it, or it still has a later value, since
\* none has been applied again so far.
Store ==
  \/ kv = Replay(commitIndex)
  \/ /\ \A j \in 1..commitIndex : Change(j)
     /\ \E i \in Start : \E j \in commitIndex..inst[i].floor : kv = Replay(j)

Inv == TypeOK /\ Life /\ Work /\ Store

----------------------------------------------------------------------------
(* What the log makes of the key.                                          *)

\* Before the first value is set, the key has none.
LEMMA ReplayNone ==
  ASSUME NEW n \in Nat, \A j \in 1..n : Change(j)
  PROVE  Replay(n) = Absent
<1>1. {i \in 1..n : Log[i] \notin {AddPeer, RemoveSelf}} = {}
  BY DEF Change
<1> QED
  BY <1>1 DEF Replay

\* One more entry: a value is the key's, a change leaves it alone.
LEMMA ReplayNext ==
  ASSUME NEW n \in Nat
  PROVE  Replay(n + 1) = IF Change(n + 1) THEN Replay(n) ELSE Log[n + 1]
<1> DEFINE Sets(m) == {i \in 1..m : Log[i] \notin {AddPeer, RemoveSelf}}
<1> DEFINE Last(S) == IF S = {} THEN Absent ELSE Log[CHOOSE i \in S : \A j \in S : j =< i]
<1>1. Replay(n + 1) = Last(Sets(n + 1)) /\ Replay(n) = Last(Sets(n))
  BY DEF Replay
<1>2. CASE Change(n + 1)
  <2>1. Sets(n + 1) = Sets(n)
    BY <1>2 DEF Change
  <2> HIDE DEF Last, Sets
  <2> QED
    BY <1>1, <1>2, <2>1
<1>3. CASE ~Change(n + 1)
  <2>1. n + 1 \in Sets(n + 1) /\ \A j \in Sets(n + 1) : j =< n + 1
    BY <1>3 DEF Change
  <2>2. \A i \in Sets(n + 1) : (\A j \in Sets(n + 1) : j =< i) => i = n + 1
    BY <2>1
  <2> DEFINE top == CHOOSE i \in Sets(n + 1) : \A j \in Sets(n + 1) : j =< i
  <2>3. top \in Sets(n + 1) /\ \A j \in Sets(n + 1) : j =< top
    BY <2>1
  <2>4. top = n + 1
    BY <2>2, <2>3
  <2> QED
    BY <1>3, <2>1, <2>4 DEF Replay
<1> QED
  BY <1>2, <1>3

----------------------------------------------------------------------------
(* What the phases say of those that are alive.                            *)

\* A loop that is alive is the current one, and the node serves.
LEMMA AliveLoop ==
  ASSUME TypeOK, Life, NEW k \in Start, loop[k].pc \notin {"none", "end"}
  PROVE  k = rn /\ Serving
<1>1. k = rn
  BY CapAssumption DEF TypeOK, Life, Start, NoLoop
<1> QED
  BY <1>1 DEF Life, Serving, Stopping, Down, Starting

\* A run that is up is the current one.
LEMMA UpIsCurrent ==
  ASSUME TypeOK, Life, NEW i \in Start, Up(i)
  PROVE  i = rn
  BY CapAssumption DEF TypeOK, Life, Start, NoInstance, Up

\* A node that serves goes on to, whatever its loop and its run do.
LEMMA ServingStays ==
  ASSUME TypeOK, Life, Serving, UNCHANGED <<running, rn, caller>>,
         \A i \in Start : i # rn => inst'[i] = inst[i] /\ loop'[i] = loop[i],
         inst'[rn].pc = "select", loop'[rn].pc \notin {"none", "end"}
  PROVE  Life'
<1>1. Serving'
  BY DEF Serving, Settled, Up
<1>2. \A i \in Start : i # rn => inst'[i] = inst[i] /\ loop'[i] = loop[i]
  OBVIOUS
<1>3. rn \in Nat /\ \A i \in Start : i \in Nat
  BY CapAssumption DEF TypeOK, Start
<1>4. \A i \in Start : i < rn \/ i > rn => i # rn
  BY <1>3
<1> QED
  BY <1>1, <1>2, <1>4 DEF Life

\* The map is sound as long as neither it nor the commit index moves.
LEMMA StoreStays ==
  ASSUME Store, UNCHANGED <<kv, commitIndex>>,
         \A i \in Start : inst'[i].floor = inst[i].floor
  PROVE  Store'
  BY DEF Store, Replay, Change

----------------------------------------------------------------------------
(* The steps of run and of the loop.                                       *)

\* A step of the raft instance: more may be committed, and nothing that the
\* loop or the configuration depends on moves.
LEMMA SteppedKeeps ==
  ASSUME NEW x \in Instance, NEW y \in Stepped(x)
  PROVE  /\ y \in Instance /\ y.pc = x.pc /\ y.advancec = x.advancec
         /\ y.applied = x.applied /\ y.rd = x.rd /\ y.conf = x.conf /\ y.floor = x.floor
         /\ y.committed >= x.committed
<1>1. /\ x.committed \in Nat /\ x.term \in Nat \ {0} /\ x.msgs \in Nat
      /\ Len(Log) \in Nat /\ MaxTerm \in Nat /\ MaxMsgs \in Nat
  BY BootAssumption, CapAssumption DEF Instance, Index
<1>2. y.committed =< Len(Log) /\ y.term =< MaxTerm /\ y.msgs =< MaxMsgs
  BY DEF Stepped
<1> DEFINE Pc == {"none", "select", "done"}
           Hard == (0..MaxTerm) \X Index
           Rd == [last : Index, hard : Hard]
           Conf == SUBSET Index
           Terms == 1..MaxTerm
           Msgs == 0..MaxMsgs
           Bool == BOOLEAN
           yes == TRUE
           no == FALSE
<1>3. Instance = [pc : Pc, advancec : Bool, propc : Bool, term : Terms, committed : Index,
                  applied : Index, rd : Rd, hard : Hard, conf : Conf, floor : Index, msgs : Msgs]
  BY DEF Instance
<1>4. x.committed + 1 =< Len(Log) => x.committed + 1 \in Index
  BY <1>1 DEF Index
<1>5. x.term + 1 =< MaxTerm => x.term + 1 \in Terms
  BY <1>1
<1>6. x.msgs + 1 =< MaxMsgs => x.msgs + 1 \in Msgs
  BY <1>1
<1>7. yes \in Bool /\ no \in Bool
  OBVIOUS
<1>8. \/ y = [x EXCEPT !.committed = @ + 1]
      \/ y = [x EXCEPT !.term = @ + 1, !.propc = no]
      \/ y = [x EXCEPT !.propc = yes] \/ y = [x EXCEPT !.propc = no]
      \/ y = [x EXCEPT !.msgs = @ + 1]
  BY Zenon DEF Stepped
<1> HIDE DEF Pc, Hard, Rd, Conf, Terms, Msgs, Bool, yes, no
<1>9. CASE y = [x EXCEPT !.committed = @ + 1]
  BY <1>1, <1>2, <1>3, <1>4, <1>9
<1>10. CASE y = [x EXCEPT !.term = @ + 1, !.propc = no]
  <2> DEFINE z == [x EXCEPT !.propc = no]
  <2>1. z \in Instance /\ z.term = x.term /\ y = [z EXCEPT !.term = @ + 1]
    BY <1>3, <1>7, <1>10, Zenon
  <2>2. /\ z.pc = x.pc /\ z.advancec = x.advancec /\ z.applied = x.applied /\ z.rd = x.rd
        /\ z.conf = x.conf /\ z.floor = x.floor /\ z.committed = x.committed
    BY <1>3
  <2> HIDE DEF z
  <2> QED
    BY <1>1, <1>2, <1>3, <1>5, <2>1, <2>2
<1>11. CASE y = [x EXCEPT !.propc = yes] \/ y = [x EXCEPT !.propc = no]
  BY <1>1, <1>3, <1>7, <1>11
<1>12. CASE y = [x EXCEPT !.msgs = @ + 1]
  BY <1>1, <1>2, <1>3, <1>6, <1>12
<1> QED
  BY <1>8, <1>9, <1>10, <1>11, <1>12

\* A step of the raft instance keeps the invariant.
LEMMA RunStepsInv ==
  ASSUME Inv, NEW i \in Start, RunSteps(i)
  PROVE  Inv'
<1> USE DEF Inv
<1>1. i = rn
  BY UpIsCurrent DEF RunSteps
<1>2. PICK y \in Stepped(inst[rn]) : inst' = [inst EXCEPT ![rn] = y]
  BY <1>1, Zenon DEF RunSteps
<1>3. UNCHANGED <<running, rn, term, commitIndex, kv, fatal, loop, caller, poll>>
  BY DEF RunSteps, nodeState
<1>4. inst[rn] \in Instance /\ inst[rn].pc = "select" /\ rn \in Start
  BY <1>1 DEF RunSteps, Up, TypeOK
<1>5. /\ y \in Instance /\ y.pc = "select" /\ y.advancec = inst[rn].advancec
      /\ y.applied = inst[rn].applied /\ y.rd = inst[rn].rd /\ y.conf = inst[rn].conf
      /\ y.floor = inst[rn].floor /\ y.committed >= inst[rn].committed
  BY <1>4, SteppedKeeps
<1>6. inst'[rn] = y /\ \A j \in Start : j # rn => inst'[j] = inst[j]
  BY <1>2, <1>4 DEF TypeOK
<1>7. TypeOK'
  BY <1>2, <1>3, <1>4, <1>5 DEF TypeOK
<1>8. Life'
  <2>1. \A j \in Start : inst'[j].pc = inst[j].pc
    BY <1>4, <1>5, <1>6
  <2>2. \A j \in Start : j > rn => inst'[j] = inst[j]
    BY <1>4, <1>6, CapAssumption DEF Start
  <2> QED
    BY <1>3, <1>4, <2>1, <2>2 DEF Life, Serving, Stopping, Down, Starting, Settled, Up
<1>9. Work'
  <2>1. inst[rn].committed \in Nat /\ y.committed \in Nat /\ inst[rn].applied \in Nat
    BY <1>4, <1>5, BootAssumption DEF Instance, Index
  <2>2. Progressed(inst[rn], loop[rn], commitIndex)'
    <3>1. Progressed(inst[rn], loop[rn], commitIndex)
      BY <1>4 DEF Work, Up
    <3> QED
      BY <1>3, <1>5, <1>6, <2>1, <3>1 DEF Progressed, Handling
  <2> QED
    BY <1>3, <1>4, <1>5, <1>6, <2>1, <2>2 DEF Work, Up, Handling, Change
<1>10. Store'
  BY <1>3, <1>5, <1>6, StoreStays
<1> QED
  BY <1>7, <1>8, <1>9, <1>10

\* What the steps of the loop that leave run and the store alone have to show.
LEMMA LoopMoves ==
  ASSUME Inv, NEW k \in Start, NEW l \in Loop, loop[k].pc \notin {"none", "end"},
         loop' = [loop EXCEPT ![k] = l], l.pc \notin {"none", "end"},
         UNCHANGED <<running, rn, commitIndex, kv, fatal, inst, caller, poll>>,
         term' \in 0..MaxTerm,
         l.pc \in {"select", "status"} \/ Handling(l) => l.at = rn,
         Handling(l) <=> Handling(loop[k]),
         Progressed(inst[rn], loop[rn], commitIndex) => Progressed(inst[rn], l, commitIndex)
  PROVE  Inv'
<1> USE DEF Inv
<1>1. k = rn /\ Serving
  BY AliveLoop
<1>2. rn \in Start /\ loop'[rn] = l /\ \A j \in Start : j # rn => loop'[j] = loop[j]
  BY <1>1 DEF TypeOK
<1>3. TypeOK'
  BY DEF TypeOK
<1>4. Life'
  BY <1>1, <1>2, ServingStays DEF Serving, Up
<1>5. Progressed(inst[rn], l, commitIndex) = Progressed(inst[rn], loop[rn], commitIndex)'
  BY <1>2 DEF Progressed, Handling
<1>6. Work'
  BY <1>1, <1>2, <1>5 DEF Work, Up, Handling, Change
<1>7. Store'
  BY StoreStays
<1> QED
  BY <1>3, <1>4, <1>6, <1>7

\* So does the loop when it reads the current instance,
LEMMA LoopTopInv ==
  ASSUME Inv, NEW k \in Start, LoopTop(k)
  PROVE  Inv'
<1> DEFINE l == [loop[k] EXCEPT !.pc = "select", !.at = rn]
<1>1. loop[k] \in Loop /\ rn \in 0..MaxStarts
  BY CapAssumption DEF Inv, TypeOK, Start
<1>2. l \in Loop /\ l.pc = "select" /\ l.at = rn
  BY <1>1, Zenon DEF Loop
<1>3. loop' = [loop EXCEPT ![k] = l]
  BY Zenon DEF LoopTop, Inv, TypeOK
<1>4. Progressed(inst[rn], loop[rn], commitIndex) => Progressed(inst[rn], l, commitIndex)
  <2>1. k = rn
    BY AliveLoop DEF LoopTop, Inv
  <2> QED
    BY <1>2, <2>1 DEF Progressed, Handling, LoopTop
<1> HIDE DEF l
<1> QED
  BY <1>2, <1>3, <1>4, LoopMoves, Zenon DEF LoopTop, nodeState, Handling, Inv, TypeOK

\* when its ticker fires,
LEMMA LoopTickerInv ==
  ASSUME Inv, NEW k \in Start, LoopTicker(k)
  PROVE  Inv'
<1> DEFINE l == [loop[k] EXCEPT !.pc = "status", !.at = rn]
<1>1. loop[k] \in Loop /\ rn \in 0..MaxStarts
  BY CapAssumption DEF Inv, TypeOK, Start
<1>2. l \in Loop /\ l.pc = "status" /\ l.at = rn
  BY <1>1, Zenon DEF Loop
<1>3. loop' = [loop EXCEPT ![k] = l]
  BY Zenon DEF LoopTicker, Inv, TypeOK
<1>4. Progressed(inst[rn], loop[rn], commitIndex) => Progressed(inst[rn], l, commitIndex)
  <2>1. k = rn
    BY AliveLoop DEF LoopTicker, Inv
  <2> QED
    BY <1>2, <2>1 DEF Progressed, Handling, LoopTicker
<1> HIDE DEF l
<1> QED
  BY <1>2, <1>3, <1>4, LoopMoves, Zenon DEF LoopTicker, nodeState, Handling, Inv, TypeOK

\* and when it has recorded the status.
LEMMA LoopStatusInv ==
  ASSUME Inv, NEW k \in Start, LoopStatus(k)
  PROVE  Inv'
<1> DEFINE l == [NoLoop EXCEPT !.pc = "top"]
<1>1. l \in Loop /\ l.pc = "top"
  BY BootAssumption, CapAssumption DEF Loop, NoLoop, Index
<1>2. k = rn /\ loop[k].at = rn
  BY AliveLoop DEF LoopStatus, Inv, Work
<1>3. Progressed(inst[rn], loop[rn], commitIndex) => Progressed(inst[rn], l, commitIndex)
  BY <1>1, <1>2 DEF Progressed, Handling, LoopStatus
<1>4. term' \in 0..MaxTerm
  <2>1. inst[rn].term \in 0..MaxTerm
    BY CapAssumption DEF Inv, TypeOK, Instance
  <2> QED
    BY <1>2, <2>1, CapAssumption DEF LoopStatus
<1> HIDE DEF l
<1>5. loop' = [loop EXCEPT ![k] = l]
  BY DEF LoopStatus, l
<1> QED
  BY <1>1, <1>3, <1>4, <1>5, LoopMoves, Zenon DEF LoopStatus, Handling

\* What the steps of the loop that concern run or the store have to show, x
\* being the instance and l the loop after the step.
LEMMA LoopWorks ==
  ASSUME TypeOK, Life, Work, NEW k \in Start, NEW l \in Loop, NEW x \in Instance,
         loop[k].pc \notin {"none", "end"},
         loop' = [loop EXCEPT ![k] = l], l.pc \notin {"none", "end"},
         inst' = [inst EXCEPT ![rn] = x], x.pc = "select",
         UNCHANGED <<running, rn, fatal, caller, poll>>,
         term' \in 0..MaxTerm, commitIndex' \in Index,
         l.pc \in {"select", "status"} \/ Handling(l) => l.at = rn,
         x.advancec <=> Handling(l),
         x.committed >= 1, x.applied =< x.committed, x.applied =< commitIndex',
         Progressed(x, l, commitIndex'),
         \A j \in (x.floor + 1)..commitIndex' : Change(j) => j \in x.conf
  PROVE  TypeOK' /\ Life' /\ Work'
<1>1. k = rn /\ Serving
  BY AliveLoop
<1>2. rn \in Start /\ loop'[rn] = l /\ \A j \in Start : j # rn => loop'[j] = loop[j]
  BY <1>1 DEF TypeOK
<1>3. inst'[rn] = x /\ \A j \in Start : j # rn => inst'[j] = inst[j]
  BY DEF TypeOK
<1>4. TypeOK'
  BY DEF TypeOK
<1>5. Life'
  BY <1>1, <1>2, <1>3, ServingStays
<1>6. Work'
  <2>1. Progressed(inst[rn], loop[rn], commitIndex)'
    BY <1>2, <1>3
  <2>2. ~fatal
    BY DEF Work
  <2> QED
    BY <1>2, <1>3, <2>1, <2>2 DEF Work, Up, Change, Handling
<1> QED
  BY <1>4, <1>5, <1>6

\* The loop while it handles a Ready: it and run are the current ones.
LEMMA LoopFacts ==
  ASSUME Inv, NEW k \in Start, loop[k].pc \notin {"none", "end"}
  PROVE  /\ k = rn /\ running /\ Up(rn)
         /\ inst[rn] \in Instance /\ loop[rn] \in Loop
         /\ inst[rn].committed \in Index /\ inst[rn].applied \in Index /\ inst[rn].floor \in Index
         /\ loop[rn].last \in Index /\ loop[rn].next \in Nat \ {0}
         /\ commitIndex \in Index /\ Index \subseteq Nat /\ term \in 0..MaxTerm
         /\ Progressed(inst[rn], loop[rn], commitIndex)
         /\ inst[rn].committed >= 1 /\ inst[rn].applied =< inst[rn].committed
         /\ inst[rn].applied =< commitIndex
         /\ inst[rn].advancec <=> Handling(loop[rn])
         /\ \A j \in (inst[rn].floor + 1)..commitIndex : Change(j) => j \in inst[rn].conf
<1>1. k = rn /\ Serving
  BY AliveLoop DEF Inv
<1>2. inst[rn] \in Instance /\ loop[rn] \in Loop /\ commitIndex \in Index /\ term \in 0..MaxTerm
  BY DEF Inv, TypeOK
<1>3. Index \subseteq Nat
  BY BootAssumption DEF Index
<1>4. inst[rn].committed \in Index /\ inst[rn].applied \in Index /\ inst[rn].floor \in Index
  BY <1>2 DEF Instance
<1>5. loop[rn].last \in Index /\ loop[rn].next \in Nat \ {0}
  BY <1>2, BootAssumption DEF Loop
<1> QED
  BY <1>1, <1>2, <1>3, <1>4, <1>5 DEF Serving, Inv, Work

\* The Ready that run hands over.
LEMMA AcceptReadyType ==
  ASSUME NEW x \in Instance
  PROVE  /\ AcceptReady(x) \in Instance
         /\ AcceptReady(x).pc = x.pc /\ AcceptReady(x).advancec
         /\ AcceptReady(x).committed = x.committed /\ AcceptReady(x).applied = x.applied
         /\ AcceptReady(x).conf = x.conf /\ AcceptReady(x).floor = x.floor
         /\ AcceptReady(x).rd.last = x.committed
         /\ NewReady(x).hard[1] \in 0..MaxTerm
<1> DEFINE Pc == {"none", "select", "done"}
           Hard == (0..MaxTerm) \X Index
           Conf == SUBSET Index
           Terms == 1..MaxTerm
           Msgs == 0..MaxMsgs
           Rd == [last : Index, hard : Hard]
           r == NewReady(x)
           Bool == BOOLEAN
           yes == TRUE
           y == AcceptReady(x)
<1>1. Instance = [pc : Pc, advancec : Bool, propc : Bool, term : Terms, committed : Index,
                  applied : Index, rd : Rd, hard : Hard, conf : Conf, floor : Index, msgs : Msgs]
  BY DEF Instance
<1>2. 0 \in Msgs /\ 0 \in 0..MaxTerm /\ 0 \in Index /\ Terms \subseteq 0..MaxTerm
  BY BootAssumption, CapAssumption DEF Index
<1>3. yes \in Bool
  OBVIOUS
<1>4. y = [x EXCEPT !.advancec = yes, !.rd = r, !.msgs = 0]
  BY DEF AcceptReady
<1>5. r \in Rd /\ r.last = x.committed /\ r.hard[1] \in 0..MaxTerm
  <2>1. x.term \in 0..MaxTerm /\ x.committed \in Index
    BY <1>1, <1>2
  <2>2. <<x.term, x.committed>> \in Hard /\ <<0, 0>> \in Hard
    BY <1>2, <2>1
  <2>3. /\ r.last = x.committed /\ r.hard \in Hard
        /\ r = [last |-> r.last, hard |-> r.hard]
    BY <2>2 DEF NewReady, HardState
  <2>4. r.hard[1] \in 0..MaxTerm
    BY <2>3
  <2> QED
    BY <2>1, <2>3, <2>4
<1> HIDE DEF Pc, Hard, Conf, Terms, Msgs, Rd, r, Bool, yes, y
<1>6. y \in Instance
  BY <1>1, <1>2, <1>3, <1>4, <1>5, Zenon
<1>7. /\ y.pc = x.pc /\ y.advancec = yes /\ y.committed = x.committed /\ y.applied = x.applied
      /\ y.conf = x.conf /\ y.floor = x.floor /\ y.rd = r
  BY <1>1, <1>4
<1> QED
  BY <1>5, <1>6, <1>7 DEF y, r, yes

\* The loop may take a Ready.
LEMMA LoopReadyInv ==
  ASSUME Inv, NEW k \in Start, LoopReady(k)
  PROVE  Inv'
<1> DEFINE x == inst[rn]
           y == AcceptReady(x)
           l == [pc |-> "send", at |-> rn, next |-> x.applied + 1, last |-> x.committed]
<1>1. k = rn /\ loop[k].pc = "select" /\ loop[k].at = rn
  BY LoopFacts DEF LoopReady, Inv, Work
<1>2. /\ inst' = [inst EXCEPT ![rn] = y] /\ loop' = [loop EXCEPT ![k] = l]
      /\ term' = NewReady(x).hard[1]
      /\ UNCHANGED <<running, rn, commitIndex, kv, fatal, caller, poll>>
  BY <1>1 DEF LoopReady
<1>3. /\ x \in Instance /\ x.pc = "select" /\ x.committed \in Index /\ x.applied \in Index
      /\ Index \subseteq Nat /\ x.committed >= 1 /\ x.applied =< x.committed
      /\ x.applied =< commitIndex /\ commitIndex \in Index
      /\ x.applied = commitIndex \/ (x.applied = 0 /\ commitIndex = x.floor)
      /\ \A j \in (x.floor + 1)..commitIndex : Change(j) => j \in x.conf
  BY <1>1, LoopFacts DEF Up, Progressed
<1>4. /\ y \in Instance /\ y.pc = "select" /\ y.advancec
      /\ y.committed = x.committed /\ y.applied = x.applied /\ y.conf = x.conf
      /\ y.floor = x.floor /\ y.rd.last = x.committed /\ term' \in 0..MaxTerm
  BY <1>2, <1>3, AcceptReadyType
<1>5. /\ l \in Loop /\ l.pc = "send" /\ l.at = rn /\ l.next = x.applied + 1
      /\ l.last = x.committed
  <2>1. rn \in 0..MaxStarts
    BY CapAssumption DEF Inv, TypeOK, Start
  <2>2. x.applied + 1 \in 1..(Len(Log) + 1)
    BY <1>3, BootAssumption DEF Index
  <2> QED
    BY <1>3, <2>1, <2>2 DEF Loop
<1>6. \A j \in Start : inst'[j].floor = inst[j].floor
  BY <1>2, <1>4, Zenon DEF Inv, TypeOK
<1> HIDE DEF y, l
<1>7. Progressed(y, l, commitIndex') /\ Handling(l)
  <2>1. Handling(l) /\ l.pc \notin {"apply", "advance", "stop"}
    BY <1>5 DEF Handling
  <2>2. l.last \in 1..y.committed /\ y.applied =< l.last
    <3>1. /\ l.last = x.committed /\ y.committed = x.committed /\ y.applied = x.applied
          /\ x.committed \in Nat /\ x.committed >= 1 /\ x.applied =< x.committed
      BY <1>3, <1>4, <1>5, Zenon
    <3> QED
      BY <3>1
  <2>3. y.applied = commitIndex' \/ (y.applied = 0 /\ commitIndex' = y.floor)
    BY <1>2, <1>3, <1>4, Zenon
  <2>4. l.last = y.rd.last /\ l.next = y.applied + 1
    BY <1>4, <1>5, Zenon
  <2> QED
    BY <2>1, <2>2, <2>3, <2>4, Zenon DEF Progressed
<1>8. TypeOK' /\ Life' /\ Work'
  BY <1>1, <1>2, <1>3, <1>4, <1>5, <1>7, LoopWorks, Zenon DEF Inv
<1>9. Store'
  BY <1>2, <1>6, StoreStays DEF Inv
<1> QED
  BY <1>8, <1>9 DEF Inv

\* The commit index comes down to an entry that had been applied before, or
\* the loop goes on with the entry after it.
LEMMA LoopCutInv ==
  ASSUME Inv, NEW k \in Start, LoopCut(k)
  PROVE  Inv'
<1> DEFINE x == inst[rn]
           m == loop[rn]
           l == IF m.next > m.last THEN [m EXCEPT !.pc = "advance"]
                ELSE [m EXCEPT !.pc = "apply", !.next = FirstToApply(m)]
<1>1. k = rn /\ m.pc = "send" /\ m.at = rn
  BY LoopFacts DEF LoopCut, Inv, Work, Handling
<1>2. /\ x \in Instance /\ x.pc = "select" /\ x.applied \in Nat /\ commitIndex \in Nat
      /\ m \in Loop /\ m.last \in Nat /\ m.next = x.applied + 1
      /\ m.last = x.rd.last /\ m.last \in 1..x.committed /\ x.committed \in Index
      /\ x.advancec /\ x.applied =< m.last /\ x.applied =< commitIndex
      /\ x.applied = commitIndex \/ (x.applied = 0 /\ commitIndex = x.floor)
      /\ m.last \in Index /\ Index \subseteq Nat /\ term \in 0..MaxTerm
  BY <1>1, LoopFacts DEF Up, Progressed, Handling
<1>3. ~(m.next > commitIndex + 1)
  BY <1>2
<1>4. /\ loop' = [loop EXCEPT ![k] = l]
      /\ UNCHANGED <<running, rn, term, commitIndex, kv, fatal, inst, caller, poll>>
  <2>1. fatal \in BOOLEAN /\ ~fatal
    BY DEF Inv, TypeOK, Work
  <2> QED
    BY <1>1, <1>3, <2>1 DEF LoopCut
<1>5. l \in Loop /\ l.last = m.last /\ l.at = rn
  <2>1. FirstToApply(m) \in 1..(Len(Log) + 1)
    BY <1>2, BootAssumption DEF FirstToApply, Loop, Index
  <2> QED
    BY <1>1, <1>2, <2>1, Zenon DEF Loop
<1>6. CASE m.next > m.last
  <2>1. l.pc = "advance" /\ l.next = m.next
    BY <1>2, <1>6 DEF Loop
  <2>2. commitIndex = m.last
    BY <1>2, <1>6
  <2>3. Progressed(x, l, commitIndex) /\ Handling(l)
    BY <1>2, <1>5, <2>1, <2>2 DEF Progressed, Handling
  <2> HIDE DEF l
  <2> QED
    BY <1>1, <1>2, <1>4, <1>5, <2>1, <2>3, LoopMoves, Zenon DEF Handling
<1>7. CASE ~(m.next > m.last)
  <2>1. l.pc = "apply" /\ l.next = FirstToApply(m)
    BY <1>2, <1>7 DEF Loop
  <2>2. /\ x.applied < l.next /\ l.next =< l.last
        /\ \/ commitIndex = l.next - 1
           \/ l.next = 1 /\ l.last =< commitIndex /\ commitIndex = x.floor
    BY <1>2, <1>5, <1>7, <2>1 DEF FirstToApply
  <2>3. Progressed(x, l, commitIndex) /\ Handling(l)
    BY <1>2, <1>5, <2>1, <2>2 DEF Progressed, Handling
  <2> HIDE DEF l
  <2> QED
    BY <1>1, <1>2, <1>4, <1>5, <2>1, <2>3, LoopMoves, Zenon DEF Handling
<1> QED
  BY <1>6, <1>7

\* What there is to know of the loop while it applies an entry.
LEMMA ApplyFacts ==
  ASSUME Inv, NEW k \in Start, loop[k].pc = "apply"
  PROVE  /\ k = rn /\ loop[rn].at = rn /\ inst[rn].pc = "select" /\ inst[rn].advancec
         /\ inst[rn] \in Instance /\ loop[rn] \in Loop
         /\ loop[rn].next \in Nat \ {0} /\ loop[rn].last \in Index /\ loop[rn].next \in Index
         /\ loop[rn].next =< loop[rn].last /\ loop[rn].last = inst[rn].rd.last
         /\ inst[rn].committed \in Nat /\ loop[rn].last =< inst[rn].committed
         /\ inst[rn].applied \in Nat /\ inst[rn].applied < loop[rn].next
         /\ inst[rn].floor \in Nat /\ commitIndex \in Nat /\ Index \subseteq Nat
         /\ \/ commitIndex = loop[rn].next - 1
            \/ loop[rn].next = 1 /\ loop[rn].last =< commitIndex /\ commitIndex = inst[rn].floor
         /\ \A j \in (inst[rn].floor + 1)..commitIndex : Change(j) => j \in inst[rn].conf
         /\ term \in 0..MaxTerm
<1>1. /\ k = rn /\ loop[rn].at = rn /\ Up(rn)
      /\ Progressed(inst[rn], loop[rn], commitIndex) /\ Handling(loop[rn])
  BY LoopFacts DEF Inv, Work, Handling
<1>2. /\ inst[rn] \in Instance /\ loop[rn] \in Loop
      /\ inst[rn].committed \in Index /\ inst[rn].applied \in Index /\ inst[rn].floor \in Index
      /\ loop[rn].last \in Index /\ loop[rn].next \in Nat \ {0}
      /\ commitIndex \in Index /\ Index \subseteq Nat /\ term \in 0..MaxTerm
      /\ \A j \in (inst[rn].floor + 1)..commitIndex : Change(j) => j \in inst[rn].conf
      /\ inst[rn].advancec
  BY <1>1, LoopFacts
<1>3. /\ loop[rn].last = inst[rn].rd.last /\ loop[rn].last =< inst[rn].committed
      /\ inst[rn].applied < loop[rn].next /\ loop[rn].next =< loop[rn].last
      /\ \/ commitIndex = loop[rn].next - 1
         \/ loop[rn].next = 1 /\ loop[rn].last =< commitIndex /\ commitIndex = inst[rn].floor
  BY <1>1, <1>2 DEF Progressed
<1>4. loop[rn].next \in Index
  BY <1>2, <1>3, BootAssumption DEF Index
<1> QED
  BY <1>1, <1>2, <1>3, <1>4, Zenon DEF Up

\* Where the loop goes after an entry.
LEMMA AfterEntryProgressed ==
  ASSUME NEW l \in Loop, NEW x, l.pc = "apply",
         l.next \in Nat \ {0}, l.last \in Index, l.next =< l.last, l.last = x.rd.last,
         x.committed \in Nat, x.applied \in Nat, x.applied < l.next, l.last =< x.committed
  PROVE  /\ AfterEntry(l) \in Loop /\ AfterEntry(l).pc \in {"apply", "advance"}
         /\ AfterEntry(l).at = l.at
         /\ Progressed(x, AfterEntry(l), l.next)
<1> DEFINE n == l.next + 1
           p == IF l.next = l.last THEN "advance" ELSE "apply"
           m == AfterEntry(l)
<1>1. m = [l EXCEPT !.next = n, !.pc = p]
  BY DEF AfterEntry, Loop
<1>2. l.last \in Nat /\ n \in 1..(Len(Log) + 1)
  BY BootAssumption DEF Index
<1>3. m \in Loop /\ m.pc = p /\ m.next = n /\ m.last = l.last /\ m.at = l.at
  BY <1>1, <1>2, Zenon DEF Loop
<1> HIDE DEF m
<1>4. Progressed(x, m, l.next)
  BY <1>2, <1>3 DEF Progressed, Handling
<1> QED
  BY <1>3, <1>4 DEF m

\* Applying a value moves commit index and map, also back to the start of
\* the log after a restart.
LEMMA LoopSetInv ==
  ASSUME Inv, NEW k \in Start, LoopSet(k)
  PROVE  Inv'
<1> DEFINE l == loop[rn]
           x == inst[rn]
           m == AfterEntry(l)
<1>1. /\ loop[k].pc = "apply" /\ ~Change(loop[k].next) /\ commitIndex' = loop[k].next
      /\ kv' = Log[loop[k].next] /\ loop' = [loop EXCEPT ![k] = AfterEntry(loop[k])]
      /\ UNCHANGED <<running, rn, term, fatal, inst, caller, poll>>
  BY DEF LoopSet, Change, Inv, TypeOK
<1>2. /\ k = rn /\ l.at = rn /\ x.pc = "select" /\ x.advancec /\ x \in Instance /\ l \in Loop
      /\ l.next \in Nat \ {0} /\ l.last \in Index /\ l.next \in Index
      /\ l.next =< l.last /\ l.last = x.rd.last /\ x.committed \in Nat /\ l.last =< x.committed
      /\ x.applied \in Nat /\ x.applied < l.next /\ x.floor \in Nat /\ commitIndex \in Nat
      /\ Index \subseteq Nat /\ term \in 0..MaxTerm
      /\ commitIndex = l.next - 1 \/ (l.next = 1 /\ l.last =< commitIndex /\ commitIndex = x.floor)
      /\ \A j \in (x.floor + 1)..commitIndex : Change(j) => j \in x.conf
  BY <1>1, ApplyFacts
<1>3. /\ m \in Loop /\ m.pc \in {"apply", "advance"} /\ m.at = rn
      /\ Progressed(x, m, l.next)
  BY <1>1, <1>2, AfterEntryProgressed
<1>4. \A j \in (x.floor + 1)..l.next : Change(j) => j \in x.conf
  <2> TAKE j \in (x.floor + 1)..l.next
  <2>1. CASE j = l.next
    BY <1>1, <1>2, <2>1
  <2>2. CASE j # l.next
    BY <1>2, <2>2
  <2> QED
    BY <2>1, <2>2
<1>5. inst' = [inst EXCEPT ![rn] = x]
  BY <1>1 DEF Inv, TypeOK
<1>6. x.committed >= 1 /\ x.applied =< x.committed /\ x.applied =< l.next
  <2>1. l.last \in Nat
    BY <1>2, Zenon
  <2> QED
    BY <1>2, <2>1
<1>7. TypeOK' /\ Life' /\ Work'
  <2> HIDE DEF m, x
  <2> QED
    BY <1>1, <1>2, <1>3, <1>4, <1>5, <1>6, LoopWorks, Zenon DEF Inv, Handling, m
<1>8. kv' = Replay(l.next)
  <2>1. l.next - 1 \in Nat /\ (l.next - 1) + 1 = l.next
    BY <1>2
  <2> QED
    BY <1>1, <1>2, <2>1, ReplayNext
<1>9. Store'
  BY <1>1, <1>2, <1>8 DEF Store, Replay
<1> QED
  BY <1>7, <1>9 DEF Inv

\* The instance to which a change is applied.
LEMMA ConfChangedType ==
  ASSUME NEW x \in Instance, NEW index \in Index
  PROVE  /\ ConfChanged(x, index) \in Instance
         /\ ConfChanged(x, index).pc = x.pc /\ ConfChanged(x, index).advancec = x.advancec
         /\ ConfChanged(x, index).committed = x.committed
         /\ ConfChanged(x, index).applied = x.applied /\ ConfChanged(x, index).rd = x.rd
         /\ ConfChanged(x, index).conf = x.conf \cup {index}
         /\ ConfChanged(x, index).floor = x.floor
<1> DEFINE Pc == {"none", "select", "done"}
           Hard == (0..MaxTerm) \X Index
           Conf == SUBSET Index
           Terms == 1..MaxTerm
           Msgs == 0..MaxMsgs
           Rd == [last : Index, hard : Hard]
           Bool == BOOLEAN
           p == x.propc /\ Log[index] # RemoveSelf
           c == x.conf \cup {index}
           y == ConfChanged(x, index)
<1>1. Instance = [pc : Pc, advancec : Bool, propc : Bool, term : Terms, committed : Index,
                  applied : Index, rd : Rd, hard : Hard, conf : Conf, floor : Index, msgs : Msgs]
  BY DEF Instance
<1>2. p \in Bool
  OBVIOUS
<1>3. c \in Conf
  BY <1>1
<1>4. y = [x EXCEPT !.conf = c, !.propc = p]
  BY <1>1 DEF ConfChanged
<1> HIDE DEF Pc, Hard, Conf, Terms, Msgs, Rd, Bool, p, c, y
<1>5. /\ y \in Instance /\ y.pc = x.pc /\ y.advancec = x.advancec /\ y.committed = x.committed
      /\ y.applied = x.applied /\ y.rd = x.rd /\ y.conf = c /\ y.floor = x.floor
  BY <1>1, <1>2, <1>3, <1>4, Zenon
<1> QED
  BY <1>5 DEF y, c

\* Applying a change tells the instance of it; the removal of the node
\* itself leads the loop to its Stop.
LEMMA LoopConfInv ==
  ASSUME Inv, NEW k \in Start, LoopConf(k)
  PROVE  Inv'
<1> DEFINE l == loop[rn]
           x == inst[rn]
           y == ConfChanged(x, l.next)
           m == IF Log[l.next] = AddPeer THEN AfterEntry(l) ELSE [l EXCEPT !.pc = "stop"]
<1>1. loop[k].pc = "apply"
  BY DEF LoopConf
<1>2. /\ k = rn /\ l.at = rn /\ x.pc = "select" /\ x.advancec /\ x \in Instance /\ l \in Loop
      /\ l.next \in Nat \ {0} /\ l.last \in Index /\ l.next \in Index
      /\ l.next =< l.last /\ l.last = x.rd.last /\ x.committed \in Nat /\ l.last =< x.committed
      /\ x.applied \in Nat /\ x.applied < l.next /\ x.floor \in Nat /\ commitIndex \in Nat
      /\ Index \subseteq Nat /\ term \in 0..MaxTerm
      /\ commitIndex = l.next - 1 \/ (l.next = 1 /\ l.last =< commitIndex /\ commitIndex = x.floor)
      /\ \A j \in (x.floor + 1)..commitIndex : Change(j) => j \in x.conf
  BY <1>1, ApplyFacts
<1>3. /\ l.pc = "apply" /\ Change(l.next) /\ commitIndex' = l.next
      /\ inst' = [inst EXCEPT ![rn] = y] /\ loop' = [loop EXCEPT ![k] = m]
      /\ UNCHANGED <<running, rn, term, kv, fatal, caller, poll>>
  <2>1. running /\ Up(rn)
    BY <1>1, LoopFacts
  <2> QED
    BY <1>1, <1>2, <2>1 DEF LoopConf, Change, Inv, TypeOK
<1>4. /\ y \in Instance /\ y.pc = "select" /\ y.advancec /\ y.committed = x.committed
      /\ y.applied = x.applied /\ y.rd = x.rd /\ y.conf = x.conf \cup {l.next}
      /\ y.floor = x.floor
  BY <1>2, ConfChangedType
<1> HIDE DEF y
<1>5. l.last \in Nat
  BY <1>2
<1>6. m \in Loop /\ Handling(m) /\ m.at = rn /\ Progressed(y, m, l.next)
  <2>1. CASE Log[l.next] = AddPeer
    <3>1. m = AfterEntry(l)
      BY <2>1
    <3>2. y.committed \in Nat /\ y.applied \in Nat /\ y.applied < l.next /\ l.last =< y.committed
      BY <1>2, <1>4
    <3> QED
      BY <1>2, <1>3, <1>4, <3>1, <3>2, AfterEntryProgressed DEF Handling
  <2>2. CASE Log[l.next] # AddPeer
    <3>1. m \in Loop /\ m.pc = "stop" /\ m.at = rn /\ m.next = l.next /\ m.last = l.last
      BY <1>2, <2>2 DEF Loop
    <3> HIDE DEF m
    <3> QED
      BY <1>2, <1>4, <1>5, <3>1 DEF Progressed, Handling
  <2> QED
    BY <2>1, <2>2
<1>7. \A j \in (y.floor + 1)..l.next : Change(j) => j \in y.conf
  <2> TAKE j \in (y.floor + 1)..l.next
  <2>1. CASE j = l.next
    BY <1>4, <2>1
  <2>2. CASE j # l.next
    BY <1>2, <1>4, <2>2
  <2> QED
    BY <2>1, <2>2
<1>8. y.committed >= 1 /\ y.applied =< y.committed /\ y.applied =< l.next
  <2>1. /\ y.committed = x.committed /\ y.applied = x.applied /\ l.next >= 1 /\ l.next =< l.last
        /\ l.last =< x.committed /\ x.applied < l.next
    BY <1>2, <1>4
  <2>2. x.committed \in Nat /\ x.applied \in Nat /\ l.next \in Nat /\ l.last \in Nat
    BY <1>2, <1>5
  <2> QED
    BY <2>1, <2>2
<1>9. TypeOK' /\ Life' /\ Work'
  <2> HIDE DEF m
  <2> QED
    BY <1>1, <1>2, <1>3, <1>4, <1>6, <1>7, <1>8, LoopWorks, Zenon DEF Inv, Handling
<1>10. \A i \in Start : inst'[i].floor = inst[i].floor
  BY <1>3, <1>4 DEF Inv, TypeOK
<1>11. Store'
  <2>1. Replay(l.next) = Replay(l.next - 1)
    <3>1. l.next - 1 \in Nat /\ (l.next - 1) + 1 = l.next
      BY <1>2
    <3> QED
      BY <1>3, <3>1, ReplayNext
  <2>2. rn \in Start
    BY DEF Inv, TypeOK
  <2>3. CASE commitIndex = l.next - 1 /\ kv = Replay(commitIndex)
    <3>1. kv' = Replay(commitIndex')
      BY <1>3, <2>1, <2>3
    <3> QED
      BY <3>1 DEF Store, Replay
  <2>4. CASE commitIndex = l.next - 1 /\ kv # Replay(commitIndex)
    <3>1. PICK i \in Start : \E j \in commitIndex..inst[i].floor : kv = Replay(j)
      BY <2>4 DEF Inv, Store
    <3>2. PICK j \in commitIndex..inst[i].floor : kv = Replay(j)
      BY <3>1
    <3>3. inst[i].floor \in Nat
      BY <1>2, Zenon DEF Inv, TypeOK, Instance
    <3>4. j # commitIndex /\ j \in l.next..inst[i].floor
      BY <1>2, <2>4, <3>2, <3>3
    <3>5. \A n \in 1..l.next : Change(n)
      <4>1. \A n \in 1..commitIndex : Change(n)
        BY <2>4 DEF Inv, Store
      <4> QED
        BY <1>2, <1>3, <2>4, <4>1
    <3>6. j \in commitIndex'..inst'[i].floor /\ kv' = Replay(j)
      BY <1>3, <1>10, <3>2, <3>4
    <3>7. \A n \in 1..commitIndex' : Change(n)
      BY <1>3, <3>5
    <3> QED
      BY <3>6, <3>7, Zenon DEF Store, Replay, Change
  <2>5. CASE l.next = 1 /\ l.last =< commitIndex /\ commitIndex = x.floor
    <3>1. \A n \in 1..commitIndex' : Change(n)
      BY <1>3, <2>5
    <3>2. PICK i \in Start : \E j \in commitIndex..inst[i].floor : kv = Replay(j)
      BY <1>2, <2>2, <2>5 DEF Inv, Store
    <3>3. PICK j \in commitIndex..inst[i].floor : kv = Replay(j)
      BY <3>2
    <3>4. inst[i].floor \in Nat
      BY <1>2 DEF Inv, TypeOK, Instance
    <3>5. j \in commitIndex'..inst'[i].floor /\ kv' = Replay(j)
      BY <1>2, <1>3, <1>5, <1>10, <2>5, <3>3, <3>4
    <3> QED
      BY <3>1, <3>5, Zenon DEF Store, Replay, Change
  <2> QED
    BY <1>2, <2>3, <2>4, <2>5
<1> QED
  BY <1>9, <1>11 DEF Inv

\* The instance that Advance leaves.
LEMMA AdvancedType ==
  ASSUME NEW x \in Instance
  PROVE  /\ Advanced(x) \in Instance
         /\ Advanced(x).pc = x.pc /\ ~Advanced(x).advancec
         /\ Advanced(x).committed = x.committed /\ Advanced(x).applied = x.rd.last
         /\ Advanced(x).conf = x.conf /\ Advanced(x).floor = x.floor
<1> DEFINE Pc == {"none", "select", "done"}
           Hard == (0..MaxTerm) \X Index
           Conf == SUBSET Index
           Terms == 1..MaxTerm
           Msgs == 0..MaxMsgs
           Rd == [last : Index, hard : Hard]
           Bool == BOOLEAN
           no == FALSE
           none == <<0, 0>>
           r == [last |-> 0, hard |-> none]
           h == IF x.rd.hard = none THEN x.hard ELSE x.rd.hard
           y == Advanced(x)
<1>1. Instance = [pc : Pc, advancec : Bool, propc : Bool, term : Terms, committed : Index,
                  applied : Index, rd : Rd, hard : Hard, conf : Conf, floor : Index, msgs : Msgs]
  BY DEF Instance
<1>2. no \in Bool
  OBVIOUS
<1>3. none \in Hard /\ 0 \in Index
  BY BootAssumption, CapAssumption DEF Index
<1>4. y = [x EXCEPT !.advancec = no, !.applied = x.rd.last, !.hard = h, !.rd = r]
  BY DEF Advanced
<1> HIDE DEF Pc, Hard, Conf, Terms, Msgs, Bool, no, none, y
<1>5. r \in Rd /\ h \in Hard /\ x.rd.last \in Index
  BY <1>1, <1>3
<1> HIDE DEF Rd, r, h
<1>6. y \in Instance
  BY <1>1, <1>2, <1>4, <1>5, Zenon
<1>7. /\ y.pc = x.pc /\ y.advancec = no /\ y.committed = x.committed /\ y.applied = x.rd.last
      /\ y.conf = x.conf /\ y.floor = x.floor
  BY <1>1, <1>4
<1> QED
  BY <1>6, <1>7 DEF y, no

\* Advance acknowledges what was applied.
LEMMA LoopAdvanceInv ==
  ASSUME Inv, NEW k \in Start, LoopAdvance(k)
  PROVE  Inv'
<1> DEFINE x == inst[rn]
           y == Advanced(x)
           l == [NoLoop EXCEPT !.pc = "top"]
<1>1. loop[k].pc = "advance"
  BY DEF LoopAdvance
<1>2. /\ k = rn /\ Up(rn) /\ x \in Instance /\ x.committed \in Index /\ commitIndex \in Index
      /\ Index \subseteq Nat /\ term \in 0..MaxTerm /\ x.committed >= 1
      /\ Progressed(x, loop[rn], commitIndex)
      /\ \A j \in (x.floor + 1)..commitIndex : Change(j) => j \in x.conf
  BY <1>1, LoopFacts
<1>3. /\ inst' = [inst EXCEPT ![rn] = y] /\ loop' = [loop EXCEPT ![k] = l]
      /\ UNCHANGED <<running, rn, term, commitIndex, kv, fatal, caller, poll>>
  BY <1>2 DEF LoopAdvance, nodeState
<1>4. x.rd.last = commitIndex /\ x.rd.last =< x.committed
  BY <1>1, <1>2 DEF Progressed, Handling
<1>5. /\ y \in Instance /\ y.pc = "select" /\ ~y.advancec /\ y.committed = x.committed
      /\ y.applied = commitIndex /\ y.conf = x.conf /\ y.floor = x.floor
  BY <1>2, <1>4, AdvancedType DEF Up
<1>6. l \in Loop /\ l.pc = "top"
  BY BootAssumption, CapAssumption DEF Loop, NoLoop, Index
<1>7. \A i \in Start : inst'[i].floor = inst[i].floor
  BY <1>3, <1>5 DEF Inv, TypeOK
<1> HIDE DEF y, l
<1>8. Progressed(y, l, commitIndex') /\ ~Handling(l)
  BY <1>3, <1>5, <1>6, Zenon DEF Progressed, Handling
<1>9. TypeOK' /\ Life' /\ Work'
  <2>1. /\ y.committed >= 1 /\ y.applied =< y.committed /\ y.applied =< commitIndex'
        /\ \A j \in (y.floor + 1)..commitIndex' : Change(j) => j \in y.conf
    BY <1>2, <1>3, <1>4, <1>5
  <2>2. y.advancec <=> Handling(l)
    BY <1>5, <1>8
  <2> QED
    BY <1>1, <1>2, <1>3, <1>5, <1>6, <1>8, <2>1, <2>2, LoopWorks, Zenon DEF Inv
<1>10. Store'
  BY <1>3, <1>7, StoreStays DEF Inv
<1> QED
  BY <1>9, <1>10 DEF Inv

----------------------------------------------------------------------------
(* The steps of the calls.                                                 *)

\* Nothing but the callers moves, and these stay settled.
LEMMA SettledCalls ==
  ASSUME Inv, UNCHANGED <<nodeState, inst, loop>>,
         poll' \in [pc : {"top", "propose", "end"}, at : 0..MaxStarts],
         caller' \in [Caller -> [pc : Call, restart : BOOLEAN]],
         caller'["main"].pc \notin {"start", "startLoop"}, ~caller'["main"].restart,
         caller'["directive"].pc = "start" \/ caller'["directive"].restart => rn < MaxStarts,
         ~(caller'["directive"].pc = "start" /\ caller'["directive"].restart),
         \A c \in Caller : caller'[c] = caller[c] \/ (Settled(c) /\ caller'[c].pc \notin InBetween)
  PROVE  Inv'
<1> USE DEF Inv
<1>1. UNCHANGED <<running, rn, term, commitIndex, kv, fatal, inst, loop>>
  BY DEF nodeState
<1>2. TypeOK'
  BY <1>1 DEF TypeOK
<1>3. \A c \in Caller : /\ Settled(c) <=> Settled(c)'
                        /\ ~Settled(c) => caller'[c] = caller[c]
  BY DEF Settled
<1>4. Life'
  <2>1. Serving => Serving'
    BY <1>1, <1>3, Zenon DEF Serving, Up
  <2>2. Stopping => Stopping'
    BY <1>1, <1>3, Zenon DEF Stopping, Up, Settled, InBetween
  <2>3. Down => Down'
    BY <1>1, <1>3 DEF Down
  <2>4. Starting => Starting'
    BY <1>1, <1>3, Zenon DEF Starting, Up, Settled, InBetween, Caller
  <2> QED
    BY <1>1, <2>1, <2>2, <2>3, <2>4, Zenon DEF Life
<1>5. Work'
  <2>1. Progressed(inst[rn], loop[rn], commitIndex)' <=> Progressed(inst[rn], loop[rn], commitIndex)
    BY <1>1
  <2> QED
    BY <1>1, <2>1 DEF Work, Up, Handling, Change
<1>6. Store'
  BY <1>1, StoreStays, Zenon
<1> QED
  BY <1>2, <1>4, <1>5, <1>6

\* A directive may call Start,
LEMMA CallStartInv ==
  ASSUME Inv, CallStart
  PROVE  Inv'
<1>1. caller \in [Caller -> [pc : Call, restart : BOOLEAN]] /\ "directive" \in Caller
  BY DEF Inv, TypeOK, Caller
<1>2. /\ caller'["directive"] = [pc |-> "start", restart |-> FALSE]
      /\ \A c \in Caller : c # "directive" => caller'[c] = caller[c]
      /\ caller["directive"].pc = "idle" /\ rn < MaxStarts
  BY <1>1 DEF CallStart
<1>3. caller' \in [Caller -> [pc : Call, restart : BOOLEAN]]
  BY <1>1 DEF CallStart, Call
<1>4. caller'["main"] = caller["main"]
  BY <1>2 DEF Caller
<1>5. caller["main"].pc \notin {"start", "startLoop"} /\ ~caller["main"].restart
  BY DEF Inv, Life
<1> QED
  BY <1>2, <1>3, <1>4, <1>5, SettledCalls DEF CallStart, Settled, InBetween, Inv, TypeOK

\* What a call does once its Stop has returned.
LEMMA AfterStopType ==
  ASSUME NEW c \in Caller, NEW restart \in BOOLEAN, restart => c = "directive"
  PROVE  /\ AfterStop(c, restart) \in [pc : Call, restart : BOOLEAN]
         /\ AfterStop(c, restart).pc \in {"apiStop", "start", "idle"}
         /\ AfterStop(c, restart).pc = "start" => c = "directive" /\ restart
         /\ ~AfterStop(c, restart).restart
<1> DEFINE p == AfterStop(c, restart).pc
<1>1. AfterStop(c, restart) = [pc |-> p, restart |-> FALSE]
  BY DEF AfterStop
<1>2. CASE c = "main" /\ ~restart
  BY <1>1, <1>2 DEF AfterStop, Call
<1>3. CASE c = "directive" /\ restart
  BY <1>1, <1>3 DEF AfterStop, Call
<1>4. CASE c = "directive" /\ ~restart
  BY <1>1, <1>4, Zenon DEF AfterStop, Call
<1> QED
  BY <1>2, <1>3, <1>4 DEF Caller

\* anyone may call Stop,
LEMMA CallStopInv ==
  ASSUME Inv, NEW c \in Caller, NEW restart \in BOOLEAN, CallStop(c, restart)
  PROVE  Inv'
<1> DEFINE to == IF running THEN [pc |-> "stop", restart |-> restart] ELSE AfterStop(c, restart)
<1>1. caller \in [Caller -> [pc : Call, restart : BOOLEAN]]
  BY DEF Inv, TypeOK
<1>2. /\ caller' = [caller EXCEPT ![c] = to] /\ caller[c].pc = "idle"
      /\ restart => c = "directive" /\ rn < MaxStarts
      /\ UNCHANGED <<nodeState, inst, loop, poll>>
  BY DEF CallStop
<1>3. /\ to \in [pc : Call, restart : BOOLEAN]
      /\ to.pc \in {"stop", "apiStop", "start", "idle"}
      /\ to.pc = "start" \/ to.restart => c = "directive" /\ rn < MaxStarts
      /\ ~(to.pc = "start" /\ to.restart)
  BY <1>2, AfterStopType DEF Call
<1> HIDE DEF to
<1>4. /\ caller' \in [Caller -> [pc : Call, restart : BOOLEAN]] /\ caller'[c] = to
      /\ \A d \in Caller : d # c => caller'[d] = caller[d]
  BY <1>1, <1>2, <1>3
<1>5. /\ caller["main"].pc \notin {"start", "startLoop"} /\ ~caller["main"].restart
      /\ caller["directive"].pc = "start" \/ caller["directive"].restart => rn < MaxStarts
      /\ ~(caller["directive"].pc = "start" /\ caller["directive"].restart)
  BY DEF Inv, Life
<1>6. "main" \in Caller /\ "directive" \in Caller
  BY DEF Caller
<1>7. /\ caller'["main"].pc \notin {"start", "startLoop"} /\ ~caller'["main"].restart
      /\ caller'["directive"].pc = "start" \/ caller'["directive"].restart => rn < MaxStarts
      /\ ~(caller'["directive"].pc = "start" /\ caller'["directive"].restart)
  BY <1>3, <1>4, <1>5, <1>6
<1> QED
  BY <1>2, <1>3, <1>4, <1>7, SettledCalls DEF Settled, InBetween, Inv, TypeOK

\* and main goes on to end the poll.
LEMMA ApiStopInv ==
  ASSUME Inv, ApiStop
  PROVE  Inv'
<1>1. caller \in [Caller -> [pc : Call, restart : BOOLEAN]]
      /\ "main" \in Caller /\ "directive" \in Caller
  BY DEF Inv, TypeOK, Caller
<1>2. /\ caller' \in [Caller -> [pc : Call, restart : BOOLEAN]]
      /\ caller'["main"].pc = "exit" /\ caller'["main"].restart = caller["main"].restart
      /\ \A d \in Caller : d # "main" => caller'[d] = caller[d]
  BY <1>1 DEF ApiStop, Call
<1>3. caller["main"].pc = "apiStop" /\ UNCHANGED <<nodeState, inst, loop, poll>>
  BY DEF ApiStop
<1>4. /\ ~caller["main"].restart
      /\ caller["directive"].pc = "start" \/ caller["directive"].restart => rn < MaxStarts
      /\ ~(caller["directive"].pc = "start" /\ caller["directive"].restart)
  BY Zenon DEF Inv, Life
<1> QED
  BY <1>1, <1>2, <1>3, <1>4, SettledCalls DEF Settled, InBetween, Inv, TypeOK

\* An instance that has begun, or is over, is NoInstance but for two fields.
LEMMA FreshInstance ==
  ASSUME NEW f \in Index
  PROVE  /\ NoInstance \in Instance /\ NoInstance.floor = 0
         /\ [NoInstance EXCEPT !.pc = "none"] = NoInstance
         /\ [NoInstance EXCEPT !.pc = "select"] = [NoInstance EXCEPT !.pc = "select", !.floor = 0]
         /\ [NoInstance EXCEPT !.pc = "done", !.floor = f] \in Instance
         /\ [NoInstance EXCEPT !.pc = "done", !.floor = f].pc = "done"
         /\ [NoInstance EXCEPT !.pc = "done", !.floor = f].floor = f
         /\ [NoInstance EXCEPT !.pc = "select", !.floor = f] \in Instance
         /\ [NoInstance EXCEPT !.pc = "select", !.floor = f].pc = "select"
         /\ [NoInstance EXCEPT !.pc = "select", !.floor = f].floor = f
         /\ ~[NoInstance EXCEPT !.pc = "select", !.floor = f].advancec
         /\ [NoInstance EXCEPT !.pc = "select", !.floor = f].applied = 0
         /\ [NoInstance EXCEPT !.pc = "select", !.floor = f].committed = Boot
<1> DEFINE Pc == {"none", "select", "done"}
           Hard == (0..MaxTerm) \X Index
           Conf == SUBSET Index
           Terms == 1..MaxTerm
           Msgs == 0..MaxMsgs
           Rd == [last : Index, hard : Hard]
           Bool == BOOLEAN
           no == FALSE
           none == <<0, 0>>
           boot == 1..Boot
           r == [last |-> 0, hard |-> none]
           x == NoInstance
<1>1. Instance = [pc : Pc, advancec : Bool, propc : Bool, term : Terms, committed : Index,
                  applied : Index, rd : Rd, hard : Hard, conf : Conf, floor : Index, msgs : Msgs]
  BY DEF Instance
<1>2. x = [pc |-> "none", advancec |-> no, propc |-> no, term |-> 1, committed |-> Boot,
           applied |-> 0, rd |-> r, hard |-> none, conf |-> boot, floor |-> 0, msgs |-> 0]
  BY DEF NoInstance
<1>3. no \in Bool /\ "none" \in Pc /\ "select" \in Pc /\ "done" \in Pc
  OBVIOUS
<1>4. none \in Hard /\ 0 \in Index /\ Boot \in Index /\ 1 \in Terms /\ 0 \in Msgs
  BY BootAssumption, CapAssumption DEF Index
<1>5. boot \in Conf
  BY BootAssumption DEF Index
<1> HIDE DEF Pc, Hard, Conf, Terms, Msgs, Bool, no, none, boot, x
<1>6. r \in Rd
  BY <1>4
<1> HIDE DEF Rd, r
<1>7. x \in Instance /\ x.floor = 0 /\ x.advancec = no /\ x.applied = 0 /\ x.committed = Boot
  BY <1>1, <1>2, <1>3, <1>4, <1>5, <1>6
<1>8. ASSUME NEW p \in Pc
      PROVE  /\ [x EXCEPT !.pc = p, !.floor = f] \in Instance
             /\ [x EXCEPT !.pc = p, !.floor = f].pc = p /\ [x EXCEPT !.pc = p, !.floor = f].floor = f
             /\ [x EXCEPT !.pc = p, !.floor = f].advancec = no
             /\ [x EXCEPT !.pc = p, !.floor = f].applied = 0
             /\ [x EXCEPT !.pc = p, !.floor = f].committed = Boot
  BY <1>1, <1>7, Zenon
<1>9. x.pc = "none"
  BY <1>2
<1>10. /\ [x EXCEPT !.pc = "none"] = x
       /\ [x EXCEPT !.pc = "select"] = [x EXCEPT !.pc = "select", !.floor = 0]
  BY <1>1, <1>7, <1>9, Zenon
<1> QED
  BY <1>3, <1>7, <1>8, <1>10, Zenon DEF x, no

\* Stop meets the loop in its select: no Ready is being handled.
LEMMA LoopDoneInv ==
  ASSUME Inv, NEW k \in Start, NEW c \in Caller, LoopDone(k, c)
  PROVE  Inv'
<1> USE DEF Inv
<1> DEFINE l == [NoLoop EXCEPT !.pc = "end"]
<1>1. loop[k].pc = "select" /\ caller[c].pc = "stop"
  BY DEF LoopDone
<1>2. k = rn /\ Serving /\ rn \in Start
  BY <1>1, AliveLoop DEF TypeOK
<1>3. l \in Loop /\ l.pc = "end"
  BY BootAssumption, CapAssumption DEF Loop, NoLoop, Index
<1> HIDE DEF l
<1>4. /\ loop' = [loop EXCEPT ![rn] = l] /\ caller' = [caller EXCEPT ![c].pc = "stopRN"]
      /\ UNCHANGED <<running, rn, term, commitIndex, kv, fatal, inst, poll>>
  BY <1>2 DEF LoopDone, nodeState, l
<1>5. loop'[rn] = l /\ \A j \in Start : j # rn => loop'[j] = loop[j]
  BY <1>2, <1>4 DEF TypeOK
<1>6. /\ caller'[c].pc = "stopRN" /\ caller'[c].restart = caller[c].restart
      /\ \A d \in Caller : d # c => caller'[d] = caller[d]
      /\ caller' \in [Caller -> [pc : Call, restart : BOOLEAN]]
  BY <1>4 DEF TypeOK, Call
<1>7. TypeOK'
  BY <1>3, <1>4, <1>6 DEF TypeOK
<1>8. Life'
  <2>1. Stopping'
    BY <1>2, <1>3, <1>4, <1>5, <1>6 DEF Serving, Stopping, Settled, Up
  <2>2. \A i \in Start : i < rn \/ i > rn => i # rn
    BY CapAssumption DEF TypeOK, Start
  <2>3. \A d \in Caller : caller'[d].restart = caller[d].restart
    BY <1>6
  <2>4. "main" \in Caller /\ "directive" \in Caller
    BY DEF Caller
  <2> QED
    BY <1>4, <1>5, <1>6, <2>1, <2>2, <2>3, <2>4 DEF Life
<1>9. Work'
  <2>1. Progressed(inst[rn], loop[rn], commitIndex) /\ Up(rn) /\ ~Handling(loop[rn])
    BY <1>1, <1>2, Zenon DEF Work, Serving, Handling
  <2>2. Progressed(inst[rn], l, commitIndex) /\ ~Handling(l)
    BY <1>1, <1>2, <1>3, <2>1 DEF Progressed, Handling
  <2>3. Progressed(inst[rn], loop[rn], commitIndex)' /\ ~Handling(loop[rn])'
    BY <1>4, <1>5, <2>2
  <2> QED
    BY <1>3, <1>4, <1>5, <2>1, <2>3, Zenon DEF Work, Up, Change
<1>10. Store'
  BY <1>4, StoreStays, Zenon
<1> QED
  BY <1>7, <1>8, <1>9, <1>10

\* A Stop that has ended the loop is the only call that is half done.
LEMMA StopAlone ==
  ASSUME Life, NEW c \in Caller, caller[c].pc \in {"stopRN", "stopped"}
  PROVE  /\ running /\ loop[rn].pc = "end"
         /\ \A d \in Caller : d # c => Settled(d)
         /\ caller[c].pc = "stopRN" => Up(rn)
         /\ caller[c].pc = "stopped" => inst[rn].pc = "done"
<1>1. ~Settled(c)
  BY DEF Settled, InBetween
<1>2. Stopping
  BY <1>1 DEF Life, Serving, Down, Starting, Caller
<1>3. PICK d \in Caller : /\ \/ caller[d].pc = "stopRN" /\ Up(rn)
                             \/ caller[d].pc = "stopped" /\ inst[rn].pc = "done"
                          /\ \A e \in Caller \ {d} : Settled(e)
  BY <1>2 DEF Stopping
<1>4. d = c
  BY <1>1, <1>3
<1> QED
  BY <1>2, <1>3, <1>4 DEF Stopping

\* Stop ends the instance once the loop has ended,
LEMMA StopRNInv ==
  ASSUME Inv, NEW c \in Caller, StopRN(c)
  PROVE  Inv'
<1> USE DEF Inv
<1> DEFINE y == [NoInstance EXCEPT !.pc = "done", !.floor = inst[rn].floor]
<1>1. /\ inst' = [inst EXCEPT ![rn] = y] /\ caller' = [caller EXCEPT ![c].pc = "stopped"]
      /\ caller[c].pc = "stopRN"
      /\ UNCHANGED <<running, rn, term, commitIndex, kv, fatal, loop, poll>>
  BY DEF StopRN, nodeState
<1>2. /\ running /\ loop[rn].pc = "end" /\ \A d \in Caller : d # c => Settled(d)
  BY <1>1, StopAlone, Zenon
<1>3. y \in Instance /\ y.pc = "done" /\ y.floor = inst[rn].floor
  <2>1. inst[rn].floor \in Index
    BY DEF TypeOK, Instance
  <2> QED
    BY <2>1, FreshInstance, Zenon
<1> HIDE DEF y
<1>4. rn \in Start /\ inst'[rn] = y /\ \A i \in Start : i # rn => inst'[i] = inst[i]
  BY <1>1 DEF TypeOK
<1>5. /\ caller'[c].pc = "stopped" /\ caller'[c].restart = caller[c].restart
      /\ \A d \in Caller : d # c => caller'[d] = caller[d]
      /\ caller' \in [Caller -> [pc : Call, restart : BOOLEAN]]
  BY <1>1 DEF TypeOK, Call
<1>6. TypeOK'
  BY <1>1, <1>3, <1>5 DEF TypeOK
<1>7. Life'
  <2>1. Stopping'
    BY <1>1, <1>2, <1>3, <1>4, <1>5 DEF Stopping, Settled
  <2>2. \A i \in Start : i < rn \/ i > rn => i # rn
    BY CapAssumption DEF TypeOK, Start
  <2>3. \A d \in Caller : caller'[d].restart = caller[d].restart
    BY <1>5
  <2>4. "main" \in Caller /\ "directive" \in Caller
    BY DEF Caller
  <2> QED
    BY <1>1, <1>4, <1>5, <2>1, <2>2, <2>3, <2>4 DEF Life
<1>8. Work'
  BY <1>1, <1>2, <1>3, <1>4 DEF Work, Up, Handling
<1>9. Store'
  BY <1>1, <1>3, <1>4, StoreStays
<1> QED
  BY <1>6, <1>7, <1>8, <1>9

\* and then lets the running flag fall.
LEMMA StopReturnsInv ==
  ASSUME Inv, NEW c \in Caller, StopReturns(c)
  PROVE  Inv'
<1> USE DEF Inv
<1> DEFINE to == AfterStop(c, caller[c].restart)
<1>1. /\ caller' = [caller EXCEPT ![c] = to] /\ caller[c].pc = "stopped" /\ running' = FALSE
      /\ UNCHANGED <<rn, term, commitIndex, kv, fatal, inst, loop, poll>>
  BY Zenon DEF StopReturns, TypeOK
<1>2. loop[rn].pc = "end" /\ inst[rn].pc = "done" /\ \A d \in Caller : d # c => Settled(d)
  BY <1>1, StopAlone
<1>3. caller[c].restart \in BOOLEAN /\ (caller[c].restart => c = "directive")
  BY Zenon DEF TypeOK, Life, Caller
<1>4. /\ to \in [pc : Call, restart : BOOLEAN] /\ to.pc \in {"apiStop", "start", "idle"}
      /\ to.pc = "start" => c = "directive" /\ caller[c].restart
      /\ ~to.restart
  BY <1>3, AfterStopType
<1> HIDE DEF to
<1>5. /\ caller'[c] = to /\ \A d \in Caller : d # c => caller'[d] = caller[d]
      /\ caller' \in [Caller -> [pc : Call, restart : BOOLEAN]]
  BY <1>1, <1>4 DEF TypeOK
<1>6. TypeOK'
  BY <1>1, <1>5, Zenon DEF TypeOK
<1>7. Life'
  <2>1. \A d \in Caller : Settled(d)'
    BY <1>2, <1>4, <1>5 DEF Settled, InBetween
  <2>2. Down'
    BY <1>1, <1>2, <2>1 DEF Down
  <2>3. "main" \in Caller /\ "directive" \in Caller
    BY DEF Caller
  <2>4. /\ caller'["main"].pc \notin {"start", "startLoop"} /\ ~caller'["main"].restart
        /\ caller'["directive"].pc = "start" \/ caller'["directive"].restart => rn < MaxStarts
        /\ ~(caller'["directive"].pc = "start" /\ caller'["directive"].restart)
    BY <1>4, <1>5, <2>3, Zenon DEF Life
  <2> QED
    BY <1>1, <2>2, <2>4 DEF Life
<1>8. Work'
  BY <1>1, <1>2 DEF Work, Up, Handling
<1>9. Store'
  BY <1>1, StoreStays
<1> QED
  BY <1>6, <1>7, <1>8, <1>9

\* Start: the instance after the current one begins, with the commit index
\* of the node as its floor.
LEMMA StartRNInv ==
  ASSUME Inv, NEW c \in Caller, StartRN(c)
  PROVE  Inv'
<1> USE DEF Inv
<1>1. c = "directive" /\ caller[c].pc = "start" /\ rn < MaxStarts /\ ~caller[c].restart
  BY DEF StartRN, Life, Caller
<1>2. "main" \in Caller /\ "directive" \in Caller
  BY DEF Caller
<1>3. caller["main"].pc \notin {"start", "startLoop"} /\ ~caller["main"].restart
  BY DEF Life
<1>4. CASE running
  <2>1. /\ caller' = [caller EXCEPT ![c].pc = "idle"]
        /\ UNCHANGED <<nodeState, inst, loop, poll>>
    BY <1>4 DEF StartRN, nodeState
  <2>2. /\ caller'[c].pc = "idle" /\ caller'[c].restart = caller[c].restart
        /\ \A d \in Caller : d # c => caller'[d] = caller[d]
        /\ caller' \in [Caller -> [pc : Call, restart : BOOLEAN]]
    BY <2>1 DEF TypeOK, Call
  <2> QED
    BY <1>1, <1>2, <1>3, <2>1, <2>2, SettledCalls DEF Settled, InBetween, TypeOK
<1>5. CASE ~running
  <2> DEFINE n == rn + 1
             y == [NoInstance EXCEPT !.pc = "select", !.floor = commitIndex]
  <2>1. /\ n \in Start /\ rn \in Nat /\ Start \subseteq Nat /\ Index \subseteq Nat
        /\ commitIndex \in Index
    BY <1>1, BootAssumption, CapAssumption DEF TypeOK, Start, Index
  <2>2. inst[n] = NoInstance /\ loop[n] = NoLoop
    BY <2>1 DEF Life
  <2>3. /\ rn' = n /\ inst' = [inst EXCEPT ![n] = y]
        /\ caller' = [caller EXCEPT ![c].pc = "startLoop"]
        /\ UNCHANGED <<running, term, commitIndex, kv, fatal, loop, poll>>
    BY <1>5, <2>1, <2>2, Zenon DEF StartRN, TypeOK
  <2>4. /\ y \in Instance /\ y.pc = "select" /\ y.floor = commitIndex /\ ~y.advancec
        /\ y.applied = 0 /\ y.committed = Boot /\ NoInstance.floor = 0
    BY <2>1, FreshInstance, Zenon
  <2>5. NoLoop.pc = "none"
    BY DEF NoLoop
  <2> HIDE DEF y
  <2>6. /\ inst'[n] = y /\ \A i \in Start : i # n => inst'[i] = inst[i]
    BY <2>1, <2>3 DEF TypeOK
  <2>7. /\ caller'[c].pc = "startLoop" /\ caller'[c].restart = caller[c].restart
        /\ \A d \in Caller : d # c => caller'[d] = caller[d]
        /\ caller' \in [Caller -> [pc : Call, restart : BOOLEAN]]
    BY <2>3 DEF TypeOK, Call
  <2>8. Down
    BY <1>1, <1>5 DEF Life, Serving, Stopping, Starting
  <2>9. TypeOK'
    BY <2>1, <2>3, <2>4, <2>7 DEF TypeOK
  <2>10. Life'
    <3>1. \A i \in Start : i < n => inst'[i].pc = "done" /\ loop'[i].pc = "end"
      <4> TAKE i \in Start
      <4>1. i < n => i # n /\ (i < rn \/ i = rn)
        BY <2>1
      <4> QED
        BY <2>3, <2>6, <2>8, <4>1 DEF Life, Down
    <3>2. \A i \in Start : i > n => inst'[i] = NoInstance /\ loop'[i] = NoLoop
      <4> TAKE i \in Start
      <4>1. i > n => i # n /\ i > rn
        BY <2>1
      <4> QED
        BY <2>3, <2>6, <4>1 DEF Life
    <3>3. Starting'
      BY <1>1, <1>2, <1>5, <2>2, <2>3, <2>4, <2>5, <2>6, <2>7, <2>8 DEF Starting, Down, Settled, Up
    <3> QED
      BY <1>1, <1>2, <1>3, <2>3, <2>7, <3>1, <3>2, <3>3 DEF Life
  <2>11. Work'
    <3>1. Progressed(y, NoLoop, commitIndex) /\ ~Handling(NoLoop)
      BY <2>4, <2>5 DEF Progressed, Handling
    <3>2. inst'[rn'] = y /\ loop'[rn'] = NoLoop
      BY <2>2, <2>3, <2>6
    <3>3. /\ y.committed >= 1 /\ y.applied =< y.committed /\ y.applied =< commitIndex
          /\ \A j \in (y.floor + 1)..commitIndex : Change(j) => j \in y.conf
      BY <2>1, <2>4, BootAssumption
    <3> QED
      BY <2>3, <2>4, <2>5, <3>1, <3>2, <3>3 DEF Work, Up, Change
  <2>12. Store'
    <3>1. CASE kv = Replay(commitIndex)
      <4>1. kv' = Replay(commitIndex')
        BY <2>3, <3>1
      <4> QED
        BY <4>1 DEF Store, Replay
    <3>2. CASE kv # Replay(commitIndex)
      <4>1. PICK i \in Start : \E j \in commitIndex..inst[i].floor : kv = Replay(j)
        BY <3>2 DEF Store
      <4>2. PICK j \in commitIndex..inst[i].floor : kv = Replay(j)
        BY <4>1
      <4>3. j \in commitIndex'..inst'[i].floor /\ kv' = Replay(j)
        <5>1. CASE i = n
          BY <2>1, <2>2, <2>3, <2>4, <2>6, <4>2, <5>1
        <5>2. CASE i # n
          BY <2>3, <2>6, <4>2, <5>2
        <5> QED
          BY <5>1, <5>2
      <4>4. \A m \in 1..commitIndex' : Change(m)
        BY <2>3, <3>2 DEF Store
      <4>5. \E h \in Start : \E m \in commitIndex'..inst'[h].floor : kv' = Replay(m)
        BY <4>3
      <4> QED
        BY <4>4, <4>5, Zenon DEF Store, Replay, Change
    <3> QED
      BY <3>1, <3>2
  <2> QED
    BY <2>9, <2>10, <2>11, <2>12
<1> QED
  BY <1>4, <1>5

\* Start begins the loop once the instance is there.
LEMMA StartLoopInv ==
  ASSUME Inv, NEW c \in Caller, StartLoop(c)
  PROVE  Inv'
<1> USE DEF Inv
<1> DEFINE l == [loop[rn] EXCEPT !.pc = "top"]
<1>1. c = "directive" /\ caller[c].pc = "startLoop"
  BY DEF StartLoop, Life, Caller
<1>2. Starting
  <2>1. ~Settled(c)
    BY <1>1 DEF Settled, InBetween
  <2> QED
    BY <1>1, <2>1 DEF Life, Serving, Stopping, Down
<1>3. loop[rn] \in Loop /\ rn \in Start
  BY DEF TypeOK
<1>4. l \in Loop /\ l.pc = "top"
  BY <1>3 DEF Loop
<1> HIDE DEF l
<1>5. /\ running' = TRUE /\ loop' = [loop EXCEPT ![rn] = l]
      /\ caller' = [caller EXCEPT ![c].pc = "idle"]
      /\ UNCHANGED <<rn, term, commitIndex, kv, fatal, inst, poll>>
  BY <1>3 DEF StartLoop, TypeOK, l
<1>6. loop'[rn] = l /\ \A j \in Start : j # rn => loop'[j] = loop[j]
  BY <1>3, <1>5 DEF TypeOK
<1>7. /\ caller'[c].pc = "idle" /\ caller'[c].restart = caller[c].restart
      /\ \A d \in Caller : d # c => caller'[d] = caller[d]
      /\ caller' \in [Caller -> [pc : Call, restart : BOOLEAN]]
  BY <1>5 DEF TypeOK, Call
<1>8. TypeOK'
  BY <1>4, <1>5, <1>7 DEF TypeOK
<1>9. Life'
  <2>1. Serving'
    BY <1>1, <1>2, <1>4, <1>5, <1>6, <1>7 DEF Serving, Starting, Settled, InBetween, Up, Caller
  <2>2. \A i \in Start : i < rn \/ i > rn => i # rn
    BY CapAssumption DEF TypeOK, Start
  <2>3. "main" \in Caller /\ "directive" \in Caller
    BY DEF Caller
  <2> QED
    BY <1>1, <1>5, <1>6, <1>7, <2>1, <2>2, <2>3 DEF Life
<1>10. Work'
  <2>1. Progressed(inst[rn], loop[rn], commitIndex) /\ Up(rn) /\ ~Handling(loop[rn])
    BY <1>2, Zenon DEF Work, Starting, Handling
  <2>2. Progressed(inst[rn], l, commitIndex) /\ ~Handling(l)
    BY <1>2, <1>4, <2>1 DEF Progressed, Handling, Starting
  <2>3. Progressed(inst[rn], loop[rn], commitIndex)' /\ ~Handling(loop[rn])'
    BY <1>5, <1>6, <2>2
  <2> QED
    BY <1>4, <1>5, <1>6, <2>1, <2>3, Zenon DEF Work, Up, Change
<1>11. Store'
  BY <1>5, StoreStays
<1> QED
  BY <1>8, <1>9, <1>10, <1>11

\* poll only reads.
LEMMA PollInv ==
  ASSUME Inv, PollTake \/ PollHandsOver \/ PollGivesUp \/ PollEnds
  PROVE  Inv'
<1>1. UNCHANGED <<nodeState, inst, loop, caller>>
  BY DEF PollTake, PollHandsOver, PollGivesUp, PollEnds
<1>2. poll' \in [pc : {"top", "propose", "end"}, at : 0..MaxStarts]
  <2>1. poll \in [pc : {"top", "propose", "end"}, at : 0..MaxStarts] /\ rn \in 0..MaxStarts
    BY CapAssumption DEF Inv, TypeOK, Start
  <2> QED
    BY <2>1, CapAssumption DEF PollTake, PollHandsOver, PollGivesUp, PollEnds
<1>3. /\ caller \in [Caller -> [pc : Call, restart : BOOLEAN]]
      /\ caller["main"].pc \notin {"start", "startLoop"} /\ ~caller["main"].restart
      /\ caller["directive"].pc = "start" \/ caller["directive"].restart => rn < MaxStarts
      /\ ~(caller["directive"].pc = "start" /\ caller["directive"].restart)
  BY DEF Inv, TypeOK, Life
<1> QED
  BY <1>1, <1>2, <1>3, SettledCalls

----------------------------------------------------------------------------
(* The theorems.                                                           *)

\* The process starts with the first instance and its loop.
LEMMA InitInv == Init => Inv
<1> SUFFICES ASSUME Init PROVE Inv
  OBVIOUS
<1>1. /\ running = TRUE /\ rn = 1 /\ term = 0 /\ commitIndex = 0 /\ kv = Absent
      /\ fatal = FALSE /\ poll = [pc |-> "top", at |-> 0]
      /\ caller = [c \in Caller |-> [pc |-> "idle", restart |-> FALSE]]
  BY DEF Init
<1>2. 1 \in Start /\ Start \subseteq Nat /\ 0 \in Index /\ Boot >= 1
  <2>1. 1 \in Start /\ Start \subseteq Nat
    BY CapAssumption DEF Start
  <2>2. 0 \in Index /\ Boot >= 1
    BY BootAssumption DEF Index
  <2> QED
    BY <2>1, <2>2, Zenon
<1> DEFINE y == [NoInstance EXCEPT !.pc = "select"]
           l == [NoLoop EXCEPT !.pc = "top"]
<1>3. /\ y \in Instance /\ NoInstance \in Instance /\ y.pc = "select" /\ ~y.advancec
      /\ y.applied = 0 /\ y.committed = Boot /\ y.floor = 0
  <2>1. y = [NoInstance EXCEPT !.pc = "select", !.floor = 0]
    BY <1>2, FreshInstance, Zenon
  <2> HIDE DEF y
  <2> QED
    BY <1>2, <2>1, FreshInstance, Zenon
<1>4. l \in Loop /\ NoLoop \in Loop /\ l.pc = "top"
  BY <1>2, CapAssumption DEF NoLoop, Loop
<1>5. [NoInstance EXCEPT !.pc = "none"] = NoInstance /\ [NoLoop EXCEPT !.pc = "none"] = NoLoop
  <2>1. [NoInstance EXCEPT !.pc = "none"] = NoInstance
    BY <1>2, FreshInstance, Zenon
  <2>2. [NoLoop EXCEPT !.pc = "none"] = NoLoop
    BY DEF NoLoop
  <2> QED
    BY <2>1, <2>2, Zenon
<1> HIDE DEF y, l
<1>6. /\ inst = [i \in Start |-> IF i = 1 THEN y ELSE NoInstance]
      /\ loop = [i \in Start |-> IF i = 1 THEN l ELSE NoLoop]
  <2>1. ASSUME NEW i \in Start
        PROVE  /\ [NoInstance EXCEPT !.pc = IF i = 1 THEN "select" ELSE "none"]
                    = IF i = 1 THEN y ELSE NoInstance
               /\ [NoLoop EXCEPT !.pc = IF i = 1 THEN "top" ELSE "none"]
                    = IF i = 1 THEN l ELSE NoLoop
    <3>1. CASE i = 1
      BY <3>1 DEF y, l
    <3>2. CASE i # 1
      BY <1>5, <3>2
    <3> QED
      BY <3>1, <3>2
  <2>2. /\ inst = [i \in Start |-> [NoInstance EXCEPT !.pc = IF i = 1 THEN "select" ELSE "none"]]
        /\ loop = [i \in Start |-> [NoLoop EXCEPT !.pc = IF i = 1 THEN "top" ELSE "none"]]
    BY DEF Init
  <2> QED
    BY <2>1, <2>2, Zenon
<1>7. TypeOK
  <2>1. inst \in [Start -> Instance] /\ loop \in [Start -> Loop]
    BY <1>3, <1>4, <1>6
  <2>2. caller \in [Caller -> [pc : Call, restart : BOOLEAN]]
    BY <1>1 DEF Call
  <2>3. poll \in [pc : {"top", "propose", "end"}, at : 0..MaxStarts]
    BY <1>1, CapAssumption
  <2>4. rn \in Start /\ commitIndex \in Index /\ term \in 0..MaxTerm
    BY <1>1, <1>2, CapAssumption
  <2> QED
    BY <1>1, <2>1, <2>2, <2>3, <2>4, Zenon DEF TypeOK
<1>8. inst[rn] = y /\ loop[rn] = l
  BY <1>1, <1>2, <1>6
<1>9. Life
  <2>1. \A c \in Caller : caller[c].pc = "idle" /\ ~caller[c].restart
    BY <1>1
  <2>2. Serving
    BY <1>1, <1>3, <1>4, <1>8, <2>1 DEF Serving, Settled, InBetween, Up
  <2>3. \A i \in Start : ~(i < rn) /\ (i > rn => inst[i] = NoInstance /\ loop[i] = NoLoop)
    <3> TAKE i \in Start
    <3>1. ~(i < 1) /\ (i > 1 => i # 1)
      BY DEF Start
    <3>2. i # 1 => inst[i] = NoInstance /\ loop[i] = NoLoop
      BY <1>6, Zenon
    <3> QED
      BY <1>1, <3>1, <3>2, Zenon
  <2> QED
    BY <2>1, <2>2, <2>3 DEF Life, Caller
<1>10. Work
  <2>1. Progressed(y, l, 0) /\ ~Handling(l)
    BY <1>3, <1>4 DEF Progressed, Handling
  <2>2. y.committed >= 1 /\ y.applied =< y.committed /\ y.applied =< 0
    BY <1>2, <1>3, BootAssumption
  <2> QED
    BY <1>1, <1>3, <1>4, <1>8, <2>1, <2>2 DEF Work
<1>11. Store
  <2>1. Replay(0) = Absent
    BY ReplayNone
  <2> QED
    BY <1>1, <2>1 DEF Store
<1> QED
  BY <1>7, <1>9, <1>10, <1>11 DEF Inv

\* Every step of every goroutine keeps the invariant.
LEMMA NextInv == Inv /\ [Next]_vars => Inv'
<1> SUFFICES ASSUME Inv, [Next]_vars PROVE Inv'
  OBVIOUS
<1>1. CASE \E i \in Start : RunSteps(i)
  BY <1>1, RunStepsInv
<1>2. ASSUME NEW k \in Start, LoopGoesOn(k) \/ LoopTicker(k) \/ LoopReady(k)
      PROVE  Inv'
  BY <1>2, LoopTopInv, LoopStatusInv, LoopCutInv, LoopSetInv, LoopConfInv, LoopAdvanceInv,
     LoopTickerInv, LoopReadyInv DEF LoopGoesOn
<1>3. CASE \E k \in Start, c \in Caller : LoopDone(k, c)
  BY <1>3, LoopDoneInv
<1>4. CASE CallStart \/ ApiStop
  BY <1>4, CallStartInv, ApiStopInv
<1>5. CASE \E c \in Caller, restart \in BOOLEAN : CallStop(c, restart)
  BY <1>5, CallStopInv
<1>6. ASSUME NEW c \in Caller, CallGoesOn(c)
      PROVE  Inv'
  BY <1>6, StopRNInv, StopReturnsInv, StartRNInv, StartLoopInv DEF CallGoesOn
<1>7. CASE PollTake \/ PollHandsOver \/ PollGivesUp \/ PollEnds
  BY <1>7, PollInv
<1>8. CASE UNCHANGED vars
  <2>1. UNCHANGED <<nodeState, inst, loop, caller, poll>>
    BY <1>8 DEF vars
  <2>2. /\ caller \in [Caller -> [pc : Call, restart : BOOLEAN]]
        /\ poll \in [pc : {"top", "propose", "end"}, at : 0..MaxStarts]
        /\ caller["main"].pc \notin {"start", "startLoop"} /\ ~caller["main"].restart
        /\ caller["directive"].pc = "start" \/ caller["directive"].restart => rn < MaxStarts
        /\ ~(caller["directive"].pc = "start" /\ caller["directive"].restart)
    BY DEF Inv, TypeOK, Life
  <2> QED
    BY <2>1, <2>2, SettledCalls
<1> QED
  BY <1>1, <1>2, <1>3, <1>4, <1>5, <1>6, <1>7, <1>8 DEF Next

\* So it always holds.
LEMMA InvHolds == Spec => []Inv
<1> QED
  BY InitInv, NextInv, PTL DEF Spec

\* The state of the process is well typed: no commit index, no entry to be
\* applied and no message count leaves its range.
THEOREM AppTypeCorrect == Spec => []TypeOK
<1>1. Inv => TypeOK
  BY DEF Inv
<1> QED
  BY <1>1, InvHolds, PTL

\* Advance never acknowledges entries before applyEntries has gone through
\* them, also not when a restarted node begins its log anew.
THEOREM AcksAreEarned == Spec => []AckIsEarned
<1>1. Inv => AckIsEarned
  <2> SUFFICES ASSUME Inv, NEW i \in Start, Up(i)
               PROVE  inst[i].applied =< commitIndex
    BY DEF AckIsEarned
  <2>1. i = rn
    BY UpIsCurrent DEF Inv
  <2> QED
    BY <2>1 DEF Inv, Work
<1> QED
  BY <1>1, InvHolds, PTL

\* While Start, Stop and Restart come as directives one at a time, after the
\* Start of main, and the Stop of main comes at any moment of any of them, there
\* is one raftloop and one run at most, and none out of the reach of Stop.  It
\* says nothing of two Starts at a time, which both pass the check of the
\* running flag (raft/node.go:146).
THEOREM OneLoopWithDirectivesInTurn == Spec => []OneLoop
<1>1. Inv => OneLoop
  <2> SUFFICES ASSUME Inv PROVE OneLoop
    OBVIOUS
  <2> DEFINE K == {k \in Start : loop[k].pc \notin {"none", "end"}}
             I == {i \in Start : Up(i)}
  <2>1. \A S : S \subseteq {rn} => Cardinality(S) =< 1
    <3> TAKE S
    <3> HAVE S \subseteq {rn}
    <3>1. Cardinality({}) = 0 /\ Cardinality({rn}) = 1
      BY FS_EmptySet, FS_Singleton, Zenon
    <3>2. S = {} \/ S = {rn}
      OBVIOUS
    <3> QED
      BY <3>1, <3>2
  <2>2. K \subseteq {rn} /\ I \subseteq {rn}
    BY AliveLoop, UpIsCurrent DEF Inv
  <2>3. \A i \in Start : Up(i) => running \/ caller["directive"].pc = "startLoop"
    <3> SUFFICES ASSUME NEW i \in Start, Up(i)
                 PROVE  running \/ caller["directive"].pc = "startLoop"
      OBVIOUS
    <3>1. Up(rn)
      BY UpIsCurrent DEF Inv
    <3> QED
      BY <3>1 DEF Inv, Life, Serving, Stopping, Down, Starting, Up
  <2> QED
    BY <2>1, <2>2, <2>3 DEF OneLoop
<1> QED
  BY <1>1, InvHolds, PTL

\* A node that has caught up with what it had applied before its restarts
\* has the map that the log makes, and applyEntries never meets a gap.
THEOREM StoreAgrees == Spec => []StoreCatchesUp
<1>1. Inv => StoreCatchesUp
  <2> SUFFICES ASSUME Inv, \A i \in Start : inst[i].floor =< commitIndex
               PROVE  kv = Replay(commitIndex)
    BY Zenon DEF StoreCatchesUp, Inv, Work
  <2>1. CASE kv # Replay(commitIndex)
    <3>1. PICK i \in Start : \E j \in commitIndex..inst[i].floor : kv = Replay(j)
      BY <2>1 DEF Inv, Store
    <3>2. PICK j \in commitIndex..inst[i].floor : kv = Replay(j)
      BY <3>1
    <3>3. inst[i].floor \in Nat /\ commitIndex \in Nat
      BY BootAssumption DEF Inv, TypeOK, Instance, Index
    <3>4. j = commitIndex
      BY <3>2, <3>3
    <3> QED
      BY <2>1, <3>2, <3>4
  <2> QED
    BY <2>1, Zenon
<1> QED
  BY <1>1, InvHolds, PTL

\* A change of the configuration that an instance reports as applied is
\* applied to it, unless an instance before it went through that entry.
THEOREM ChangesAreApplied == Spec => []ConfIsApplied
<1>1. Inv => ConfIsApplied
  <2> SUFFICES ASSUME Inv, NEW i \in Start, Up(i),
                      NEW j \in (inst[i].floor + 1)..inst[i].applied,
                      Log[j] \in {AddPeer, RemoveSelf}
               PROVE  j \in inst[i].conf
    BY DEF ConfIsApplied
  <2>1. i = rn
    BY UpIsCurrent DEF Inv
  <2>2. inst[rn].floor \in Nat /\ inst[rn].applied \in Nat /\ commitIndex \in Nat
    <3>1. inst[rn] \in Instance /\ commitIndex \in Index
      BY DEF Inv, TypeOK
    <3>2. inst[rn].floor \in Index /\ inst[rn].applied \in Index
      BY <3>1 DEF Instance
    <3> QED
      BY <3>1, <3>2, BootAssumption DEF Index
  <2>3. j \in (inst[rn].floor + 1)..commitIndex
    BY <2>1, <2>2 DEF Inv, Work
  <2> QED
    BY <2>1, <2>3 DEF Inv, Work, Change
<1> QED
  BY <1>1, InvHolds, PTL
=============================================================================
