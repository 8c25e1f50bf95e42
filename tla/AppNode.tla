------------------------------ MODULE AppNode ------------------------------
(***************************************************************************)
(* The goroutines of one process of the key-value application, and the     *)
(* channels between them:                                                  *)
(*   run       one per start, owns the raft instance (protocol/node.go)    *)
(*   raftloop  one per start, handles ticks and Readys (node.go)           *)
(*   callers   main and the directives of the test server, which call      *)
(*             Start, Stop and Restart (node.go, main.go)                  *)
(*   poll      of the HTTP interface, which hands proposals over           *)
(*             (httpapi.go)                                                *)
(* An unbuffered channel is a joint step of its two ends.  The raft        *)
(* instance itself is abstract: its term, its commit index and whether it  *)
(* knows a leader change as they may.                                      *)
(***************************************************************************)
EXTENDS Integers, Sequences, FiniteSets

CONSTANTS
  Log,           \* the log of the cluster: values of the one key, and changes
  AddPeer,       \* the change that adds a node
  RemoveSelf,    \* the change that removes this node
  Absent,        \* the value of the key before it is set
  Boot,          \* the number of entries that StartNode writes
  MaxTerm,       \* no instance goes beyond this term
  MaxStarts,     \* no more instances than this
  MaxMsgs        \* no Ready has more messages than this

ASSUME BootAssumption == Len(Log) \in Nat /\ Boot \in 1..Len(Log)
ASSUME CapAssumption == {MaxTerm, MaxStarts} \subseteq Nat \ {0} /\ MaxMsgs \in Nat

VARIABLES
  running,       \* nodeState.running
  rn,            \* node.rn: the current instance
  inst,          \* inst[i]: run of instance i
  loop,          \* loop[i]: the raftloop that the i-th Start began
  caller,        \* caller[c]: where caller c is
  term,          \* nodeState.term
  commitIndex,   \* nodeState.commitIndex
  kv,            \* the value of the key
  fatal,         \* log.Fatal was called
  poll           \* poll of the HTTP interface

nodeState == <<running, rn, term, commitIndex, kv, fatal>>
vars == <<nodeState, inst, loop, caller, poll>>

Start == 1..MaxStarts
Index == 0..Len(Log)
Caller == {"main", "directive"}

Instance ==
  [pc : {"none", "select", "done"},
   advancec : BOOLEAN,             \* a Ready is outstanding
   propc : BOOLEAN,                \* proposals are taken
   term : 1..MaxTerm, committed : Index, applied : Index,
   rd : [last : Index, hard : (0..MaxTerm) \X Index],   \* the Ready: its last committed entry
   hard : (0..MaxTerm) \X Index,   \* prevHardSt
   conf : SUBSET Index,            \* the changes of its configuration it applied
   floor : Index,                  \* the commit index of the node when it began
   msgs : 0..MaxMsgs]

Loop ==
  [pc : {"none", "top", "select", "status", "send", "apply", "advance", "stop", "end"},
   at : 0..MaxStarts,                        \* the instance it waits for
   next : 1..(Len(Log) + 1), last : Index]   \* the entries it is to apply

Call == {"idle", "stop", "stopRN", "stopped", "start", "startLoop", "apiStop", "exit"}

NoInstance ==
  [pc |-> "none", advancec |-> FALSE, propc |-> FALSE, term |-> 1, committed |-> Boot,
   applied |-> 0, rd |-> [last |-> 0, hard |-> <<0, 0>>], hard |-> <<0, 0>>,
   conf |-> 1..Boot, floor |-> 0, msgs |-> 0]
NoLoop == [pc |-> "none", at |-> 0, next |-> 1, last |-> 0]

TypeOK ==
  /\ running \in BOOLEAN /\ rn \in Start
  /\ inst \in [Start -> Instance] /\ loop \in [Start -> Loop]
  /\ caller \in [Caller -> [pc : Call, restart : BOOLEAN]]
  /\ term \in 0..MaxTerm /\ commitIndex \in Index /\ fatal \in BOOLEAN
  /\ poll \in [pc : {"top", "propose", "end"}, at : 0..MaxStarts]

\* main has called newNode and Start, and has started the HTTP interface.
Init ==
  /\ running = TRUE /\ rn = 1
  /\ inst = [i \in Start |-> [NoInstance EXCEPT !.pc = IF i = 1 THEN "select" ELSE "none"]]
  /\ loop = [i \in Start |-> [NoLoop EXCEPT !.pc = IF i = 1 THEN "top" ELSE "none"]]
  /\ caller = [c \in Caller |-> [pc |-> "idle", restart |-> FALSE]]
  /\ term = 0 /\ commitIndex = 0 /\ kv = Absent /\ fatal = FALSE
  /\ poll = [pc |-> "top", at |-> 0]

----------------------------------------------------------------------------
(* run: the cases of its select that the other end does not wait for.      *)

Up(i) == inst[i].pc = "select"

\* What a message or a tick may make of the raft instance: an entry is
\* committed, a term begins, a leader is found or lost, a message is to be
\* sent.
Stepped(x) ==
  {y \in {[x EXCEPT !.committed = @ + 1], [x EXCEPT !.term = @ + 1, !.propc = FALSE],
          [x EXCEPT !.propc = TRUE], [x EXCEPT !.propc = FALSE], [x EXCEPT !.msgs = @ + 1]} :
     y.committed =< Len(Log) /\ y.term =< MaxTerm /\ y.msgs =< MaxMsgs}

\* A message comes in a goroutine of its own, which may have looked at the
\* running flag and at rn long ago: any instance that runs may take it.  A
\* tick is taken from tickc, and has the effect that some message has.
RunSteps(i) ==
  /\ Up(i)
  /\ \E y \in Stepped(inst[i]) : inst' = [inst EXCEPT ![i] = y]
  /\ UNCHANGED <<nodeState, loop, caller, poll>>

HardState(x) == <<x.term, x.committed>>

HasReady(x) == HardState(x) # x.hard \/ x.msgs > 0 \/ x.committed > x.applied

\* The hard state of a Ready is empty, its term 0, if it has not changed.
NewReady(x) ==
  [last |-> x.committed, hard |-> IF HardState(x) = x.hard THEN <<0, 0>> ELSE HardState(x)]

\* Mutant: one message is taken off the queue, whether there is one or not.
AcceptReadyTakesOne(x) == [x EXCEPT !.advancec = TRUE, !.rd = NewReady(x), !.msgs = @ - 1]

AcceptReady(x) == [x EXCEPT !.advancec = TRUE, !.rd = NewReady(x), !.msgs = 0]

\* Mutant: run goes on waiting for Advance.
AdvancedStaysArmed(x) ==
  [x EXCEPT !.applied = x.rd.last, !.hard = IF x.rd.hard = <<0, 0>> THEN @ ELSE x.rd.hard]

Advanced(x) ==
  [x EXCEPT !.advancec = FALSE, !.applied = x.rd.last,
            !.hard = IF x.rd.hard = <<0, 0>> THEN @ ELSE x.rd.hard,
            !.rd = [last |-> 0, hard |-> <<0, 0>>]]

\* Mutant: a node that is added is the transport's business only.
ConfChangedByRemoval(x, index) ==
  [x EXCEPT !.conf = IF Log[index] = RemoveSelf THEN @ \cup {index} ELSE @,
            !.propc = @ /\ Log[index] # RemoveSelf]

\* A node that is removed takes no more proposals until the leader changes.
ConfChanged(x, index) ==
  [x EXCEPT !.conf = @ \cup {index}, !.propc = @ /\ Log[index] # RemoveSelf]

----------------------------------------------------------------------------
(* raftloop: where it stands is loop[k].pc.  Every call of GetRN reads rn   *)
(* anew.                                                                   *)

\* It spins while the node does not run, then waits with the Ready channel
\* of the instance of that moment.
LoopTop(k) ==
  /\ loop[k].pc = "top" /\ running
  /\ loop' = [loop EXCEPT ![k].pc = "select", ![k].at = rn]
  /\ UNCHANGED <<nodeState, inst, caller, poll>>

\* The ticker fires.  Tick never waits, it drops the tick if tickc is full.
\* Status does.
LoopTicker(k) ==
  /\ loop[k].pc = "select"
  /\ loop' = [loop EXCEPT ![k].pc = "status", ![k].at = rn]
  /\ UNCHANGED <<nodeState, inst, caller, poll>>

\* Mutant: the term of the status is not recorded.
LoopStatusIgnored(k) ==
  /\ loop[k].pc = "status"
  /\ loop' = [loop EXCEPT ![k] = [NoLoop EXCEPT !.pc = "top"]]
  /\ UNCHANGED <<nodeState, inst, caller, poll>>

\* The status of an instance that is done is empty.
LoopStatus(k) ==
  /\ loop[k].pc = "status"
  /\ term' = IF Up(loop[k].at) THEN inst[loop[k].at].term ELSE 0
  /\ loop' = [loop EXCEPT ![k] = [NoLoop EXCEPT !.pc = "top"]]
  /\ UNCHANGED <<running, rn, commitIndex, kv, fatal, inst, caller, poll>>

\* Mutant: Advance is called before the entries are applied.
LoopReadyAdvances(k) ==
  /\ loop[k].pc = "select"
  /\ LET i == loop[k].at
         x == inst[i]
     IN  /\ Up(i) /\ ~x.advancec /\ HasReady(x)
         /\ inst' = [inst EXCEPT ![i] = Advanced(AcceptReady(x))]
         /\ term' = NewReady(x).hard[1]
         /\ loop' = [loop EXCEPT ![k] = [pc |-> "send", at |-> i, next |-> x.applied + 1,
                                         last |-> x.committed]]
  /\ UNCHANGED <<running, rn, commitIndex, kv, fatal, caller, poll>>

\* run hands a Ready over, which it does with no other one outstanding.  The
\* loop records its term and stores its entries.
LoopReady(k) ==
  /\ loop[k].pc = "select"
  /\ LET i == loop[k].at
         x == inst[i]
     IN  /\ Up(i) /\ ~x.advancec /\ HasReady(x)
         /\ inst' = [inst EXCEPT ![i] = AcceptReady(x)]
         /\ term' = NewReady(x).hard[1]
         /\ loop' = [loop EXCEPT ![k] = [pc |-> "send", at |-> i, next |-> x.applied + 1,
                                         last |-> x.committed]]
  /\ UNCHANGED <<running, rn, commitIndex, kv, fatal, caller, poll>>

\* Mutant: the loop looks at doneChan only once the node runs no more.
LoopDoneIfStopped(k, c) ==
  /\ loop[k].pc = "select" /\ caller[c].pc = "stop" /\ ~running
  /\ loop' = [loop EXCEPT ![k] = [NoLoop EXCEPT !.pc = "end"]]
  /\ caller' = [caller EXCEPT ![c].pc = "stopRN"]
  /\ UNCHANGED <<nodeState, inst, poll>>

\* Stop of a caller ends the loop.
LoopDone(k, c) ==
  /\ loop[k].pc = "select" /\ caller[c].pc = "stop"
  /\ loop' = [loop EXCEPT ![k] = [NoLoop EXCEPT !.pc = "end"]]
  /\ caller' = [caller EXCEPT ![c].pc = "stopRN"]
  /\ UNCHANGED <<nodeState, inst, poll>>

\* Mutant: one entry too many is cut off.
FirstToApplyOffByOne(l) == IF commitIndex + 1 < l.last THEN commitIndex + 2 ELSE l.next

\* The first entry that applyEntries applies: those up to commitIndex are cut
\* off, but not if nothing would be left.
FirstToApply(l) == IF commitIndex < l.last THEN commitIndex + 1 ELSE l.next

\* The messages are in msgChan, whose reader, poll of the transport, never
\* waits.  applyEntries settles what is to be applied.
LoopCut(k) ==
  /\ loop[k].pc = "send"
  /\ LET l == loop[k]
         gap == l.next =< l.last /\ l.next > commitIndex + 1
     IN  /\ fatal' = (fatal \/ gap)
         /\ loop' = [loop EXCEPT ![k] =
                       IF l.next > l.last THEN [l EXCEPT !.pc = "advance"]
                       ELSE IF gap THEN [l EXCEPT !.pc = "end"]
                       ELSE [l EXCEPT !.pc = "apply", !.next = FirstToApply(l)]]
  /\ UNCHANGED <<running, rn, term, commitIndex, kv, inst, caller, poll>>

\* Where the loop goes after entry l.next.
AfterEntry(l) == [l EXCEPT !.next = @ + 1, !.pc = IF l.next = l.last THEN "advance" ELSE "apply"]

\* A value is set.  (An entry without data only moves the commit index.)
LoopSet(k) ==
  /\ loop[k].pc = "apply" /\ Log[loop[k].next] \notin {AddPeer, RemoveSelf}
  /\ commitIndex' = loop[k].next
  /\ kv' = Log[loop[k].next]
  /\ loop' = [loop EXCEPT ![k] = AfterEntry(@)]
  /\ UNCHANGED <<running, rn, term, fatal, inst, caller, poll>>

\* ApplyConfChange, with run or in vain if the instance is done.  A node that
\* is removed calls Stop, which waits until a loop takes its doneChan: the
\* loop itself is the only one, so this is where it stays.
LoopConf(k) ==
  /\ loop[k].pc = "apply" /\ Log[loop[k].next] \in {AddPeer, RemoveSelf}
  /\ commitIndex' = loop[k].next
  /\ inst' = IF Up(rn) THEN [inst EXCEPT ![rn] = ConfChanged(@, loop[k].next)] ELSE inst
  /\ loop' = [loop EXCEPT ![k] =
                IF Log[@.next] = AddPeer THEN AfterEntry(@)
                ELSE [@ EXCEPT !.pc = IF running THEN "stop" ELSE "advance"]]
  /\ UNCHANGED <<running, rn, term, kv, fatal, caller, poll>>

LoopAdvance(k) ==
  /\ loop[k].pc = "advance" /\ (Up(rn) => inst[rn].advancec)
  /\ inst' = IF Up(rn) THEN [inst EXCEPT ![rn] = Advanced(@)] ELSE inst
  /\ loop' = [loop EXCEPT ![k] = [NoLoop EXCEPT !.pc = "top"]]
  /\ UNCHANGED <<nodeState, caller, poll>>

----------------------------------------------------------------------------
(* The calls of Start, Stop and Restart: directives one after the other,   *)
(* begun after the Start of main, and one Stop of main, which then stops   *)
(* the HTTP interface.  That directives take turns is up to the netrix     *)
(* client; nothing in the code makes them.                                 *)

\* A directive to start.
CallStart ==
  /\ caller["directive"].pc = "idle" /\ rn < MaxStarts
  /\ caller' = [caller EXCEPT !["directive"] = [pc |-> "start", restart |-> FALSE]]
  /\ UNCHANGED <<nodeState, inst, loop, poll>>

\* What follows Stop.
AfterStop(c, restart) ==
  [pc |-> CASE c = "main" -> "apiStop" [] restart -> "start" [] OTHER -> "idle",
   restart |-> FALSE]

\* Stop by itself, or as the first half of Restart.  It waits for the loop
\* (LoopDone), but leaves a node that does not run alone.
CallStop(c, restart) ==
  /\ caller[c].pc = "idle" /\ (restart => c = "directive" /\ rn < MaxStarts)
  /\ caller' = [caller EXCEPT ![c] = IF running THEN [pc |-> "stop", restart |-> restart]
                                     ELSE AfterStop(c, restart)]
  /\ UNCHANGED <<nodeState, inst, loop, poll>>

\* Stop of the library: run ends, and nothing of its instance is used again.
StopRN(c) ==
  /\ caller[c].pc = "stopRN"
  /\ inst' = [inst EXCEPT ![rn] = [NoInstance EXCEPT !.pc = "done", !.floor = inst[rn].floor]]
  /\ caller' = [caller EXCEPT ![c].pc = "stopped"]
  /\ UNCHANGED <<nodeState, loop, poll>>

StopReturns(c) ==
  /\ caller[c].pc = "stopped"
  /\ running' = FALSE
  /\ caller' = [caller EXCEPT ![c] = AfterStop(c, @.restart)]
  /\ UNCHANGED <<rn, term, commitIndex, kv, fatal, inst, loop, poll>>

\* Mutant: the running flag is not looked at.
StartRNAlways(c) ==
  /\ caller[c].pc = "start"
  /\ rn' = rn + 1
  /\ inst' = [inst EXCEPT ![rn + 1].pc = "select", ![rn + 1].floor = commitIndex]
  /\ caller' = [caller EXCEPT ![c].pc = "startLoop"]
  /\ UNCHANGED <<running, term, commitIndex, kv, fatal, loop, poll>>

\* Start: the storage is reset and an instance begins, unless the node runs.
StartRN(c) ==
  /\ caller[c].pc = "start"
  /\ IF running THEN UNCHANGED <<rn, inst>>
     ELSE /\ rn' = rn + 1
          /\ inst' = [inst EXCEPT ![rn + 1].pc = "select", ![rn + 1].floor = commitIndex]
  /\ caller' = [caller EXCEPT ![c].pc = IF running THEN "idle" ELSE "startLoop"]
  /\ UNCHANGED <<running, term, commitIndex, kv, fatal, loop, poll>>

StartLoop(c) ==
  /\ caller[c].pc = "startLoop"
  /\ running' = TRUE
  /\ loop' = [loop EXCEPT ![rn].pc = "top"]
  /\ caller' = [caller EXCEPT ![c].pc = "idle"]
  /\ UNCHANGED <<rn, term, commitIndex, kv, fatal, inst, poll>>

ApiStop ==
  /\ caller["main"].pc = "apiStop"
  /\ caller' = [caller EXCEPT !["main"].pc = "exit"]
  /\ UNCHANGED <<nodeState, inst, loop, poll>>

----------------------------------------------------------------------------
(* The HTTP interface.                                                     *)

\* ServeHTTP has put a request into proposeC or confChangeC: Propose or
\* ProposeConfChange of the instance of that moment.
PollTake ==
  /\ poll.pc = "top"
  /\ poll' = [pc |-> "propose", at |-> rn]
  /\ UNCHANGED <<nodeState, inst, loop, caller>>

\* run takes the proposal once it knows a leader.
PollHandsOver ==
  /\ poll.pc = "propose" /\ Up(poll.at) /\ inst[poll.at].propc
  /\ poll' = [pc |-> "top", at |-> 0]
  /\ UNCHANGED <<nodeState, inst, loop, caller>>

\* Mutant: a proposal waits for a leader, whatever becomes of the instance.
PollGivesUpWithLeader ==
  /\ poll.pc = "propose" /\ ~Up(poll.at) /\ inst[poll.at].propc
  /\ poll' = [pc |-> "top", at |-> 0]
  /\ UNCHANGED <<nodeState, inst, loop, caller>>

\* ErrStopped.
PollGivesUp ==
  /\ poll.pc = "propose" /\ ~Up(poll.at)
  /\ poll' = [pc |-> "top", at |-> 0]
  /\ UNCHANGED <<nodeState, inst, loop, caller>>

PollEnds ==
  /\ poll.pc = "top" /\ caller["main"].pc = "exit"
  /\ poll' = [poll EXCEPT !.pc = "end"]
  /\ UNCHANGED <<nodeState, inst, loop, caller>>

----------------------------------------------------------------------------
\* The loop outside of its select.
LoopGoesOn(k) ==
  \/ LoopTop(k) \/ LoopStatus(k) \/ LoopCut(k) \/ LoopSet(k) \/ LoopConf(k) \/ LoopAdvance(k)

CallGoesOn(c) == StopRN(c) \/ StopReturns(c) \/ StartRN(c) \/ StartLoop(c)

Next ==
  \/ \E i \in Start : RunSteps(i)
  \/ \E k \in Start : LoopGoesOn(k) \/ LoopTicker(k) \/ LoopReady(k)
  \/ \E k \in Start, c \in Caller : LoopDone(k, c)
  \/ CallStart
  \/ \E c \in Caller, restart \in BOOLEAN : CallStop(c, restart)
  \/ \E c \in Caller : CallGoesOn(c)
  \/ ApiStop
  \/ PollTake \/ PollHandsOver \/ PollGivesUp \/ PollEnds

\* Goroutines are scheduled, so one that can go on does; and a select that
\* could take a case time and again takes it in the end, since it picks at
\* random among the cases that are ready.  Messages, requests and calls need
\* not come.
Fairness ==
  /\ WF_vars(\E k \in Start : LoopGoesOn(k))
  /\ SF_vars(\E k \in Start : LoopTicker(k))
  /\ SF_vars(\E k \in Start : LoopReady(k))
  /\ \A c \in Caller : SF_vars(\E k \in Start : LoopDone(k, c)) /\ WF_vars(CallGoesOn(c))
  /\ WF_vars(ApiStop) /\ WF_vars(PollGivesUp) /\ SF_vars(PollEnds)

Spec == Init /\ [][Next]_vars
FairSpec == Spec /\ Fairness

----------------------------------------------------------------------------
(* Properties.                                                             *)

Removed == \E k \in Start : loop[k].pc = "stop"

\* The library is told that entries are applied (Advance) only after they
\* are: node.go applies before it advances, also after a restart that begins
\* the log anew and keeps the commit index.
AckIsEarned == \A i \in Start : Up(i) => inst[i].applied =< commitIndex

\* However Start, Stop and Restart of the directives meet main's Stop, one
\* raftloop and one run are alive at most, and none with the running flag
\* down, which would put it out of the reach of Stop.
OneLoop ==
  /\ Cardinality({k \in Start : loop[k].pc \notin {"none", "end"}}) =< 1
  /\ Cardinality({i \in Start : Up(i)}) =< 1
  /\ \A i \in Start : Up(i) => running \/ caller["directive"].pc = "startLoop"

\* What the first n entries of the log make of the key.
Replay(n) ==
  LET sets == {i \in 1..n : Log[i] \notin {AddPeer, RemoveSelf}}
  IN  IF sets = {} THEN Absent ELSE Log[CHOOSE i \in sets : \A j \in sets : j =< i]

\* A restarted node applies entries again, over a map that has later ones.
\* Once it is where it was, the map is what the log makes it, and it never
\* met a gap (the log.Fatal of applyEntries).
StoreCatchesUp ==
  /\ ~fatal
  /\ (\A i \in Start : inst[i].floor =< commitIndex) => kv = Replay(commitIndex)

\* A change of the configuration that an instance reports as committed is
\* applied to it, unless it is one of those that an instance before it went
\* through: applyEntries cuts these off together with their values.
ConfIsApplied ==
  \A i \in Start : Up(i) =>
    \A j \in (inst[i].floor + 1)..inst[i].applied :
      Log[j] \in {AddPeer, RemoveSelf} => j \in inst[i].conf

\* A Stop that found the node running ends the loop, or the node has been
\* stopped or removed meanwhile: the select of the loop cannot starve
\* doneChan.
StopTakesEffect ==
  \A c \in Caller : caller[c].pc = "stop" ~> (caller[c].pc # "stop" \/ ~running \/ Removed)

\* What is committed gets applied, unless the node is stopped or removed:
\* every Ready is followed by an Advance, which lets the next one come.
ReadyIsHandled ==
  Up(rn) /\ inst[rn].applied < inst[rn].committed ~>
    (inst[rn].applied = inst[rn].committed \/ ~Up(rn) \/ Removed)

\* The term of the node's own state goes to 0 with every Ready that has no
\* hard state; the next tick sets it right.
TermCatchesUp ==
  Up(rn) /\ term # inst[rn].term ~> (term = inst[rn].term \/ ~Up(rn) \/ Removed)

\* A request of the HTTP interface does not outlive the instance it waits
\* for, and the interface ends when main says so.
ApiEnds ==
  caller["main"].pc = "exit" ~> (poll.pc = "end" \/ \E i \in Start : Up(i))
=============================================================================
