---------------------------- MODULE InflightQueue ----------------------------
(***************************************************************************)
(* What Progress relies on from the window of messages in flight: a queue  *)
(* of at most MaxInflightMsgs growing indexes.                             *)
(***************************************************************************)
EXTENDS Progress

CONSTANT MaxIndex

VARIABLES
  queue,         \* the last index of each message in flight
  last           \* the last index that was added since the last reset

vars == <<queue, last>>

Init == queue = <<>> /\ last = 0

Added(i) == ~Full(queue) /\ i > last /\ queue' = Add(queue, i) /\ last' = i

Freed(to) == queue' = FreeLE(queue, to) /\ UNCHANGED last

FreedFirst == queue # <<>> /\ queue' = FreeFirstOne(queue) /\ UNCHANGED last

Emptied == queue' = <<>> /\ last' = 0

Next == (\E i \in 1..MaxIndex : Added(i) \/ Freed(i)) \/ FreedFirst \/ Emptied

Spec == Init /\ [][Next]_vars
=============================================================================
