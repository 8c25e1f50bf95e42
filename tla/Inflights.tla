------------------------------ MODULE Inflights ------------------------------
(***************************************************************************)
(* The window of messages in flight as it is stored (inflights.go): a ring *)
(* of size slots in a buffer that is allocated on demand.                  *)
(***************************************************************************)
EXTENDS Integers, Sequences

CONSTANTS
  Size,          \* NewInflights(size)
  MaxIndex       \* no index beyond this one is added

ASSUME SizeAssumption == Size \in Nat \ {0} /\ MaxIndex \in Nat

VARIABLES
  start, count,
  buffer,        \* slot i of the code is buffer[i + 1]
  last,          \* the last index that was added since the last reset
  panic

vars == <<start, count, buffer, last, panic>>

Full == count = Size

\* The slot that is k slots after the first one.
Slot(k) == IF start + k >= Size THEN start + k - Size ELSE start + k

\* The length of the buffer after grow.
Grown == IF buffer = <<>> THEN 1
         ELSE IF 2 * Len(buffer) > Size THEN Size ELSE 2 * Len(buffer)

Add(inflight) ==
  LET next == Slot(count)
      room == IF next >= Len(buffer) THEN Grown ELSE Len(buffer)
      grown == [i \in 1..room |-> IF i =< Len(buffer) THEN buffer[i] ELSE 0]
  IN  /\ ~panic /\ ~Full /\ inflight > last
      /\ IF next >= room THEN panic' = TRUE /\ buffer' = grown /\ UNCHANGED <<count, last>>
         ELSE /\ buffer' = [grown EXCEPT ![next + 1] = inflight]
              /\ count' = count + 1
              /\ last' = inflight
              /\ UNCHANGED panic
      /\ UNCHANGED start

\* How many leave the window: those before the first one above to.
Freeable(to) ==
  LET above == {k \in 0..(count - 1) : to < buffer[Slot(k) + 1]}
  IN  IF above = {} THEN count ELSE CHOOSE k \in above : \A j \in above : k =< j

\* Mutant: the window shrinks at its end.
FreedInPlace(to) == count' = count - Freeable(to) /\ UNCHANGED <<start, buffer, last, panic>>

Freed(to) ==
  LET n == Freeable(to)
  IN  /\ count' = count - n
      /\ start' = IF n = 0 THEN start ELSE IF n = count THEN 0 ELSE Slot(n)
      /\ UNCHANGED <<buffer, last, panic>>

FreeLE(to) == ~panic /\ Freed(to)

\* The first slot is read before FreeLE looks whether there is one; the only
\* caller, the answer to a heartbeat, asks for a full window.
FreeFirstOne ==
  /\ ~panic
  /\ Full
  /\ IF start >= Len(buffer) THEN panic' = TRUE /\ UNCHANGED <<start, count, buffer, last>>
     ELSE Freed(buffer[start + 1])

\* ResetState begins again behind Match, which may be below what was added.
Reset == ~panic /\ start' = 0 /\ count' = 0 /\ last' = 0 /\ UNCHANGED <<buffer, panic>>

Init == start = 0 /\ count = 0 /\ buffer = <<>> /\ last = 0 /\ panic = FALSE

Next ==
  \/ \E i \in 1..MaxIndex : Add(i) \/ FreeLE(i)
  \/ FreeFirstOne
  \/ Reset

Spec == Init /\ [][Next]_vars

----------------------------------------------------------------------------
(* Properties.                                                             *)

Queue == [k \in 1..count |-> buffer[Slot(k - 1) + 1]]

Window == INSTANCE InflightQueue WITH queue <- Queue, MaxInflightMsgs <- Size, MaxUint64 <- 0

\* Through growth, rotation and resets the ring holds what the queue would
\* (Add, grow, FreeLE, FreeFirstOne, reset).  A slot outside the buffer is
\* never read or written: the panic would be a deadlock.
RefinesQueue == Window!Spec
=============================================================================
