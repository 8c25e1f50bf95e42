---------------------------- MODULE JointQuorum ----------------------------
(***************************************************************************)
(* Package quorum: majority and joint quorums.  A configuration is a pair  *)
(* <<incoming, outgoing>> of voter sets; outside a joint configuration the *)
(* second one is empty.  A map of votes is a pair of disjoint sets, the    *)
(* voters that said yes and those that said no.                            *)
(***************************************************************************)
EXTENDS Integers, FiniteSets

CONSTANT MaxUint64        \* math.MaxUint64, the committed index of no voters

ASSUME MaxUint64Assumption == MaxUint64 \in Nat

VoteWon == "VoteWon"
VotePending == "VotePending"
VoteLost == "VoteLost"

MinOf(a, b) == IF a > b THEN b ELSE a
MaxOf(a, b) == IF a > b THEN a ELSE b

IDs(c) == c[1] \cup c[2]

----------------------------------------------------------------------------
(* VoteResult of a MajorityConfig: the empty configuration wins.           *)
MajorityVoteResult(c, yes, no) ==
  LET q == Cardinality(c) \div 2 + 1
      granted == Cardinality(c \cap yes)
      missing == Cardinality(c \ (yes \cup no))
  IN  IF c = {} \/ granted >= q THEN VoteWon
      ELSE IF granted + missing >= q THEN VotePending
      ELSE VoteLost

\* Mutant: one half of a joint configuration wins an election.
VoteResultOfEither(c, yes, no) ==
  LET r1 == MajorityVoteResult(c[1], yes, no)
      r2 == MajorityVoteResult(c[2], yes, no)
  IN  IF r1 = r2 THEN r1
      ELSE IF VoteWon \in {r1, r2} THEN VoteWon
      ELSE VotePending

(* VoteResult of a JointConfig: both halves have to agree.                 *)
VoteResult(c, yes, no) ==
  LET r1 == MajorityVoteResult(c[1], yes, no)
      r2 == MajorityVoteResult(c[2], yes, no)
  IN  IF r1 = r2 THEN r1
      ELSE IF VoteLost \in {r1, r2} THEN VoteLost
      ELSE VotePending

----------------------------------------------------------------------------
(* What AckedIndex reports; a voter it does not know leaves a zero slot.   *)
AckedIndex(acked, id) == IF id \in DOMAIN acked THEN acked[id] ELSE 0

(* The value at position pos of the sorted array of acknowledged indexes:  *)
(* at most pos slots hold less, and more than pos slots hold no more.      *)
SortedAt(c, acked, pos) ==
  CHOOSE v \in {AckedIndex(acked, id) : id \in c} :
    /\ Cardinality({id \in c : AckedIndex(acked, id) < v}) =< pos
    /\ Cardinality({id \in c : AckedIndex(acked, id) =< v}) > pos

\* Mutant: half of the voters are enough.
HalfCommittedIndex(c, acked) ==
  LET n == Cardinality(c)
  IN  IF c = {} THEN MaxUint64 ELSE SortedAt(c, acked, n - MaxOf(n \div 2, 1))

MajorityCommittedIndex(c, acked) ==
  LET n == Cardinality(c)
  IN  IF c = {} THEN MaxUint64 ELSE SortedAt(c, acked, n - (n \div 2 + 1))

CommittedIndex(c, acked) ==
  MinOf(MajorityCommittedIndex(c[1], acked), MajorityCommittedIndex(c[2], acked))
=============================================================================
