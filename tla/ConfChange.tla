----------------------------- MODULE ConfChange -----------------------------
(***************************************************************************)
(* The configuration of one node while it applies one committed change     *)
(* after the other (applyConfChange of raft.go with the operations of      *)
(* Changer).                                                               *)
(***************************************************************************)
EXTENDS Changer

CONSTANTS
  Node,                   \* identifiers of nodes, numbers above zero
  MaxChanges,             \* the most single changes in one ConfChangeV2
  MaxIndex                \* the highest index that is acknowledged

ASSUME NodeAssumption == IsFiniteSet(Node) /\ Node \subseteq Nat \ {0}
ASSUME MaxChangesAssumption == MaxChanges \in Nat /\ MaxIndex \in Nat

VARIABLES
  tracker,                \* [cfg, prs]: Config and ProgressMap
  err                     \* the error the last change ended with

vars == <<tracker, err>>

Acked == 1                \* the Match index of a peer that was heard of

\* NodeID 0 stands for a change that the application decided not to make.
ConfChangeSingle ==
  [Type : {ConfChangeAddNode, ConfChangeAddLearnerNode, ConfChangeRemoveNode,
           ConfChangeUpdateNode},
   NodeID : Node \cup {0}]

\* stepLeader takes the proposal into the log.
Accepted(ccs) == Joint(tracker) = WantsLeaveJoint(ccs)

\* An error is a panic: the node stops with the configuration it had.
ApplyConfChange(transition, ccs) ==
  LET res == Changed(tracker, transition, ccs)
  IN  /\ err = NoError
      /\ Accepted(ccs)
      /\ tracker' = IF res.err = NoError THEN res.tracker ELSE tracker
      /\ err' = res.err

\* Every peer has answered the leader.
Acknowledge ==
  /\ err = NoError
  /\ tracker' = [tracker EXCEPT !.prs = [id \in DOMAIN @ |-> [@[id] EXCEPT !.Match = Acked]]]
  /\ UNCHANGED err

\* A node comes up with the voters that its peers agreed on.
Init ==
  /\ \E voters \in (SUBSET Node) \ {{}} :
       tracker = Chain(EmptyTracker, Each(ConfChangeAddNode, voters)).tracker
  /\ err = NoError

Next ==
  \/ \E transition \in Transition, ccs \in SeqOf(ConfChangeSingle, MaxChanges) :
       ApplyConfChange(transition, ccs)
  \/ Acknowledge

Spec == Init /\ [][Next]_vars

----------------------------------------------------------------------------
(* Properties.                                                             *)

Members(t) == IDs(t.cfg.Voters) \cup t.cfg.Learners

\* No change that the operations let through breaks what checkInvariants
\* demands of the configuration and the progress map: the check is an
\* assertion, never the reason for which a change fails.
ChangesAreSound == err # ErrInvariant

\* A progress is kept for the members and for nobody else, through joint
\* configurations, demotions and removals (checkInvariants asks for one half).
ProgressIsExact == DOMAIN tracker.prs = Members(tracker)

\* A node that comes back from the ConfState in its snapshot has the same
\* configuration and the same learners (Restore, assertConfStatesEquivalent).
RestoreIsFaithful ==
  LET res == Restore(EmptyTracker, ConfState(tracker))
  IN  /\ res.err = NoError
      /\ res.tracker.cfg = tracker.cfg
      /\ DOMAIN res.tracker.prs = DOMAIN tracker.prs
      /\ \A id \in DOMAIN tracker.prs :
           res.tracker.prs[id].IsLearner = tracker.prs[id].IsLearner

\* The definition of a quorum: more than half of each half that has voters.
IsQuorum(c, s) == \A h \in 1..2 : c[h] = {} \/ 2 * Cardinality(c[h] \cap s) > Cardinality(c[h])

\* In every configuration that changes lead to, and for any votes, the tally
\* says "won" for a quorum, "lost" once no vote that is still out can make a
\* quorum, and "pending" in between (VoteResult).
TallyIsExact ==
  LET c == tracker.cfg.Voters
  IN  \A yes \in SUBSET IDs(c) : \A no \in SUBSET (IDs(c) \ yes) :
        /\ VoteResult(c, yes, no) = VoteWon <=> IsQuorum(c, yes)
        /\ VoteResult(c, yes, no) = VoteLost <=> ~IsQuorum(c, IDs(c) \ no)

\* In every configuration that changes lead to, and for any acknowledgements,
\* the committed index is the highest one that a quorum has acknowledged
\* (CommittedIndex).
CommitIsExact ==
  LET c == tracker.cfg.Voters
  IN  \A acked \in [IDs(c) -> 0..MaxIndex] :
        LET by(i) == {id \in IDs(c) : acked[id] >= i}
            ci == CommittedIndex(c, acked)
        IN  IsQuorum(c, by(ci)) /\ ~IsQuorum(c, by(ci + 1))

\* Every quorum of a configuration meets every quorum of the next one, so that
\* nodes on the two sides of a change cannot decide apart from each other.
QuorumsMeet ==
  [][\A yes \in SUBSET Node :
       VoteResult(tracker.cfg.Voters, yes, {}) = VoteWon =>
         VoteResult(tracker'.cfg.Voters, Node \ yes, {}) # VoteWon]_vars

\* A voter is a voter until it is told otherwise and every half of the joint
\* configuration has let it go: one that is to become a learner is one as soon
\* as the joint configuration is left, and not before, and what the leader knows
\* of a voter survives every change after which it is still a member
\* (makeVoter, makeLearner, remove, LeaveJoint).
DemotionIsOrderly ==
  [][/\ \A id \in tracker.cfg.LearnersNext :
          id \in tracker'.cfg.Learners <=> ~Joint(tracker')
     /\ \A id \in IDs(tracker.cfg.Voters) \cap Members(tracker') :
          tracker'.prs[id].Match >= tracker.prs[id].Match]_vars
=============================================================================
