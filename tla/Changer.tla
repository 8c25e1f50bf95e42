------------------------------ MODULE Changer ------------------------------
(***************************************************************************)
(* The operations of membership changes (package confchange, Config and    *)
(* ConfState of package tracker): from a tracker [cfg, prs], the Config    *)
(* and the ProgressMap, to the next one.                                   *)
(*                                                                         *)
(* Maps that are nil when empty are sets.  Of a peer's progress only the   *)
(* learner flag and a Match index are kept: Match is what is lost when a   *)
(* progress is thrown away and made anew.                                  *)
(***************************************************************************)
EXTENDS JointQuorum, Sequences, SequencesExt

ConfChangeAddNode == "ConfChangeAddNode"
ConfChangeAddLearnerNode == "ConfChangeAddLearnerNode"
ConfChangeRemoveNode == "ConfChangeRemoveNode"
ConfChangeUpdateNode == "ConfChangeUpdateNode"

EmptyConfig == [Voters |-> <<{}, {}>>, AutoLeave |-> FALSE, Learners |-> {}, LearnersNext |-> {}]
EmptyTracker == [cfg |-> EmptyConfig, prs |-> <<>>]

Incoming(t) == t.cfg.Voters[1]
Outgoing(t) == t.cfg.Voters[2]
Joint(t) == Outgoing(t) # {}

----------------------------------------------------------------------------
(* Single changes.                                                         *)

With(f, id, x) == [i \in DOMAIN f \cup {id} |-> IF i = id THEN x ELSE f[i]]
Without(f, ids) == [i \in DOMAIN f \ ids |-> f[i]]

InitProgress(t, id, isLearner) ==
  [cfg |-> IF isLearner THEN [t.cfg EXCEPT !.Learners = @ \cup {id}]
           ELSE [t.cfg EXCEPT !.Voters[1] = @ \cup {id}],
   prs |-> With(t.prs, id, [IsLearner |-> isLearner, Match |-> 0])]

MakeVoter(t, id) ==
  IF id \notin DOMAIN t.prs THEN InitProgress(t, id, FALSE)
  ELSE [cfg |-> [t.cfg EXCEPT !.Learners = @ \ {id}, !.LearnersNext = @ \ {id},
                              !.Voters[1] = @ \cup {id}],
        prs |-> [t.prs EXCEPT ![id].IsLearner = FALSE]]

\* A voter of the outgoing configuration keeps its progress.
RemoveNode(t, id) ==
  IF id \notin DOMAIN t.prs THEN t
  ELSE [cfg |-> [t.cfg EXCEPT !.Voters[1] = @ \ {id}, !.Learners = @ \ {id},
                              !.LearnersNext = @ \ {id}],
        prs |-> IF id \in Outgoing(t) THEN t.prs ELSE Without(t.prs, {id})]

\* Mutant: an outgoing voter becomes a learner at once.
MakeLearnerAtOnce(t, id) ==
  IF id \notin DOMAIN t.prs THEN InitProgress(t, id, TRUE)
  ELSE IF t.prs[id].IsLearner THEN t
  ELSE [cfg |-> [RemoveNode(t, id).cfg EXCEPT !.Learners = @ \cup {id}],
        prs |-> [t.prs EXCEPT ![id].IsLearner = TRUE]]

\* A voter of the outgoing configuration becomes a learner with LeaveJoint.
MakeLearner(t, id) ==
  LET removed == RemoveNode(t, id)
  IN  IF id \notin DOMAIN t.prs THEN InitProgress(t, id, TRUE)
      ELSE IF t.prs[id].IsLearner THEN t
      ELSE IF id \in Outgoing(t)
      THEN [cfg |-> [removed.cfg EXCEPT !.LearnersNext = @ \cup {id}], prs |-> t.prs]
      ELSE [cfg |-> [removed.cfg EXCEPT !.Learners = @ \cup {id}],
            prs |-> [t.prs EXCEPT ![id].IsLearner = TRUE]]

ApplySingle(t, cc) ==
  CASE cc.NodeID = 0 \/ cc.Type = ConfChangeUpdateNode -> t
    [] cc.Type = ConfChangeAddNode -> MakeVoter(t, cc.NodeID)
    [] cc.Type = ConfChangeAddLearnerNode -> MakeLearner(t, cc.NodeID)
    [] cc.Type = ConfChangeRemoveNode -> RemoveNode(t, cc.NodeID)

Apply(t, ccs) == FoldLeft(ApplySingle, t, ccs)

----------------------------------------------------------------------------
(* The operations of a Changer: a tracker or an error.                     *)

NoError == "none"
ErrJoint == "the operation does not fit a joint, or a simple, configuration"
ErrNoVoters == "removed all voters"
ErrTwoVoters == "more than one voter changed without entering joint config"
ErrInvariant == "checkInvariants"

CheckInvariants(t) ==
  LET c == t.cfg
  IN  /\ IDs(c.Voters) \cup c.Learners \cup c.LearnersNext \subseteq DOMAIN t.prs
      /\ c.LearnersNext \subseteq Outgoing(t)
      /\ \A id \in c.LearnersNext : ~t.prs[id].IsLearner
      /\ c.Learners \cap IDs(c.Voters) = {}
      /\ \A id \in c.Learners : t.prs[id].IsLearner
      /\ ~Joint(t) => c.LearnersNext = {} /\ ~c.AutoLeave

Fails(t, e) == [tracker |-> t, err |-> e]
CheckAndReturn(t) == Fails(t, IF CheckInvariants(t) THEN NoError ELSE ErrInvariant)

\* checkAndCopy: Clone leaves AutoLeave behind.
Copy(t) == [t EXCEPT !.cfg.AutoLeave = FALSE]

\* Mutant: the outgoing voters are taken after the changes.
EnterJointAfterwards(t, autoLeave, ccs) ==
  LET changed == Apply(Copy(t), ccs)
  IN  IF Joint(t) THEN Fails(t, ErrJoint)
      ELSE IF Incoming(t) = {} \/ Incoming(changed) = {} THEN Fails(t, ErrNoVoters)
      ELSE CheckAndReturn([changed EXCEPT !.cfg.Voters[2] = Incoming(changed),
                                          !.cfg.AutoLeave = autoLeave])

EnterJoint(t, autoLeave, ccs) ==
  LET c == Copy(t)
      entered == Apply([c EXCEPT !.cfg.Voters[2] = Incoming(t)], ccs)
  IN  IF ~CheckInvariants(c) THEN Fails(t, ErrInvariant)
      ELSE IF Joint(t) THEN Fails(t, ErrJoint)
      ELSE IF Incoming(t) = {} \/ Incoming(entered) = {} THEN Fails(t, ErrNoVoters)
      ELSE CheckAndReturn([entered EXCEPT !.cfg.AutoLeave = autoLeave])

\* Mutant: the progress of voters that are gone is kept.
LeaveJointKeepsProgress(t) ==
  LET learners == t.cfg.Learners \cup t.cfg.LearnersNext
      marked == [id \in DOMAIN t.prs |->
                   [t.prs[id] EXCEPT !.IsLearner = @ \/ id \in t.cfg.LearnersNext]]
  IN  IF ~Joint(t) THEN Fails(t, ErrJoint)
      ELSE CheckAndReturn([cfg |-> [Voters |-> <<Incoming(t), {}>>, AutoLeave |-> FALSE,
                                    Learners |-> learners, LearnersNext |-> {}],
                           prs |-> marked])

\* Mutant: learners that are staged are forgotten.
LeaveJointDropsStaged(t) ==
  IF ~Joint(t) THEN Fails(t, ErrJoint)
  ELSE CheckAndReturn([cfg |-> [Voters |-> <<Incoming(t), {}>>, AutoLeave |-> FALSE,
                                Learners |-> t.cfg.Learners, LearnersNext |-> {}],
                       prs |-> Without(t.prs, Outgoing(t) \ (Incoming(t) \cup t.cfg.Learners))])

LeaveJoint(t) ==
  LET learners == t.cfg.Learners \cup t.cfg.LearnersNext
      gone == Outgoing(t) \ (Incoming(t) \cup learners)
      marked == [id \in DOMAIN t.prs |->
                   [t.prs[id] EXCEPT !.IsLearner = @ \/ id \in t.cfg.LearnersNext]]
  IN  IF ~CheckInvariants(Copy(t)) THEN Fails(t, ErrInvariant)
      ELSE IF ~Joint(t) THEN Fails(t, ErrJoint)
      ELSE CheckAndReturn([cfg |-> [Voters |-> <<Incoming(t), {}>>, AutoLeave |-> FALSE,
                                    Learners |-> learners, LearnersNext |-> {}],
                           prs |-> Without(marked, gone)])

Symdiff(l, r) == Cardinality((l \ r) \cup (r \ l))

Simple(t, ccs) ==
  LET changed == Apply(Copy(t), ccs)
  IN  IF ~CheckInvariants(Copy(t)) THEN Fails(t, ErrInvariant)
      ELSE IF Joint(t) THEN Fails(t, ErrJoint)
      ELSE IF Incoming(changed) = {} THEN Fails(t, ErrNoVoters)
      ELSE IF Symdiff(Incoming(t), Incoming(changed)) > 1 THEN Fails(t, ErrTwoVoters)
      ELSE CheckAndReturn(changed)

----------------------------------------------------------------------------
(* ConfState, and the way back from it (Restore).                          *)

ConfState(t) ==
  [Voters |-> Incoming(t), VotersOutgoing |-> Outgoing(t), Learners |-> t.cfg.Learners,
   LearnersNext |-> t.cfg.LearnersNext, AutoLeave |-> t.cfg.AutoLeave]

\* One change of a type for each member of a set, in ascending order.
Each(type, ids) ==
  LET sorted == SetToSortSeq(ids, LAMBDA a, b : a < b)
  IN  [i \in 1..Len(sorted) |-> [Type |-> type, NodeID |-> sorted[i]]]

\* Mutant: learners that are staged are not restored.
ToConfChangeWithoutStaged(cs) ==
  [out |-> Each(ConfChangeAddNode, cs.VotersOutgoing),
   in |-> Each(ConfChangeRemoveNode, cs.VotersOutgoing)
          \o Each(ConfChangeAddNode, cs.Voters)
          \o Each(ConfChangeAddLearnerNode, cs.Learners)]

ToConfChangeSingle(cs) ==
  [out |-> Each(ConfChangeAddNode, cs.VotersOutgoing),
   in |-> Each(ConfChangeRemoveNode, cs.VotersOutgoing)
          \o Each(ConfChangeAddNode, cs.Voters)
          \o Each(ConfChangeAddLearnerNode, cs.Learners)
          \o Each(ConfChangeAddLearnerNode, cs.LearnersNext)]

\* chain: simple changes one by one, up to the first error.
Chain(t, ccs) ==
  FoldLeft(LAMBDA res, cc : IF res.err = NoError THEN Simple(res.tracker, <<cc>>) ELSE res,
           Fails(t, NoError), ccs)

Restore(t, cs) ==
  LET ops == ToConfChangeSingle(cs)
      out == Chain(t, ops.out)
  IN  IF ops.out = <<>> THEN Chain(t, ops.in)
      ELSE IF out.err # NoError THEN out
      ELSE EnterJoint(out.tracker, cs.AutoLeave, ops.in)

----------------------------------------------------------------------------
(* A change in the log.  ConfChangeV2 (raftpb) decides which operation it  *)
(* asks for: an empty one leaves the joint configuration, one of several   *)
(* changes, or one with an explicit transition, enters it.                 *)

Transition == {"Auto", "JointImplicit", "JointExplicit"}

WantsLeaveJoint(ccs) == ccs = <<>>
LeavesJoint(transition, ccs) == transition = "Auto" /\ ccs = <<>>
EntersJoint(transition, ccs) == transition # "Auto" \/ Len(ccs) > 1

Changed(t, transition, ccs) ==
  IF LeavesJoint(transition, ccs) THEN LeaveJoint(t)
  ELSE IF EntersJoint(transition, ccs) THEN EnterJoint(t, transition # "JointExplicit", ccs)
  ELSE Simple(t, ccs)
=============================================================================
