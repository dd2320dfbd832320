---------------------------- MODULE MCApprovalRun ----------------------------
(* Small instances of ApprovalRun for TLC.                                   *)
EXTENDS ApprovalRun, TLC

CONSTANTS ann, bob, cyn, rik, nobody, p1, p2, p3, s1, s2

MCUsers == {ann, bob, cyn, rik}
(* Everybody decides his own tasks; cyn also stands in for bob.              *)
MCActsFor == [a \in MCUsers |-> IF a = bob THEN {bob, cyn} ELSE {a}]
MCNoFallback == [a \in MCUsers |-> {}]
(* What expires at ann goes to cyn, what expires at cyn to nobody.           *)
MCFallback == [a \in MCUsers |-> IF a \in {ann, bob} THEN {cyn} ELSE {}]

Step(order, mode, approver) ==
  [order |-> order, mode |-> mode, approver |-> approver,
   timed |-> FALSE, applicable |-> TRUE]
TimedStep(order, mode, approver) == [Step(order, mode, approver) EXCEPT !.timed = TRUE]
SkippedStep(order) == [Step(order, "sequential", ann) EXCEPT !.applicable = FALSE]

(* One row per step, as WorkflowResolver makes them.                         *)
ChainPlans == {
  << SkippedStep(1), Step(2, "sequential", ann), Step(3, "sequential", bob) >>,
  << Step(1, "sequential", bob), Step(2, "parallel_all", ann) >> }
AnyPlans == {
  << Step(1, "parallel_any", ann), Step(1, "parallel_any", bob), Step(2, "sequential", ann) >>,
  << Step(1, "parallel_any", ann), Step(1, "parallel_any", bob), Step(1, "parallel_any", cyn) >> }
(* Several rows per step, as the creator's `approvers' list makes them.      *)
AllPlans == {
  << Step(1, "parallel_all", ann), Step(1, "parallel_all", bob), Step(2, "sequential", ann) >>,
  << Step(1, "sequential", cyn), Step(2, "parallel_all", ann), Step(2, "parallel_all", bob) >> }
GroupPlans == {
  << Step(1, "sequential", ann), Step(1, "sequential", bob), Step(2, "parallel_any", bob),
     Step(2, "parallel_any", ann) >> }
MCEveryPlan == ChainPlans \cup AnyPlans \cup AllPlans \cup GroupPlans
MCAnswerablePlans == ChainPlans \cup AnyPlans

MCWaitForAllPlans == { << Step(1, "parallel_all", ann), Step(1, "parallel_all", bob) >> }

(* A step with a deadline, escalated once.                                   *)
MCEscalatedPlans == { << TimedStep(1, "parallel_all", ann), Step(2, "sequential", bob) >> }

MCTwoStepPlans == { << TimedStep(1, "sequential", ann), TimedStep(2, "sequential", bob) >> }

MCTimedPlans == MCTwoStepPlans \cup {
  << TimedStep(1, "parallel_all", ann), Step(1, "parallel_all", bob), Step(2, "sequential", ann) >>,
  << TimedStep(1, "parallel_any", ann), Step(1, "parallel_any", bob), Step(2, "sequential", bob) >>,
  << TimedStep(1, "sequential", ann), Step(2, "parallel_any", ann), Step(2, "parallel_any", bob) >> }

(* What the theorems about ApprovalRun assume of the workflows.              *)
ASSUME MCOneModePerStep == OneModePerStep
ASSUME MCOnlyAnyIsShared == Plans = MCAnswerablePlans => OnlyAnyIsShared
ASSUME MCEveryRowHasADecider == EveryRowHasADecider

Symmetric == Permutations(Deciders) \cup Permutations(Sweepers)
=============================================================================
