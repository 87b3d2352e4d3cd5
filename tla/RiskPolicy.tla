----------------------------- MODULE RiskPolicy -----------------------------
(***************************************************************************)
(* The risk policy that stands between a plan and its execution:           *)
(* CriticEngine.evaluate_plan, the second opinion of GoalOrchestrator and  *)
(* its _decide, and the gate of POST /planner/execute.                     *)
(*                                                                         *)
(* A plan is told apart by what the policy looks at: the number of its     *)
(* steps, how many of them have a sensitive action, are made by an agent   *)
(* that produces code, or run or prepare tests; whether a sensitive        *)
(* keyword of the critic occurs in them; and whether the orchestrator's    *)
(* own lists, which also cover the text of the goal, match.                *)
(***************************************************************************)
EXTENDS Integers

(* The plans with at most n steps.                                         *)
Profiles(n) ==
  {p \in [steps : 0..n, sensitive : 0..n, code : 0..n, tests : 0..n,
          keyword : BOOLEAN, flagged : BOOLEAN] :
     /\ p.sensitive + p.tests <= p.steps    \* a step has one action
     /\ p.code <= p.steps
     /\ p.keyword => p.steps > 0}

MaxOf(a, b) == IF a >= b THEN a ELSE b
MinOf(a, b) == IF a <= b THEN a ELSE b

(* CriticEngine.evaluate_plan *)

Sensitive(p) == p.sensitive > 0 \/ p.keyword

(* What the loop over the steps adds up to.                                *)
StepScore(p) ==
  (IF p.steps = 0 THEN 40 ELSE 0) + 50 * p.sensitive + 15 * p.code + 5 * p.tests

(* Mutant: an unapproved plan is not charged for it.                       *)
FullScoreBlind(p, approved) ==
  IF Sensitive(p) THEN MaxOf(StepScore(p), 90) ELSE StepScore(p)

(* Mutant: the floor of sensitive plans comes after the charge.            *)
FullScoreFloorLast(p, approved) ==
  LET charged == StepScore(p) + (IF approved THEN 0 ELSE 20)
  IN  IF Sensitive(p) THEN MaxOf(charged, 90) ELSE charged

FullScore(p, approved) ==
  (IF Sensitive(p) THEN MaxOf(StepScore(p), 90) ELSE StepScore(p))
  + (IF approved THEN 0 ELSE 20)

Allowed(p, approved) == ~Sensitive(p) /\ FullScore(p, approved) <= 80

RiskScore(p, approved) == MinOf(FullScore(p, approved), 100)

(* GoalOrchestrator.run_goal and execute_approved_plan: what its own lists *)
(* match raises the score and withdraws the permission.                    *)

OrchestratorScore(p, approved) ==
  IF p.flagged THEN MaxOf(RiskScore(p, approved), 90) ELSE RiskScore(p, approved)

OrchestratorAllowed(p, approved) == ~p.flagged /\ Allowed(p, approved)

(* GoalOrchestrator._decide; sensitive_detected is what the orchestrator's *)
(* own lists found, not what the critic's did.                             *)
Decide(score, flagged, allowed) ==
  IF score > 95 THEN "blocked"
  ELSE IF score <= 50 /\ ~flagged /\ allowed THEN "auto_execute"
  ELSE "approval_required"

Decision(p, approved) ==
  Decide(OrchestratorScore(p, approved), p.flagged,
         OrchestratorAllowed(p, approved))

-----------------------------------------------------------------------------
(* The templates of AutonomousPlanner.                                     *)

Templates == {"generic", "agent", "fix", "audit"}

Profile(template, flagged) ==
  CASE template = "generic" ->
         [steps |-> 3, sensitive |-> 0, code |-> 0, tests |-> 0,
          keyword |-> FALSE, flagged |-> flagged]
    [] template = "agent" ->
         [steps |-> 4, sensitive |-> 0, code |-> 2, tests |-> 0,
          keyword |-> FALSE, flagged |-> flagged]
    [] template = "fix" ->
         [steps |-> 4, sensitive |-> 0, code |-> 1, tests |-> 1,
          keyword |-> FALSE, flagged |-> flagged]
    [] template = "audit" ->
         [steps |-> 4, sensitive |-> 0, code |-> 0, tests |-> 0,
          keyword |-> TRUE, flagged |-> TRUE]
=============================================================================
