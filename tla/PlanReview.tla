----------------------------- MODULE PlanReview -----------------------------
(***************************************************************************)
(* One plan before the gates that may execute it: the orchestrator         *)
(* (run_goal, then execute_approved_plan), the command /execute and POST   *)
(* /planner/execute, with approvals and refusals of a human in between.    *)
(***************************************************************************)
EXTENDS RiskPolicy

CONSTANT MaxSteps  \* bound: steps of a plan

ASSUME MaxStepsAssumption == MaxSteps \in Nat

VARIABLES
  plan,      \* what the policy sees of the plan; it does not change
  approved,  \* the "approved" field
  verdict    \* what was last decided about the plan, or done with it

vars == <<plan, approved, verdict>>

Init ==
  /\ plan \in Profiles(MaxSteps)
  /\ approved = FALSE
  /\ verdict = "none"

(* run_goal: decides on the unapproved plan and approves it itself when it *)
(* may run at once.                                                        *)
RunGoal ==
  /\ verdict = "none"
  /\ verdict' = Decision(plan, FALSE)
  /\ approved' = (verdict' = "auto_execute")
  /\ UNCHANGED plan

(* Verdicts after which the plan has a terminal status.                    *)
Final ==
  {"blocked", "refused", "auto_execute", "executed", "executed_by_route"}

(* execute_approved_plan, which is the approval of /approve as well.       *)
ExecuteApproved ==
  /\ verdict \notin Final
  /\ approved' = TRUE
  /\ verdict' = IF Decision(plan, TRUE) = "blocked" THEN "blocked"
                ELSE "executed"
  /\ UNCHANGED plan

(* The command /execute looks at the approval only.                        *)
ExecuteCommand ==
  /\ approved
  /\ verdict' = "executed"
  /\ UNCHANGED <<plan, approved>>

(* POST /planner/approve, in any status.                                   *)
Approve ==
  /\ approved' = TRUE
  /\ verdict' = "approved"
  /\ UNCHANGED plan

(* /refuse.                                                                *)
Refuse ==
  /\ approved' = FALSE
  /\ verdict' = "refused"
  /\ UNCHANGED plan

(* Mutant: the route executes what the critic refuses.                     *)
ExecuteRouteUnchecked ==
  /\ verdict' = IF approved THEN "executed_by_route" ELSE "approval_required"
  /\ UNCHANGED <<plan, approved>>

(* POST /planner/execute: the critic's permission, then PlanExecutor, which*)
(* asks for the approval.                                                  *)
ExecuteRoute ==
  /\ \/ Allowed(plan, approved) /\ approved /\ verdict' = "executed_by_route"
     \/ Allowed(plan, approved) /\ ~approved /\ verdict' = "approval_required"
     \/ ~Allowed(plan, approved) /\ verdict' = "blocked"
  /\ UNCHANGED <<plan, approved>>

Next ==
  \/ RunGoal \/ ExecuteApproved \/ ExecuteCommand \/ ExecuteRoute
  \/ Approve \/ Refuse

Spec == Init /\ [][Next]_vars

-----------------------------------------------------------------------------
(* Types of the variables.                                                 *)
TypeOK ==
  /\ plan \in Profiles(MaxSteps)
  /\ approved \in BOOLEAN
  /\ verdict \in {"none", "auto_execute", "approval_required", "blocked",
                  "approved", "refused", "executed", "executed_by_route"}

(* The orchestrator executes without a human only what neither list of     *)
(* sensitive words or actions matches, and at most two of its steps are    *)
(* made by an agent that produces code; the numbers of evaluate_plan and   *)
(* the thresholds of _decide together must say so.                         *)
AutoIsHarmless ==
  verdict = "auto_execute" =>
    /\ ~Sensitive(plan) /\ ~plan.flagged
    /\ plan.steps > 0
    /\ plan.code <= 2
    /\ 3 * plan.code + plan.tests <= 6

(* Two gates that judge by different rules: what POST /planner/execute has *)
(* executed is never a plan that /approve would have blocked, although the *)
(* route neither compares the score with 95 nor knows the orchestrator's   *)
(* own lists of sensitive words.                                           *)
RouteWithinApproval ==
  verdict = "executed_by_route" => Decision(plan, TRUE) # "blocked"

(* What the critic finds sensitive never just waits for an approval, and   *)
(* never runs at once: the floor of 90 and the charge of 20 for the missing*)
(* approval pass the limit of 95, whatever the steps are.                  *)
SensitiveIsBlocked ==
  verdict \in {"auto_execute", "approval_required"} => ~Sensitive(plan)

(* Approval only ever relaxes: what the orchestrator would ask for is not  *)
(* blocked, and what it would run at once still is, once approved.         *)
ApprovalRelaxes ==
  /\ Decision(plan, TRUE) = "blocked" => Decision(plan, FALSE) = "blocked"
  /\ Decision(plan, FALSE) = "auto_execute"
       => Decision(plan, TRUE) = "auto_execute"
=============================================================================
