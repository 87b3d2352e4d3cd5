---------------------------- MODULE GoalWorkflow ----------------------------
(***************************************************************************)
(* From an objective to its end: GoalOrchestrator, PlanStorage,            *)
(* TaskManager, TaskExecutor, PlanExecutor and the routes and commands     *)
(* that call them.                                                         *)
(*                                                                         *)
(* All of it runs in one event loop.  A handler is one step unless it      *)
(* awaits: only execute_plan does, each time it sends a notification, and  *)
(* it keeps its own copy of the plan from one await to the next.  Events   *)
(* published on the bus have no subscriber and do not suspend it.          *)
(*                                                                         *)
(* Every objective has the same title, the one case in which goals of      *)
(* different requests meet.  Tasks are neither deleted nor cleared.        *)
(***************************************************************************)
EXTENDS RiskPolicy, Sequences

CONSTANTS
  Plans,      \* bound: plans ever created
  Execs,      \* bound: executions at a time
  Goals,      \* bound: goals ever created
  NoGoal,     \* the goal of a plan that has none
  Kinds,      \* the templates objectives call for
  Calls,      \* bound: the requests that are made
  Manual,     \* what people set the status of a task to
  MaxCrashes  \* bound: deaths of the server

Requests == {"goals/run", "create", "generate-tasks", "approve", "refuse",
             "execute-approved", "/execute", "execute", "execute-next",
             "tasks/execute", "status", "sync-tasks"}

(* A task is told apart by what the code asks of its status: "active" is   *)
(* also pending and todo; "aside" is running, done or cancelled, statuses  *)
(* neither next_active_task nor execute_plan takes for open or finished.   *)
Statuses == {"active", "in_progress", "aside", "completed", "skipped", "failed"}

ASSUME GoalAssumption ==
  /\ NoGoal \notin Goals
  /\ Kinds \subseteq Templates /\ Calls \subseteq Requests
  /\ Manual \subseteq Statuses \ {"skipped"}
  /\ MaxCrashes \in Nat

VARIABLES
  goals,      \* status of each goal
  kind,       \* template and sensitive words of each plan
  stored,     \* plans.jsonl: the record of each plan
  tasks,      \* tasks.json: the statuses of the tasks of each plan, in order
  attached,   \* the tasks whose result holds a proposal
  queue,      \* the plans in the order their tasks were created
  proposals,  \* the plans for which an agent was requested
  exec,       \* calls of execute_plan
  approval,   \* history: whether anyone approved the plan, and withdrew it
  finished,   \* history: the tasks that were completed at some time
  crashes

vars == <<goals, kind, stored, tasks, attached, queue, proposals, exec,
          approval, finished, crashes>>

Absent == [status |-> "absent", approved |-> FALSE, proposal |-> FALSE,
           goal |-> NoGoal]

Idle == [pc |-> "idle"]

Init ==
  /\ goals = [g \in Goals |-> "absent"]
  /\ kind = [p \in Plans |-> [template |-> "none", flagged |-> FALSE]]
  /\ stored = [p \in Plans |-> Absent]
  /\ tasks = [p \in Plans |-> << >>]
  /\ attached = {} /\ queue = << >> /\ proposals = {}
  /\ exec = [e \in Execs |-> Idle]
  /\ approval = [p \in Plans |-> "none"]
  /\ finished = {} /\ crashes = 0

-----------------------------------------------------------------------------
(* Tasks *)

(* TaskManager.create_tasks_from_plan; it skips the steps that have a task.*)
CreateTasks(p, template) ==
  IF tasks[p] = << >>
  THEN /\ tasks' = [tasks EXCEPT ![p] =
                      [k \in 1..Profile(template, FALSE).steps |-> "active"]]
       /\ queue' = Append(queue, p)
  ELSE UNCHANGED <<tasks, queue>>

Skips(p)       == kind[p].template \in {"fix", "audit"}
Proposes(p, k) == kind[p].template = "agent" /\ k \in {2, 3}
Evaluates(p, k) == kind[p].template = "generic" /\ k = 3

(* What TaskExecutor.execute makes of a task: it implements no step of the *)
(* fix and audit plans, and those that use files may raise.                *)
Outcomes(p, k) ==
  IF Skips(p) THEN {"skipped"}
  ELSE IF kind[p].template = "agent" \/ Evaluates(p, k)
       THEN {"completed", "failed"}
  ELSE {"completed"}

(* The record of the plan after the executor's own write: the proposal, or *)
(* the risk.  Where there is no record it makes one up.                    *)
Recorded(p, k) ==
  LET madeUp == stored[p].status = "absent"
  IN  CASE Proposes(p, k) /\ madeUp ->
             [Absent EXCEPT !.status = "none", !.approved = TRUE, !.proposal = TRUE]
        [] Proposes(p, k) /\ ~madeUp -> [stored[p] EXCEPT !.proposal = TRUE]
        [] Evaluates(p, k) /\ madeUp -> [Absent EXCEPT !.status = "none"]
        [] OTHER -> stored[p]

(* One task is worked on.  A request for an agent that raises may already  *)
(* have written its proposal.                                              *)
Perform(p, k, outcome) ==
  /\ outcome \in Outcomes(p, k)
  /\ tasks' = [tasks EXCEPT ![p][k] = outcome]
  /\ \/ Proposes(p, k) /\ proposals' = proposals \union {p}
     \/ (Proposes(p, k) => outcome = "failed") /\ UNCHANGED proposals
  /\ attached' = IF Proposes(p, k) /\ outcome = "completed"
                 THEN attached \union {<<p, k>>} ELSE attached
  /\ finished' = IF outcome = "completed"
                 THEN finished \union {<<p, k>>} ELSE finished
  /\ UNCHANGED <<goals, kind, queue, approval, crashes>>

(* sync_plan_task_status: the record r of a plan after its tasks.          *)
Synced(r, statuses, hasResult) ==
  LET all == {statuses[k] : k \in DOMAIN statuses}
      status ==
        IF "failed" \in all THEN "failed"
        ELSE IF all \subseteq {"completed", "skipped"}
             THEN IF "completed" \in all THEN "tasks_completed" ELSE "partial"
        ELSE IF "in_progress" \in all THEN "running"
        ELSE IF r.status \in {"approval_required", "approved", "blocked_by_risk"}
             THEN r.status
        ELSE "pending"
  IN  IF r.status = "absent" \/ all = {} THEN r
      ELSE [r EXCEPT !.status = status, !.proposal = @ \/ hasResult]

HasResult(p) == \E j \in DOMAIN tasks[p] : <<p, j>> \in attached

(* The bodies of POST /tasks/execute-next and /tasks/execute: no sync when *)
(* the task raises.                                                        *)
RunTask(p, k) ==
  \E outcome \in Statuses :
    /\ Perform(p, k, outcome)
    /\ stored' = IF outcome = "failed" THEN stored
                 ELSE [stored EXCEPT ![p] =
                         Synced(Recorded(p, k), tasks'[p], HasResult(p)')]
    /\ UNCHANGED exec

IsOpen(p, k) == tasks[p][k] \in {"active", "in_progress"}

(* TaskManager.next_active_task *)
ExecuteNext ==
  \E i \in DOMAIN queue :
    /\ \A j \in 1..(i - 1) : \A k \in DOMAIN tasks[queue[j]] : ~IsOpen(queue[j], k)
    /\ \E k \in DOMAIN tasks[queue[i]] :
         /\ IsOpen(queue[i], k)
         /\ \A j \in 1..(k - 1) : ~IsOpen(queue[i], j)
         /\ RunTask(queue[i], k)

ExecuteTask == \E p \in Plans : \E k \in DOMAIN tasks[p] : RunTask(p, k)

(* The routes that set the status of a task.                               *)
Mark ==
  \E p \in Plans, s \in Manual : \E k \in DOMAIN tasks[p] :
    /\ tasks' = [tasks EXCEPT ![p][k] = s]
    /\ finished' = IF s = "completed" THEN finished \union {<<p, k>>} ELSE finished
    /\ UNCHANGED <<goals, kind, stored, attached, queue, proposals, exec,
                   approval, crashes>>

(* POST /planner/sync-tasks                                                *)
SyncAll ==
  /\ stored' = [p \in Plans |-> Synced(stored[p], tasks[p], HasResult(p))]
  /\ UNCHANGED <<goals, kind, tasks, attached, queue, proposals, exec,
                 approval, finished, crashes>>

GenerateTasks(p) ==
  /\ stored[p].status # "absent"
  /\ tasks[p] = << >>
  /\ CreateTasks(p, kind[p].template)
  /\ UNCHANGED <<goals, kind, stored, attached, proposals, exec, approval,
                 finished, crashes>>

-----------------------------------------------------------------------------
(* Executions: GoalOrchestrator.execute_plan *)

Copy(p, r) ==
  [pc |-> "running", plan |-> p, idx |-> 1, skipped |-> FALSE,
   proposal |-> r.proposal, goal |-> r.goal]

(* Up to its first notification: record r of plan p is approved.           *)
Start(e, p, r) ==
  /\ exec[e] = Idle
  /\ stored' = [stored EXCEPT ![p] = [r EXCEPT !.status = "running"]]
  /\ exec' = [exec EXCEPT ![e] = Copy(p, r)]

(* Mutants: tasks that are completed are worked on again; tasks that a     *)
(* crash interrupted count as finished.                                    *)
RestButSkipped(c) ==
  {k \in c.idx..Len(tasks[c.plan]) : tasks[c.plan][k] # "skipped"}

RestButStarted(c) ==
  {k \in c.idx..Len(tasks[c.plan]) :
     tasks[c.plan][k] \notin {"completed", "skipped", "in_progress"}}

(* The tasks from the next one on that are still to be worked on.          *)
Rest(c) ==
  {k \in c.idx..Len(tasks[c.plan]) :
     tasks[c.plan][k] \notin {"completed", "skipped"}}

(* The copy after the finished tasks before task k.                        *)
Passing(c, k) ==
  LET passed(s) == {j \in c.idx..(k - 1) : tasks[c.plan][j] = s}
  IN  [c EXCEPT !.idx = k,
                !.skipped = @ \/ passed("skipped") # {},
                !.proposal = @ \/ \E j \in passed("completed") :
                                    <<c.plan, j>> \in attached]

(* Mutant: a task that failed is tried again.                              *)
AfterRetries(c, k, outcome) ==
  IF outcome = "failed" THEN c
  ELSE [c EXCEPT !.idx = k + 1,
                 !.skipped = @ \/ outcome = "skipped",
                 !.proposal = @ \/ Proposes(c.plan, k)]

(* The copy after work on task k.                                          *)
After(c, k, outcome) ==
  IF outcome = "failed" THEN [c EXCEPT !.pc = "failing"]
  ELSE [c EXCEPT !.idx = k + 1,
                 !.skipped = @ \/ outcome = "skipped",
                 !.proposal = @ \/ Proposes(c.plan, k)]

(* The next task, up to the notification about it.                         *)
Work(e) ==
  /\ exec[e].pc = "running"
  /\ \E k \in Rest(exec[e]), outcome \in Statuses :
       LET p == exec[e].plan
           c == Passing(exec[e], k)
       IN  /\ \A j \in Rest(exec[e]) : k <= j
           /\ Perform(p, k, outcome)
           /\ stored' = IF outcome = "failed" THEN stored
                        ELSE [stored EXCEPT ![p] = Recorded(p, k)]
           /\ exec' = [exec EXCEPT ![e] = After(c, k, outcome)]

(* Mutant: the report writes the status of a task into the plan.           *)
ReportTask(c, status, proposal) ==
  [status |-> IF status = "plan_finished" THEN "completed" ELSE status,
   approved |-> TRUE, goal |-> c.goal, proposal |-> proposal]

(* The record the execution leaves: its own copy, whatever is stored.      *)
Report(c, status, proposal) ==
  [status |-> status, approved |-> TRUE, goal |-> c.goal, proposal |-> proposal]

(* Mutant: a plan for an agent needs no proposal.                          *)
VerdictOfTasks(c) == IF c.skipped THEN "partial" ELSE "plan_finished"

(* The status of a plan all whose tasks are finished; the steps of a plan  *)
(* for an agent are never skipped.                                         *)
Verdict(c) ==
  IF kind[c.plan].template = "agent" /\ ~c.proposal THEN "failed"
  ELSE IF c.skipped THEN "partial" ELSE "plan_finished"

Finish(e) ==
  /\ exec[e].pc = "running"
  /\ Rest(exec[e]) = {}
  /\ LET c == Passing(exec[e], Len(tasks[exec[e].plan]) + 1)
     IN  /\ stored' = [stored EXCEPT ![c.plan] = Report(c, Verdict(c), c.proposal)]
         /\ goals' = IF Verdict(c) = "plan_finished" /\ c.goal # NoGoal
                     THEN [goals EXCEPT ![c.goal] = "completed"] ELSE goals
  /\ exec' = [exec EXCEPT ![e] = Idle]
  /\ UNCHANGED <<kind, tasks, attached, queue, proposals, approval, finished,
                 crashes>>

(* Mutant: the failure is not written into the plan.                       *)
FailUnreported(e) ==
  /\ exec[e].pc = "failing"
  /\ exec' = [exec EXCEPT ![e] = Idle]
  /\ UNCHANGED <<goals, kind, stored, tasks, attached, queue, proposals,
                 approval, finished, crashes>>

(* After the notification about the task that failed.                      *)
Fail(e) ==
  /\ exec[e].pc = "failing"
  /\ LET c == exec[e]
     IN  stored' = [stored EXCEPT ![c.plan] =
                      Report(c, "failed", c.proposal \/ HasResult(c.plan))]
  /\ exec' = [exec EXCEPT ![e] = Idle]
  /\ UNCHANGED <<goals, kind, tasks, attached, queue, proposals, approval,
                 finished, crashes>>

-----------------------------------------------------------------------------
(* Objectives and plans *)

(* Mutant: any goal of this title is taken, a completed one too.           *)
GoalForTitle(g) ==
  goals[g] = "absent" => \A h \in Goals : goals[h] = "absent"

(* The goal of a request: GoalManager.create_goal returns the one that is  *)
(* active under this title, if any.                                        *)
GoalFor(g) ==
  /\ goals[g] # "completed"
  /\ goals[g] = "absent" => \A h \in Goals : goals[h] # "active"

NewPlan(p, t, f) ==
  /\ kind[p].template = "none"
  /\ kind' = [kind EXCEPT ![p] = [template |-> t, flagged |-> f]]

(* run_goal; the plan the policy accepts is approved by it and started.    *)
RunGoal(p) ==
  \E g \in Goals, t \in Kinds, f \in BOOLEAN :
    LET decision == Decision(Profile(t, f), FALSE)
        auto == decision = "auto_execute"
        r == [status |-> IF decision = "blocked" THEN "blocked_by_risk"
                         ELSE "approval_required",
              approved |-> auto, proposal |-> FALSE, goal |-> g]
    IN  /\ GoalFor(g) /\ goals' = [goals EXCEPT ![g] = "active"]
        /\ NewPlan(p, t, f)
        /\ CreateTasks(p, t)
        /\ \/ auto /\ \E e \in Execs : Start(e, p, r)
           \/ ~auto /\ stored' = [stored EXCEPT ![p] = r] /\ UNCHANGED exec
        /\ approval' = [approval EXCEPT ![p] = IF auto THEN "given" ELSE @]
        /\ UNCHANGED <<attached, proposals, finished, crashes>>

(* POST /planner/create and /planner/from-goal                             *)
CreatePlan(p) ==
  \E t \in Kinds, f \in BOOLEAN :
    /\ NewPlan(p, t, f)
    /\ stored' = [stored EXCEPT ![p] = [Absent EXCEPT !.status = "pending"]]
    /\ UNCHANGED <<goals, tasks, attached, queue, proposals, exec, approval,
                   finished, crashes>>

Exists(p) == stored[p].status # "absent"

(* POST /planner/approve                                                   *)
Approve(p) ==
  /\ Exists(p)
  /\ stored' = [stored EXCEPT ![p].approved = TRUE, ![p].status = "approved"]
  /\ approval' = [approval EXCEPT ![p] = "given"]
  /\ UNCHANGED <<goals, kind, tasks, attached, queue, proposals, exec,
                 finished, crashes>>

(* /refuse                                                                 *)
Refuse(p) ==
  /\ Exists(p)
  /\ stored' = [stored EXCEPT ![p].approved = FALSE, ![p].status = "refused"]
  /\ approval' = [approval EXCEPT ![p] = IF @ = "given" THEN "withdrawn" ELSE @]
  /\ UNCHANGED <<goals, kind, tasks, attached, queue, proposals, exec,
                 finished, crashes>>

Terminal == {"plan_finished", "partial", "refused", "blocked_by_risk", "failed"}

(* execute_approved_plan: /approve and POST /planner/execute-approved.  The*)
(* policy, asked again, blocks no template that is approved.               *)
ASSUME ApprovedTemplates ==
  \A t \in Templates, f \in BOOLEAN : Decision(Profile(t, f), TRUE) # "blocked"

ExecuteApproved(p) ==
  LET r == [stored[p] EXCEPT !.approved = TRUE]
  IN  /\ Exists(p) /\ stored[p].status \notin Terminal
      /\ approval' = [approval EXCEPT ![p] = "given"]
      /\ CreateTasks(p, kind[p].template)
      /\ \E e \in Execs : Start(e, p, r)
      /\ UNCHANGED <<goals, kind, attached, proposals, finished, crashes>>

(* Mutant: /execute does not look at the approval.                         *)
ExecuteCommandUnchecked(p) ==
  /\ Exists(p)
  /\ CreateTasks(p, kind[p].template)
  /\ \E e \in Execs : Start(e, p, stored[p])
  /\ UNCHANGED <<goals, kind, attached, proposals, approval, finished, crashes>>

(* The command /execute, for any plan that is approved.                    *)
ExecuteCommand(p) ==
  /\ stored[p].approved
  /\ CreateTasks(p, kind[p].template)
  /\ \E e \in Execs : Start(e, p, stored[p])
  /\ UNCHANGED <<goals, kind, attached, proposals, approval, finished, crashes>>

(* POST /planner/execute: PlanExecutor works on the steps, not the tasks,  *)
(* and what it requests is not written into the plan.                      *)
ExecuteRoute(p) ==
  LET t == kind[p].template
      allowed == Allowed(Profile(t, kind[p].flagged), stored[p].approved)
  IN  /\ Exists(p)
      /\ \E status \in {"blocked_by_risk", "approval_required", "failed",
                        "plan_finished"} :
           /\ (status = "blocked_by_risk") = ~allowed
           /\ allowed => (status = "approval_required") = ~stored[p].approved
           /\ status = "failed" => t \in {"agent", "fix"}
           /\ stored' = [stored EXCEPT ![p].status = status]
           /\ \/ /\ t = "agent" /\ status \in {"failed", "plan_finished"}
                 /\ proposals' = proposals \union {p}
              \/ (t = "agent" => status # "plan_finished") /\ UNCHANGED proposals
      /\ UNCHANGED <<goals, kind, tasks, attached, queue, exec, approval,
                     finished, crashes>>

-----------------------------------------------------------------------------
(* The server dies and is started again: the files are all that remains.   *)
Dies ==
  /\ crashes < MaxCrashes
  /\ crashes' = crashes + 1
  /\ exec' = [e \in Execs |-> Idle]

(* While it waits, or within a handler: after the tasks of run_goal and    *)
(* before its plan, while a task is being worked on, or between the reports*)
(* of a finished plan and the completion of its goal.                      *)
Crash ==
  Dies /\ UNCHANGED <<goals, kind, stored, tasks, attached, queue, proposals,
                      approval, finished>>

CrashInRunGoal(p) ==
  \E g \in Goals, t \in Kinds, f \in BOOLEAN :
    /\ Dies
    /\ GoalFor(g) /\ goals' = [goals EXCEPT ![g] = "active"]
    /\ NewPlan(p, t, f)
    /\ CreateTasks(p, t)
    /\ UNCHANGED <<stored, attached, proposals, approval, finished>>

CrashInTask(p) ==
  \E k \in DOMAIN tasks[p] :
    /\ Dies
    /\ tasks' = [tasks EXCEPT ![p][k] = "in_progress"]
    /\ \/ Proposes(p, k) /\ proposals' = proposals \union {p}
       \/ UNCHANGED proposals
    /\ UNCHANGED <<goals, kind, stored, attached, queue, approval, finished>>

CrashInFinish(e) ==
  /\ exec[e].pc = "running"
  /\ Rest(exec[e]) = {}
  /\ Dies
  /\ LET c == Passing(exec[e], Len(tasks[exec[e].plan]) + 1)
     IN  /\ Verdict(c) = "plan_finished"
         /\ \E status \in {"tasks_completed", "plan_finished"} :
              stored' = [stored EXCEPT ![c.plan] = Report(c, status, c.proposal)]
  /\ UNCHANGED <<goals, kind, tasks, attached, queue, proposals, approval,
                 finished>>

Request(p) ==
  \/ "goals/run" \in Calls /\ RunGoal(p)
  \/ "create" \in Calls /\ CreatePlan(p)
  \/ "generate-tasks" \in Calls /\ GenerateTasks(p)
  \/ "approve" \in Calls /\ Approve(p)
  \/ "refuse" \in Calls /\ Refuse(p)
  \/ "execute-approved" \in Calls /\ ExecuteApproved(p)
  \/ "/execute" \in Calls /\ ExecuteCommand(p)
  \/ "execute" \in Calls /\ ExecuteRoute(p)

TaskRequest ==
  \/ "execute-next" \in Calls /\ ExecuteNext
  \/ "tasks/execute" \in Calls /\ ExecuteTask
  \/ "status" \in Calls /\ Mark
  \/ "sync-tasks" \in Calls /\ SyncAll

Next ==
  \/ \E e \in Execs : Work(e) \/ Finish(e) \/ Fail(e) \/ CrashInFinish(e)
  \/ \E p \in Plans : Request(p) \/ CrashInRunGoal(p) \/ CrashInTask(p)
  \/ TaskRequest
  \/ Crash

Spec == Init /\ [][Next]_vars

(* The loop resumes an execution after its notification, which ends: what  *)
(* the client raises, its timeouts included, is caught.                    *)
FairSpec ==
  Spec /\ \A e \in Execs : WF_vars(Work(e) \/ Finish(e) \/ Fail(e))

-----------------------------------------------------------------------------
(* Types of the variables.                                                 *)
Records == [status : {"absent", "none", "pending", "approval_required", "approved",
                      "running", "tasks_completed"} \union Terminal,
            approved : BOOLEAN, proposal : BOOLEAN, goal : Goals \union {NoGoal}]

(* What an execution keeps between its awaits.                             *)
Copies == [pc : {"running", "failing"}, plan : Plans, idx : Nat \ {0},
           skipped : BOOLEAN, proposal : BOOLEAN, goal : Goals \union {NoGoal}]

TypeOK ==
  /\ goals \in [Goals -> {"absent", "active", "completed"}]
  /\ kind \in [Plans -> [template : Kinds \union {"none"}, flagged : BOOLEAN]]
  /\ stored \in [Plans -> Records]
  /\ tasks \in [Plans -> Seq(Statuses)]
  /\ \A p \in Plans :
       tasks[p] # << >> => Len(tasks[p]) = Profile(kind[p].template, FALSE).steps
  /\ queue \in Seq(Plans) /\ \A i \in DOMAIN queue : tasks[queue[i]] # << >>
  /\ proposals \subseteq Plans
  /\ exec \in [Execs -> {Idle} \union Copies]
  /\ \A e \in Execs :
       exec[e] # Idle => exec[e].idx <= Len(tasks[exec[e].plan]) + 1
  /\ approval \in [Plans -> {"none", "given", "withdrawn"}]
  /\ crashes \in 0..MaxCrashes

(* A goal is only completed by a plan made for it each of whose tasks was  *)
(* completed at some time, by execute_plan or by other calls meanwhile.    *)
GoalCompletedByWork ==
  \A g \in Goals : goals[g] = "completed" =>
    \E p \in Plans :
      /\ stored[p].goal = g /\ tasks[p] # << >>
      /\ \A k \in DOMAIN tasks[p] : <<p, k>> \in finished

(* The goal of a plan that execute_plan reported finished is completed and *)
(* stays so, whatever other requests for the same objective do: unless the *)
(* server died between the two, or POST /planner/execute, which knows no   *)
(* goals, finished the plan.                                               *)
FinishedPlanHasGoal ==
  crashes = 0 /\ "execute" \notin Calls =>
    \A p \in Plans : stored[p].status = "plan_finished" /\ stored[p].goal # NoGoal
                       => goals[stored[p].goal] = "completed"

(* A plan for an agent is only reported finished once an agent was         *)
(* requested, whichever of the two executors reports it.                   *)
FinishedAgentHasProposal ==
  \A p \in Plans :
    stored[p].status = "plan_finished" /\ kind[p].template = "agent"
      => p \in proposals

(* What is approved, or executed by execute_plan, was approved at some     *)
(* time by the risk policy or by a person; unless the server died between  *)
(* the tasks and the plan of run_goal, since the executor makes up the plan*)
(* it does not find as an approved one.                                    *)
SomeoneApproved ==
  crashes = 0 =>
  /\ \A p \in Plans : stored[p].approved => approval[p] # "none"
  /\ \A e \in Execs : exec[e] # Idle => approval[exec[e].plan] # "none"

(* A plan is only shown as running while an execution will still report    *)
(* on it, unless someone says so of a task or the server died.             *)
RunningIsReal ==
  crashes = 0 /\ "in_progress" \notin Manual =>
    \A p \in Plans : stored[p].status = "running" =>
      \E e \in Execs : exec[e] # Idle /\ exec[e].plan = p

(* An execution never works on a task that is completed, be it by another  *)
(* execution or call since its own last step.                              *)
CompletedTaskIsKept ==
  [][\A p \in Plans : \A k \in DOMAIN tasks[p] :
       tasks[p][k] = "completed" /\ tasks'[p][k] # "completed"
         => exec' = exec \/ crashes' # crashes]_vars

(* Every execution comes to its report.                                    *)
ExecutionsEnd == \A e \in Execs : exec[e] # Idle ~> exec[e] = Idle

-----------------------------------------------------------------------------
(* What documents and comments of the repository say, and the code breaks. *)

(* After /refuse ("Plan refusé") a plan is not executed again unless it is *)
(* approved again.                                                         *)
RefusalHolds ==
  [][\A e \in Execs : exec[e] = Idle /\ exec'[e] # Idle
       => approval'[exec'[e].plan] = "given"]_vars

=============================================================================
