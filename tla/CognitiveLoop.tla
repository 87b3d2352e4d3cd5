---------------------------- MODULE CognitiveLoop ----------------------------
(***************************************************************************)
(* The cognitive cycle (core/cognitive_core/core.py and the reasoner,      *)
(* decision engine, planner and action executor of core/cognitive) in the  *)
(* two processes that run it: the neron-cognitive-loop service every ten   *)
(* seconds (core/autonomous/run_cognitive_loop.py), and the server when a  *)
(* route asks for the cognitive state.  They share two files:              *)
(*   plans.jsonl, which is appended to, and rewritten by PlanStorage.update*)
(*   tasks.json,  which every TaskManager reads once and then overwrites   *)
(*                with all the tasks it has in memory.                     *)
(*                                                                         *)
(* An action is one file access with the code up to the next one.  The     *)
(* server runs its accesses in one event loop, so none of its other        *)
(* operations falls into a cycle or a rewrite of its own.                  *)
(***************************************************************************)
EXTENDS Naturals, Sequences, FiniteSets

CONSTANTS
  CycleGoals,   \* titles the active goal may have
  CoreHigh,     \* titles of the cognitive planner's tasks of high priority
  CoreMedium,   \* and of medium priority
  Steps,        \* titles of the steps of a generated plan, in order
  Window,       \* the 50 plans the executor looks back
  MaxTasks, MaxPlans, MaxCrashes  \* bounds

ASSUME CognitiveAssumption ==
  /\ Steps \in Seq(STRING) /\ Window \in Nat \ {0}
  /\ IsFiniteSet(CoreHigh) /\ IsFiniteSet(CoreMedium)
  /\ {MaxTasks, MaxPlans, MaxCrashes} \subseteq Nat

Processes == {"loop", "server"}
NoGoal == "none"
Modes3 == {"normal", "restricted", "survival"}  \* restricted: prudent, degraded
ActiveStatuses == {"pending", "active", "todo", "in_progress"}
OpenPlan == {"pending", "approved", "running"}
PlanStatuses == OpenPlan \cup {"refused", "plan_finished"}

TaskTitles == CycleGoals \cup CoreHigh \cup CoreMedium \cup {Steps[i] : i \in 1..Len(Steps)}
Task == [id : Nat, title : TaskTitles, plan : Nat, action : BOOLEAN,
         status : {"active", "running", "done", "failed"}]
NoTasks == <<>>

VARIABLES
  plans,     \* plans.jsonl
  file,      \* tasks.json
  mem,       \* tasks of the TaskManager of a process: a sequence
  loaded,    \* has the process a TaskManager?
  at,        \* file access a cycle is at
  cycle,     \* its goal, the id of its plan, the tasks it has made
  rewrite,   \* an update of plans.jsonl by the server: what it read
  made,      \* tasks and plans made so far
  crashes,
  (* history *)
  mishaps    \* kinds of trouble that have happened, see Mishaps

cognitiveVars == <<plans, file, mem, loaded, at, cycle, rewrite, made, crashes,
                   mishaps>>
taskVars == <<file, mem, loaded>>
planVars == <<plans, rewrite>>

(* overlap: two processes were inside a cycle or a rewrite at once;        *)
(* clobber: a process saved tasks over ones it did not know; torn: a cycle *)
(* died half-way; revive: a closed plan was approved again.                *)
Mishaps == {"overlap", "clobber", "torn", "revive"}
Noted(kind, happened) == IF happened THEN {kind} ELSE {}

NoCycle == [goal |-> NoGoal, plan |-> 0, tasks |-> <<>>]
NoRewrite == [plans |-> <<>>, id |-> 0, status |-> "none"]
Plan == [id : Nat, goal : CycleGoals, status : PlanStatuses, tasks : Seq(Nat)]

CognitiveTypeOK ==
  /\ plans \in Seq(Plan) /\ file \in Seq(Task)
  /\ mem \in [Processes -> Seq(Task)] /\ loaded \in [Processes -> BOOLEAN]
  /\ at \in [Processes -> {"idle", "plans", "tasks", "link", "save"}]
  /\ \A p \in Processes : cycle[p].plan <= made.plans
  /\ made.tasks \in 0..MaxTasks /\ made.plans \in 0..MaxPlans
  /\ crashes \in 0..MaxCrashes /\ mishaps \subseteq Mishaps
  /\ \A i, j \in DOMAIN file : file[i].id = file[j].id => i = j

CognitiveInit ==
  /\ plans = <<>> /\ file = NoTasks
  /\ mem = [p \in Processes |-> NoTasks]
  /\ loaded = [p \in Processes |-> FALSE]
  /\ at = [p \in Processes |-> "idle"]
  /\ cycle = [p \in Processes |-> NoCycle]
  /\ rewrite = NoRewrite
  /\ made = [tasks |-> 0, plans |-> 0] /\ crashes = 0
  /\ mishaps = {}

-----------------------------------------------------------------------------
(* TaskManager.                                                            *)
Active(s) == {i \in DOMAIN s : s[i].status \in ActiveStatuses}
Titles(s) == {s[i].title : i \in DOMAIN s}
Known(p) == IF loaded[p] THEN mem[p] ELSE file
NewTask(title, plan, action) ==
  [id |-> made.tasks + 1, title |-> title, plan |-> plan, action |-> action,
   status |-> "active"]

(* save: the file becomes what the process remembers.                      *)
Save(p, s) ==
  /\ mem' = [mem EXCEPT ![p] = s] /\ file' = s
  /\ loaded' = [loaded EXCEPT ![p] = TRUE]
  /\ mishaps' = mishaps \cup Noted("clobber",
       \E i \in DOMAIN file : \A j \in DOMAIN Known(p) : Known(p)[j] # file[i])

-----------------------------------------------------------------------------
(* Reasoner.reason and DecisionEngine.decide: the last reason wins, so a   *)
(* lack of tasks overrides bad health and a missing goal.                  *)
Strategy(health, world, hasGoal, hasTasks) ==
  IF ~hasTasks THEN "create_tasks"
  ELSE IF ~hasGoal THEN "restore_goal"
  ELSE IF world \in {"degraded", "unknown"} THEN "stabilize_environment"
  ELSE IF health # "ok" THEN "stabilize_self"
  ELSE "continue_current_plan"

ActionFor == [create_tasks |-> "generate_task_plan",
              restore_goal |-> "restore_active_goal",
              stabilize_environment |-> "analyze_world_state",
              stabilize_self |-> "analyze_system_resources",
              continue_current_plan |-> "continue_monitoring"]

(* The gates of ActionExecutor.execute.                                    *)
Permitted(action, policy) ==
  /\ policy = "survival" =>
       action \in {"continue_monitoring", "analyze_system_resources"}
  /\ policy # "normal" => action \notin {"generate_task_plan", "analyze_world_state"}

(* Titles the cognitive planner proposes under a policy; planner_enabled is *)
(* off in survival.                                                        *)
Proposed(policy) == CASE policy = "normal" -> CoreHigh \cup CoreMedium
                      [] policy = "restricted" -> CoreHigh
                      [] policy = "survival" -> {}

ServerFree == at["server"] = "idle" /\ rewrite = NoRewrite
Busy(p) == at[p] # "idle" \/ (p = "server" /\ rewrite # NoRewrite)
Overlap == Noted("overlap", \E q \in Processes : Busy(q))

Remember(p) == /\ mem' = [mem EXCEPT ![p] = Known(p)]
               /\ loaded' = [loaded EXCEPT ![p] = TRUE]

(* The tasks the planner proposes whose titles no task has, open or done;  *)
(* being active they leave nothing for the executor to do.                 *)
AddTasks(p, missing) ==
  /\ made.tasks + Cardinality(missing) <= MaxTasks
  /\ \E order \in [1..Cardinality(missing) -> missing] :
       /\ {order[i] : i \in DOMAIN order} = missing
       /\ Save(p, Known(p) \o
            [i \in DOMAIN order |->
               [NewTask(order[i], 0, FALSE) EXCEPT !.id = made.tasks + i]])
  /\ made' = [made EXCEPT !.tasks = @ + Cardinality(missing)]

(* What the decision may be, for any health of the machine and the world.  *)
(* The loop's core has no models: both are well.                           *)
Decisions(p, tasks, goal) ==
  {ActionFor[Strategy(health, world, goal # NoGoal, Active(tasks) # {})] :
     health \in IF p = "loop" THEN {"ok"} ELSE {"ok", "warning"},
     world \in IF p = "loop" THEN {"ok"} ELSE {"ok", "degraded"}}

(* CognitiveCore.evaluate up to the decision.  The loop has no task        *)
(* manager: it creates no tasks here, reads the active ones in the file,   *)
(* and its governor never leaves the normal mode.                          *)
ActOnDecision(p, tasks, goal, policy) ==
  \E planned \in {/\ action = "generate_task_plan" /\ Permitted(action, policy)
                  /\ goal # NoGoal : action \in Decisions(p, tasks, goal)} :
    IF planned
    THEN /\ at' = [at EXCEPT ![p] = "plans"]
         /\ cycle' = [cycle EXCEPT ![p].goal = goal]
    ELSE UNCHANGED <<at, cycle>>

Evaluate(p) ==
  \E goal \in CycleGoals \cup {NoGoal}, policy \in Modes3 :
    LET missing == IF p = "server" /\ goal # NoGoal
                   THEN Proposed(policy) \ Titles(Known(p)) ELSE {}
    IN /\ ~Busy(p) /\ (p = "loop" => policy = "normal")
       /\ \/ missing # {} /\ AddTasks(p, missing) /\ at' = at /\ cycle' = cycle
          \/ /\ missing = {}
             /\ IF p = "server" THEN Remember(p) ELSE UNCHANGED <<mem, loaded>>
             /\ ActOnDecision(p, IF p = "server" THEN Known(p) ELSE file, goal, policy)
             /\ mishaps' = mishaps \cup Overlap
             /\ UNCHANGED <<file, made>>
       /\ UNCHANGED <<planVars, crashes>>

Recent == {i \in DOMAIN plans : i > Len(plans) - Window}
End(p) == /\ at' = [at EXCEPT ![p] = "idle"]
          /\ cycle' = [cycle EXCEPT ![p] = NoCycle]

(* Mutant: an approved plan no longer counts.                              *)
HasPendingPlan(g) ==
  \E i \in Recent : plans[i].goal = g /\ plans[i].status = "pending"

HasOpenPlan(g) == \E i \in Recent : plans[i].goal = g /\ plans[i].status \in OpenPlan

LookForPlan(p) ==
  /\ at[p] = "plans"
  /\ IF HasOpenPlan(cycle[p].goal)
     THEN End(p) /\ UNCHANGED <<made, mem, loaded>>
     ELSE /\ made.plans < MaxPlans
          /\ made' = [made EXCEPT !.plans = @ + 1]
          /\ cycle' = [cycle EXCEPT ![p].plan = made.plans + 1]
          /\ at' = [at EXCEPT ![p] = "tasks"]
          /\ Remember(p)
  /\ UNCHANGED <<planVars, file, crashes, mishaps>>

(* create_task saves the task; its plan and action are set afterwards, and *)
(* reach the file with the next save.                                      *)
CreateTask(p) ==
  LET c == cycle[p]
      n == Len(c.tasks)
      linked == [i \in DOMAIN mem[p] |->
                   IF n > 0 /\ mem[p][i].id = c.tasks[n]
                   THEN [mem[p][i] EXCEPT !.plan = c.plan, !.action = TRUE]
                   ELSE mem[p][i]]
  IN /\ at[p] = "tasks" /\ n < Len(Steps) /\ made.tasks < MaxTasks
     /\ Save(p, Append(linked, NewTask(Steps[n + 1], 0, FALSE)))
     /\ made' = [made EXCEPT !.tasks = @ + 1]
     /\ cycle' = [cycle EXCEPT ![p].tasks = Append(@, made.tasks + 1)]
     /\ at' = [at EXCEPT ![p] = IF n + 1 = Len(Steps) THEN "link" ELSE "tasks"]
     /\ UNCHANGED <<planVars, crashes>>

(* Mutant: the save after the last task is left out.                       *)
LinkTasksUnsaved(p) ==
  LET c == cycle[p]
  IN /\ at[p] = "link"
     /\ mem' = [mem EXCEPT ![p] = [i \in DOMAIN mem[p] |->
                   IF mem[p][i].id \in {c.tasks[k] : k \in DOMAIN c.tasks}
                   THEN [mem[p][i] EXCEPT !.plan = c.plan, !.action = TRUE]
                   ELSE mem[p][i]]]
     /\ at' = [at EXCEPT ![p] = "save"]
     /\ UNCHANGED <<planVars, file, loaded, cycle, made, crashes, mishaps>>

LinkTasks(p) ==
  LET c == cycle[p]
  IN /\ at[p] = "link"
     /\ Save(p, [i \in DOMAIN mem[p] |->
                   IF mem[p][i].id \in {c.tasks[k] : k \in DOMAIN c.tasks}
                   THEN [mem[p][i] EXCEPT !.plan = c.plan, !.action = TRUE]
                   ELSE mem[p][i]])
     /\ at' = [at EXCEPT ![p] = "save"]
     /\ UNCHANGED <<planVars, cycle, made, crashes>>

SavePlan(p) ==
  /\ at[p] = "save"
  /\ plans' = Append(plans, [id |-> cycle[p].plan, goal |-> cycle[p].goal,
                             status |-> "pending", tasks |-> cycle[p].tasks])
  /\ End(p)
  /\ UNCHANGED <<taskVars, rewrite, made, crashes, mishaps>>

(* A process is killed; systemd starts it again with nothing in memory.  A *)
(* file it was rewriting may be left truncated, which reads as empty.      *)
Restart(p) ==
  /\ crashes < MaxCrashes /\ (loaded[p] \/ Busy(p))
  /\ crashes' = crashes + 1
  /\ mishaps' = mishaps \cup Noted("torn", Busy(p))
  /\ End(p)
  /\ mem' = [mem EXCEPT ![p] = NoTasks] /\ loaded' = [loaded EXCEPT ![p] = FALSE]
  /\ rewrite' = IF p = "server" THEN NoRewrite ELSE rewrite
  /\ file' \in {file} \cup IF at[p] \in {"tasks", "link"} THEN {NoTasks} ELSE {}
  /\ UNCHANGED <<plans, made>>

-----------------------------------------------------------------------------
(* The routes of the server.                                               *)
ServerTasks == UNCHANGED <<planVars, at, cycle, crashes>>

(* next_active_task: planner tasks with an action, then any with an action, *)
(* then any.  Only tasks of a plan have an action.                         *)
NextTask(s) ==
  LET withAction == {i \in Active(s) : s[i].action}
      least(S) == CHOOSE i \in S : \A j \in S : i <= j
  IN IF withAction # {} THEN least(withAction) ELSE least(Active(s))

StartNext ==
  LET s == Known("server")
  IN /\ ServerFree /\ Active(s) # {}
     /\ Save("server", [s EXCEPT ![NextTask(s)].status = "running"])
     /\ ServerTasks /\ UNCHANGED made

CloseTask ==
  LET s == Known("server")
  IN /\ ServerFree
     /\ \E i \in DOMAIN s, st \in {"done", "failed"} :
          s[i].status = "running" /\ Save("server", [s EXCEPT ![i].status = st])
     /\ ServerTasks /\ UNCHANGED made

DeleteTask ==
  LET s == Known("server")
  IN /\ ServerFree
     /\ \E i \in DOMAIN s :
          Save("server", SubSeq(s, 1, i - 1) \o SubSeq(s, i + 1, Len(s)))
     /\ ServerTasks /\ UNCHANGED made

(* clear_done: the others stay, in their order.                            *)
ClearDone ==
  LET s == Known("server")
      kept == {i \in DOMAIN s : s[i].status # "done"}
  IN /\ ServerFree /\ kept # DOMAIN s
     /\ \E order \in [1..Cardinality(kept) -> kept] :
          /\ \A i, j \in DOMAIN order : i < j => order[i] < order[j]
          /\ Save("server", [i \in DOMAIN order |-> s[order[i]]])
     /\ ServerTasks /\ UNCHANGED made

(* POST /tasks, and create_task_from_goal: its check for a duplicate looks *)
(* for "pending" and "running" while the task it makes is "active".  The   *)
(* title of the goal stands for its goal_id.                               *)
CreateGoalTask ==
  LET s == Known("server")
  IN /\ ServerFree /\ made.tasks < MaxTasks
     /\ \E g \in CycleGoals :
          /\ \A i \in DOMAIN s :
               ~(s[i].title = g /\ s[i].status \in {"pending", "running"})
          /\ Save("server", Append(s, NewTask(g, 0, FALSE)))
     /\ made' = [made EXCEPT !.tasks = @ + 1]
     /\ ServerTasks

(* PlanStorage.update: read all and truncate, then write all with one plan *)
(* changed, over what was appended since.                                  *)
BeginUpdate ==
  /\ ServerFree
  /\ \E i \in DOMAIN plans, st \in {"approved", "refused", "running", "plan_finished"} :
       /\ st # "approved" => plans[i].status \in OpenPlan
       /\ rewrite' = [plans |-> plans, id |-> plans[i].id, status |-> st]
       /\ mishaps' = mishaps \cup Overlap
                       \cup Noted("revive", plans[i].status \notin OpenPlan)
  /\ plans' = <<>>
  /\ UNCHANGED <<taskVars, at, cycle, made, crashes>>

EndUpdate ==
  /\ rewrite # NoRewrite
  /\ plans' = [i \in DOMAIN rewrite.plans |->
                 IF rewrite.plans[i].id = rewrite.id
                 THEN [rewrite.plans[i] EXCEPT !.status = rewrite.status]
                 ELSE rewrite.plans[i]]
  /\ rewrite' = NoRewrite
  /\ UNCHANGED <<taskVars, at, cycle, made, crashes, mishaps>>

CognitiveNext ==
  \/ \E p \in Processes : \/ Evaluate(p) \/ LookForPlan(p) \/ CreateTask(p)
                          \/ LinkTasks(p) \/ SavePlan(p) \/ Restart(p)
  \/ StartNext \/ CloseTask \/ DeleteTask \/ ClearDone \/ CreateGoalTask
  \/ BeginUpdate \/ EndUpdate

CognitiveSpec == CognitiveInit /\ [][CognitiveNext]_cognitiveVars

-----------------------------------------------------------------------------
(* While the two processes took turns and nobody approved a closed plan    *)
(* again: a goal never has two generated plans in work, across restarts    *)
(* and however often its plans are refused, run and finished.              *)
OnePlanInWork ==
  mishaps \cap {"overlap", "revive"} = {} =>
    \A i, j \in Recent : /\ plans[i].goal = plans[j].goal
                         /\ {plans[i].status, plans[j].status} \subseteq OpenPlan
                         => i = j

(* Two files, one truth: while no process saved over tasks it did not know *)
(* and no cycle died half-way, every task in tasks.json that belongs to a  *)
(* plan is listed by that plan, and carries the action that executes it.   *)
TasksAndPlansAgree ==
  mishaps \cap {"overlap", "clobber", "torn"} = {} =>
    \A i \in DOMAIN plans, k \in DOMAIN file :
      file[k].id \in {plans[i].tasks[n] : n \in DOMAIN plans[i].tasks}
        => file[k].plan = plans[i].id /\ file[k].action

(* "Empeche les doublons actifs pour un meme goal_id" (the docstring of    *)
(* create_task_from_goal): a goal has one task that is open or running.    *)
OneTaskPerGoal ==
  \A i, j \in DOMAIN file :
    /\ file[i].title = file[j].title /\ file[i].title \in CycleGoals
    /\ {file[i].status, file[j].status} \subseteq ActiveStatuses \cup {"running"}
    => i = j
=============================================================================
