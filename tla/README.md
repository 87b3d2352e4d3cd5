# Verification of Néron's core

Néron is a personal assistant server: one Python process (FastAPI and a
Telegram bot on one asyncio event loop), a few helper processes started by
systemd, and JSON files that carry the state from one start to the next. This
directory holds TLA+ models of the parts in which that arrangement is hard to
get right, TLC configurations that check them on small instances, and TLAPS
proofs of the properties that matter most.

Run, in this directory, `tlasany M.tla` to parse a module, `tlc -config X.cfg M`
to check it and `tlapm M.tla` to check its proofs. `PROJECT.json` lists the
components, runs, mutants, the lines each definition models, the findings, the
hazards and the theorems.

## 1. The system

### 1.1 What interacts with what

```
 Telegram / HTTP / WebSocket                     systemd (restarts the server)
        |                                              |
 command_dispatcher, routes  ----->  runtime governor, sessions, pipeline
        |            |
        |            +--> EvolutionSupervisor --> CodexRunner --> subprocesses
        |                    |                                   (codex, pytest, git)
        |                    +--> evolution_state.json, projects.json
        v
 GoalOrchestrator --> CriticEngine          (risk policy)
        |        --> PlanStorage            plans.jsonl  <--+
        |        --> TaskManager/Executor   tasks.json   <--+-- cognitive loop
        |        --> GoalManager            goals.json          (own process)
        |        --> PlanExecutor
        +------> request_agent_creation     agent proposals --> agent factory
```

Everything on the left runs in one event loop. A handler that does not await is
atomic; what can come between is (a) other handlers at an `await`, (b) the end
of a subprocess or of a timeout, (c) the death of the server, which keeps only
the files, and (d) the other processes that write the same files.

### 1.2 Components

The components that carry the core logic, with their state, their operations
and what makes them correct. `PROJECT.json` lists all of them with what is left
out, and those left aside entirely (I/O, wording, static analysis, prototypes
and vendored code).

**Supervised evolution** (`core/evolution/supervisor.py`, `storage.py`,
`codex_runner.py`). A person accepts a proposal to change the repository; a
background task runs Codex, the tests, and git commit and push.
*State*: decisions, runs, the stopped flag and the cycle in
`evolution_state.json`; projects in `projects.json`; a set of asyncio tasks; one
slot for the current subprocess.
*Operations*: generate, accept, reject, stop, the background task, `run_command`,
`cancel`.
*Hard*: four things end a mission (its own course, the mission timeout, `stop`,
a crash); `cancel` reads the single slot twice with an await in between;
timeouts forget a process that is alive; each outcome is two writes.
*Correct when* two runs are never active together, nothing untested is
committed or pushed, a finished run is not revived, a mission and a stop end.

**Evolution proposals** (`proposal_engine.py`, the commands of
`command_dispatcher.py` and of Telegram). *State*: the last 200 proposals, the
cycles, the decisions. *Hard*: titles, ids and numbers come back in every cycle;
the id is a digest of the title unless it is taken. *Correct when* a decision is
kept with the one proposal that was named.

**Risk policy** (`core/cognitive/critic_engine.py`, `_decide` and the two
second opinions of `goal_orchestrator.py`, the gate of `POST /planner/execute`).
*State*: none; a score and a permission from a plan and its approval.
*Hard*: three gates judge the same plan by different rules, and the outcome hangs
on sums against thresholds (50, 80, 95).
*Correct when* what runs without a person is harmless, sensitive plans are
blocked, and an approval never makes things worse.

**Goal orchestration, plan execution, tasks** (`core/goals`, `core/planning`,
`core/task_system`, `core/api/planner_routes.py`, the planner commands of
`core/orchestration/command_dispatcher.py`).
*State*: goals, plans (a record each: status, approval, proposal, goal), tasks
(a status each), the local copy of the plan in every running `execute_plan`.
*Operations*: run a goal, approve, refuse, execute (four ways), execute the next
task or one task, set the status of a task, synchronise, generate tasks.
*Hard*: `execute_plan` keeps a copy of the plan across awaits and writes it over
the stored record; two executions and single-task routes share one task list;
`run_goal` writes goal, tasks and plan one after the other.
*Correct when* a goal is completed only by completed work, nothing runs that
nobody approved, a completed task is not done again, "running" is true, and
every execution ends.

**Goal manager** (`core/goals/goal_manager.py`). *State*: `goals_state.json`, at
most 50 goals, and the active one. *Hard*: the active goal is chosen before the
oldest are dropped; the loop reads the file by a rule of its own. *Correct when*
the loop works for an open goal, the one the server would choose.

**Cognitive loop** (`core/autonomous/run_cognitive_loop.py`,
`core/cognitive`, `core/cognitive_core`). A process of its own, and a route of the
server, that append plans and tasks to files the server rewrites whole.
*Correct when* a goal never has two plans in work, and plans and their tasks
agree: both only while the two processes take turns.

**Self model and governor** (`core/self_model`, `core/runtime/governor.py`).
*State*: one JSON file, merged by the refreshes of two processes (six merges and a
publication each) and by every event the server hears. *Hard*: both use one
`.json.tmp`; either process may die between two accesses. *Correct when* a change
of mode is recorded, counted and published once.

**Watchdog** (`core/agents/automation/watchdog_agent.py`). Thresholds, cool-down,
mute, confirmations, a table of events with rules that find anomalies. *Correct
when* a destructive command is the last thing its chat asked for and is fresh,
and every cascade of crashes is found once.

**Application** (`core/app.py`, `core/pipeline`, `core/events`). The lifespan starts
eight parts and stops them; a request passes the intent cascade, an agent, the
memory and the event bus. *Hard*: five ways out of a conversation, nested
routes, alerts published from within a delivery. *Correct when* nothing is left
running, what was answered is remembered once, the gauge returns to 0 and events
are told in order.

**Agents** (`core/agents`, `core/runtime/agents`, `core/llm_client`). The language
model with retries and streams, the house with a cache, the code agent with
backups, generated agents imported anew at every look. *Hard*: each awaits a
service that may be slow or down while others use the same state.

**Agent factory and projects** (`core/agent_factory`, `core/projects`).
*State*: drafts, generated agents, `projects.json`. *Hard*: a crash in a build
leaves a project "running" that later requests reuse; a thread of the evolution
rewrites the same file. *Correct when* only tested or promoted agents are
registered, and "created" is said only with proof.

**Gateway and sessions** (`core/gateway/gateway.py`, `core/modules/sessions.py`).
WebSocket clients, and sessions in a cache and a file each. *Correct when* a
session whose creation was answered survives failed writes and restarts.

**Personality** (`core/personality`). Settings changed by remarks, and a log of
them. *Correct when* the log leads to what is kept.

## 2. Plan

Each module is a component; where two share a file they share a variable's
meaning, not a variable. The last column says which of their safety properties are
proved for all values of the constants, the types always included.

| # | module | models | proofs |
|---|---|---|---|
| 1 | `EvolutionSupervisor`, `SupervisedEvolution` | supervised evolution and what it promises | all, with the refinement |
| 2 | `RiskPolicy`, `PlanReview` | the policy as operators; one plan before its gates | all |
| 3 | `GoalWorkflow` | objectives, plans, tasks and executions | all |
| 4 | `CognitiveLoop`, `GoalStore` | server and loop on `plans.jsonl`, `tasks.json`, `goals_state.json` | all |
| 5 | `ProposalCycles` | proposals, ids, decisions | all |
| 6 | `SelfModelState` | refreshes, modes, events, governor | `ChangesHandledOnce` |
| 7 | `BuildPipeline` | build, registration, promotion, projects, crashes | both |
| 8 | `Watchdog`, `AnomalyRules` | alerts, confirmations; rules over the events table | both |
| 9 | `HostLifecycle`, `RequestFlow`, `Conversation` | start, stop, requests and what they promise | all, with the refinement |
| 10 | `Gateway` | sockets, sessions, skills | `ToldSessionsLast` |
| 11 | `LLMClient`, `HomeAssistant`, `AgentRuntime` | agents over services | all three |
| 12 | `CodeAgent`, `Personality` | files and backups; settings and log | both |

The modules that put parts side by side, `MCService` and `MCCognition`, are themselves
the subject of theorems: what is proved of a part holds of the whole.

Open: promises of the other parts of 3.5 stated as specifications of their own, as
`SupervisedEvolution` and `Conversation` are.

## 3. The modules

### 3.1 EvolutionSupervisor

One action is one stretch of event-loop code between two awaits.

| variable | code |
|---|---|
| `cycle`, `decisions`, `stopped`, `status`, `proposal` | `evolution_state.json` through `EvolutionStorage` |
| `project` | the status of the run's project in `projects.json` |
| `pc`, `step`, `wait` | where the background task of a run awaits, at which command |
| `slot` | `CodexRunner._process` |
| `stopping`, `stopTarget`, `target` | a `cancel()` of `stop` or of a timeout handler that awaits a process |
| `procs` | the live subprocesses, orphans included |
| `done` | history: commands that returned 0 |

| action | code |
|---|---|
| `Propose`, `Accept`, `Reject` | `generate_proposals`, `accept_proposal`, `reject_proposal` |
| `Stop`, `StopResumes`, `StopRaises` | `stop` before and after the await in `cancel` |
| `PrecheckFails`, `Launch`, `Spawned`, `CommandEnds`, `CommandTimesOut`, `CommandFailed`, `NextCommand`, `Complete`, `TaskEnds`, `GenerateRaises` | `run_accepted_proposal` and `run_command`, one step per await |
| `Timeout`, `TimeoutResumes`, `TimeoutRaises` | `asyncio.wait_for` of `_run_background` and its handler |
| `OrphanExits` | a process nobody awaits ends |
| `Crash`, `CrashInAccept`, `CrashInClose` | the server dies, also between two writes of one operation |

`cancel` is modelled as it is written: it terminates what the slot holds, waits
five seconds for *that* process, and then kills what the slot holds *by then*.
Hence `CancelReturns` and `CancelRaises`.

`SupervisedEvolution` is the promise without tasks, processes or files: one
mission at a time, pushed only what was tested, finished stays finished except
that a completed run may be reported failed. `EvolutionSupervisor` implements it
under the refinement mapping of `Supervised`. `MCEvolutionSupervisor` adds the
symmetry of the runs and one bound.

### 3.2 RiskPolicy and PlanReview

`RiskPolicy` has no state. A plan is the record of what the policy looks at (the
number of its steps, how many are sensitive, made by a code-producing agent, or
tests; whether keywords match). `FullScore`, `Allowed`, `RiskScore` are
`CriticEngine.evaluate_plan`; `OrchestratorScore`, `OrchestratorAllowed`,
`Decide` are the orchestrator's second opinion and `_decide`; `Profile` gives the
templates of `AutonomousPlanner`. `PlanReview` passes one arbitrary plan through
the three gates with approvals and refusals in between.

### 3.3 GoalWorkflow

| variable | code |
|---|---|
| `goals` | the status of each `Goal` |
| `kind` | the template of a plan and whether its text matches the sensitive words |
| `stored` | the record of the plan in `plans.jsonl` |
| `tasks`, `attached`, `queue` | `tasks.json`: statuses, results with a proposal, order |
| `proposals` | plans for which `request_agent_creation` appended a proposal |
| `exec` | the calls of `execute_plan` that await, each with its copy |
| `approval`, `finished` | history: who approved, what was completed |

| action | code |
|---|---|
| `RunGoal` | `GoalOrchestrator.run_goal` to its first await |
| `ExecuteApproved` | `execute_approved_plan` (`/approve`, `POST /planner/execute-approved`) |
| `ExecuteCommand` | the command `/execute` |
| `Work`, `Finish`, `Fail` | `execute_plan` from one notification to the next |
| `ExecuteRoute` | `POST /planner/execute` with `PlanExecutor` |
| `CreatePlan`, `Approve`, `Refuse`, `GenerateTasks`, `SyncAll` | the routes and commands of those names |
| `ExecuteNext`, `ExecuteTask`, `Mark` | the task routes |
| `Crash`, `CrashInRunGoal`, `CrashInTask`, `CrashInFinish` | the server dies while it waits, between the writes of `run_goal`, within a task, between the report of a plan and its goal |

Task statuses are told apart only as far as the code does: `pending`, `todo` and
`active` are one; `running`, `done` and `cancelled`, which neither
`next_active_task` nor `execute_plan` takes for open or finished, are "aside".
All objectives have one title: it is the case in which requests share a goal.

### 3.4 CognitiveLoop, GoalStore, ProposalCycles, SelfModelState

`MCCognition` checks these and `PlanReview` side by side: the variable `turn` is
the part that moves, the others stay as they begin, since they share nothing.

*CognitiveLoop*: `plans` is `plans.jsonl`, `file` is `tasks.json`, `mem` the tasks each
process has in memory. `Evaluate`, `LookForPlan`, `CreateTask`, `LinkTasks`,
`SavePlan` are a cycle from one file access to the next; `BeginUpdate`,
`EndUpdate` the server's rewrite of the plans; `StartNext`, `CloseTask`, `DeleteTask`,
`ClearDone`, `CreateGoalTask` its task routes; `Restart` ends a process. `mishaps`
records what happened that no document says anything about: two processes
inside a cycle at once, tasks saved over unknown ones, a cycle that died
half-way, a closed plan approved again.

*GoalStore*: `CreateGoal`, `EnsureCoreGoals`, `GetActiveGoal`, `UpdateStatus`,
`UpdateProgress` are the operations of `GoalManager`, each a read and a replacement
of the whole file; `LoopGoal` is how the other process reads it.

*ProposalCycles*: `Generate` makes the cycle of three proposals of what `observe`
finds, with ids as `save_proposals` gives them; `Accept` and `Reject` name one
among the latest and write its mark and the decision, which a crash may separate.

*SelfModelState*: one action is one access to the JSON file (`Load`, `WriteTmp`,
`Replace`, `ReplaceFails`, `ReadSave`), with what is computed before it
(`ComputeStep`, by the step of the refresh: trend, temporal state, long-term
memory, capabilities, confidence, evaluation). Readings are percentages; severity,
pressure, mode, cause, trend, stability and the scores are the code's rules over
them. `HandleEvent` and `NoteIntent` are what the server's event subscriber and
router merge into the same file; `Emit` is the governor's subscription.

### 3.5 The service

`MCService` does the same for the parts of the server process, with `focus`.

| module | state | actions |
|---|---|---|
| `Watchdog` | thresholds, mute, last alerts, confirmations | the loop from await to await, the bot's commands, `ConfirmRestart` ends the process |
| `AnomalyRules` | the events table | `LogEvent`, `ClearEvents`, `Analyse` (four rules and the health score) |
| `HostLifecycle` | what every part is | `StartPart` in order, `GatewayEnds`, `Shutdown`, `StopPart` |
| `RequestFlow` | requests, memory, gauge, events | each route from await to await, with `PublishResult` for the events, their alerts and the repair reports, each of which may fail |
| `BuildPipeline` | `projects.json`, drafts, generated agents | one action per step of a build and per load and save, the evolution thread, `Promote`, `Crash` |
| `Gateway` | sockets, session cache and files | connection, authentication, chat, skills, sessions, `Restart` |
| `CodeAgent` | files, backups, a clock by the second | the requests of `CodeAgent` and `CodeAuditAgent`, the scheduled jobs |
| `Personality` | settings, log | `Remark` (one transaction per setting, any may fail), `Reset` (two settings, each of which may fail on its own) |
| `HomeAssistant` | the house, the cache | `BeginReload`/`Reload`, `Ask`, `Loaded`, `Posted`, changes of the house |
| `LLMClient` | calls, generations of the service | attempts, timeouts, refusals, tokens, the fallback of a stream |
| `AgentRuntime` | files, registry, counters | the intents that come to a generated agent, changes of files |

`Conversation` is what `RequestFlow` promises, without routes, agents or a gauge: one
outcome for good, an answer remembered with it once or known to be lost, and no
announced agent without its response, unless the request fails. `RequestFlow` implements it under
the refinement mapping of `Conversing`, which reads the outcomes, the order of the memory
and the two events off the state.

A text is told apart by what the code finds in it: in `RequestFlow` the intent of
the language processing and the keyword lists it matches, in `HomeAssistant` the
domain, the plural and the score of every entity.

## 4. The runs

| run | question | bounds and why they are enough |
|---|---|---|
| `evolution_safety` | every safety property of a mission and the refinement, over stops, timeouts and a crash, within an acceptance included | two runs, since every hazard is one mission against the next; one crash: a second adds nothing to files that already disagree; all checked commands recorded; `RejectionsAreFew`: a rejection only adds a decision, so it is followed beside one mission |
| `evolution_liveness` | missions and stops end | two runs, so that a stop waits for one mission while the other starts; no symmetry |
| `evolution_orphan` | a subprocess outlives its mission (finding) | as above |
| `goal_flow` | one plan, two executions at a time, refusals, single tasks | three templates, which include every kind of step |
| `goal_manual` | statuses set by hand under an execution, which still has to report | "completed" and "aside", the ones that move a task past the execution; three templates; under fairness |
| `goal_crash` | two requests for one objective share its goal and leave it completed; a crash and restart | two plans, two executions, two goals, one crash in any handler |
| `goal_refusal` | a refusal during an execution (finding) | the calls the counterexample needs |
| `cognition` | the parts of 3.4, each on its own | see below |
| `goal_task` | two tasks for one goal (finding) | as `cognition` |
| `service` | the parts of 3.5, each on its own | see below |
| `requests` | the routes implement `Conversation` | two requests that overlap; every outcome of every await |
| `available` | an unproved agent called available (finding) | as `service` |

`cognition`. Plans: at most 7 steps, a sensitive step scores 50 and a code step 15,
so every threshold is passed on both sides. Cycles: two plans, four tasks, a
window of two plans for 50: no plan leaves it in TLC (with a window of one
`OnePlanInWork` would say nothing), and `OnePlanInWorkCorrect` covers every window and
any number of plans; `OneMishap` keeps one kind of trouble at a time, and not the overlaps the properties exclude. Goals:
three kept of five made, so that two are dropped. Proposals: seven kept of nine.
Self model: an overloaded and a broken machine, three refreshes, two
events, one death; lists of length 1 or 2 for 5, 8, 10 and 20, so that each is
trimmed; `RacesAreShort` follows one pair of overlapping refreshes while the
server is in the first half of its own, since the property says nothing after
an overlap. The edges of the rules themselves (70, 75, 80, 85, 90) are compared
for all combinations by the assumption `ModeIsTotal`.

`service`. Two of each: chats (one allowed), requests, builds of one name with two
signatures, clients (one connection allowed), jobs, entities, calls, runs. Three
session ids of which two share a file. One crash of a build and one update by
the evolution thread between its steps. Two retries, as the client has, and two
tokens, so that a stream can break after the first. Three files under the root
of which two share the name of their backups, one backup kept for 10, three
readings of the clock. Four entries of the events table, so that a cascade of
three has one before or behind it.

Every property of a passing run has a mutant in `PROJECT.json`: a plausible bug
in a modelled definition under which TLC finds the property violated.

Deadlock is not checked: the requests a model allows are used up, and the system
waits for the next one.

### 4.1 Fairness

*EvolutionSupervisor*: weak fairness of each background task, of a pending stop,
and of the end of processes that a pending `cancel` terminated. The event loop
resumes whatever is ready, and `run_command` gives every command a timeout after
which it ends. Nothing is assumed of users, of the mission timeout, of other
orphans, or of crashes. *GoalWorkflow*: weak fairness of each execution, since the
notification it awaits ends: the Telegram client has timeouts and what it raises
is caught. Nothing is assumed of requests. The other modules state safety only.

### 4.2 What disagrees with the documentation

* `evolution_orphan`: "Une seule mission d'évolution peut être active à la fois".
  The mission timeout makes `run_command` forget its process before the handler's
  `cancel()` looks for it; Codex goes on in the workspace beside the next mission.
* `goal_refusal`: a plan that is refused while its execution awaits a notification
  is written back approved when the execution ends, and `/execute` starts it again.
* `goal_task`: "Empêche les doublons actifs pour un même goal_id" looks for statuses
  that the tasks it makes do not have.
* `available`: "technical proof" before an agent is called available; a project left
  running by a crash is taken for an agent that exists.

Seen while modelling, without a run of its own:

* *Plans and goals*: `POST /planner/sync-tasks` makes refused and blocked plans with
  open tasks pending again. After a crash between the tasks and the plan of
  `run_goal`, execute-next makes up a record that is approved, whereas
  `documentations/goal_planner_agent_creator_flow.md:16` asks for an approval; without
  a crash `SomeoneApproved` holds.
* *Self model*: the first event's list is read again before it is written, and so is
  written empty; the branches for service and repair errors are never reached
  because nothing subscribes the handler to them; intents are noted twice, by the
  router and by their event; the result of `_compute_health` is always overwritten.
  The governor of the server never learns of the survival mode the loop records.
* *Gateway*: "Envoie des events 'agent.token' par petits blocs" (`_chat_send`); the
  router the gateway is given has no `chat_stream`, so every message ends in
  `agent.error`.
* *Requests*: a command for the state of the tasks raises a KeyError (`pending`); the
  apology of an unreachable language model is stored as an answer by
  `/input/stream`; a failed code audit is announced as a success; `TODO_ACTION` is
  produced by nothing, so the todo agent is out of reach; "lance la prochaine tâche"
  is taken by the earlier test for "prochaine tâche".
* *Agents*: a stream has no read timeout, and the global one its comment
  (`llm_agent.py:225`) refers to does not exist; an empty live reading overwrites a
  house cache that a refresh has filled meanwhile; a plural with no entity of its
  domain commands all entities; one generated file that raises on import makes
  every reload raise; runs handed over by the conversation are not counted; a
  dynamic agent that fails is reported as not found; promotion by hand asks for
  no tests (`docs/architecture/responsibilities.md:40`).
* *Code agent*: the weekly cleanup deletes `generateur.py`, which the job for the
  README runs; drafts of the workspace have backups that no rollback accepts; an
  improvement without a language model is reported as unnecessary.
* *Watchdog*: no alert is sent in the first 300 s after boot.
* *Sessions*: `append_msg`, `delete` and the pruning that "never leaves an orphan"
  have no caller; a creation whose write fails stays in the cache.

## 5. What is proved

For every value of the constants, from the named assumptions of the modules. They
say what the code has: numbers of seconds and limits are natural numbers, periods
and the lengths of lists that are trimmed are not zero (of proposals at least three
are kept), the fixed titles and steps are sequences, and markers such as `NoGoal` or
`"free"` name no goal, build or run. The watchdog's clock lasts at least to the end of
its first cool-down, and some machine to be observed exists. The requests
(`InputsAssumption`) and the executions (`RunsAssumption`) of one history are finitely
many, as are those of a server that was started at some time; without that the gauge
and the counters would not be numbers. Bounds of a model (`Max...`) are any natural
numbers (of versions and seconds of the code agent at least 1).

**`EvolutionSupervisor_proofs`**: type correctness; `OneActiveRun`;
`SlotIsTheCommand`; `PublishedWorkIsTested`; `CompletedRunIsPushed`;
`EveryRunWasAccepted`; the action properties `FinishedRunStaysFinished`,
`OnlyStopFreesALostRun`, `StopLeavesNoActiveRun`; and that the worker implements
`SupervisedEvolution`. `OneActiveRun` is not inductive: a task that runs on after
its run was closed would write "running" again. The invariant `RunInv` therefore
also states `TaskMatchesRun`, which ties every await of a task to the status of
its run; with it at most one task is at a command, which makes the slot
argument (`SlotIsTheCommand`) inductive, and from the slot follows what the
return codes, read from the slot, say about the commands of the mission: by
induction on `step`, all earlier checked commands are in `done`. That is what
`PublishedWorkIsTested` needs for processes that outlive their mission, and it
gives the guard of `Finish` and of `Push` in the refinement, whose steps are then
matched action by action. The implementation theorem assumes that `Audited`
covers every step, because the mapping reads the history.

**`Goals_proofs`**. Of `PlanReview`: type correctness and its four properties, for plans of
any length. The lemmas bound the score of the critic, show that an approval lowers
it, and give the decision as a function of the score; the invariant says that a
verdict is the decision of the policy on a plan that does not change. Of `GoalStore`:
its types, and `LoopFollowsServer`: in a file of goals in the order of their ids
(`Goals`) the goal selected is open, and stays the one selected when only its status
moves from pending to active (`SelectedStays`); `StoreInv` is kept by a goal added, hence
by `ensure_core_goals`.

**`GoalWorkflow_proofs`**: type correctness and the five invariants of the module, and
the action property `CompletedTaskIsKept`. The invariant is a conjunction of parts
that need each other: `Consistent` (who has tasks has a record and a template, and
an execution's copy has the goal of the record), `ProposalsExist` (whoever says
that there is a proposal is right), `PassedIsFinished` (the tasks an execution has
behind it and counts as done are done, whoever else changes them), `NoneInProgress`
(no task is left in progress between two steps, so a synchronisation never shows
a plan as running). `SomeoneApproved`, `RunningIsReal` and `FinishedPlanHasGoal` hold until
a crash and say so (4.2): `Recorded0` says what a crash breaks, that what has
tasks has a record.

**`Service_proofs`**. `NothingLeftRunning`: every part that runs was switched on by the
settings that will switch it off, and stops in the order of the code. `ToldSessionsLast`:
`ToldIsPast`, that a session a client was told of has a file of its own stem.
`OutageKeepsCache` needs that only a started agent is asked. `OneAnswer`: `ReadSoFar`, that
what a caller has read is a beginning of the stream it reads now, so that late
answers and fallbacks cannot mix. `RunsAreCounted`: `Accounted`, that for each object the
executions in flight and those counted are those begun; objects that were
replaced keep their own books. `RegisteredIsTested` and `CreatedHasProof`: `Worked`, what each
step of a build knows of the draft it holds. `LastReplacedIsRestorable`: `BackupsArePast`,
that while the clock goes forward no backup is from the future, so a new one is
never the first to be rotated away. The types of the parts are proved from the same
invariants, to which each adds what its own bookkeeping needs.

The server as a whole: `SideBySide` shows that a step of `MCService` is a step of one part
and a stutter of the others, so `Spec` implies the specification of every part
(`ServiceIsItsParts`). From it follow `TypeOK` of the whole (`ServiceTypeCorrect`) and all
that is proved of the parts (`ServiceCorrect`).

**`Requests_proofs`**. `ConfirmedByRequest`: `PendingIsLive`, that a confirmation kept is for
the last, not cancelled, request of its chat. For `RequestFlow` one lemma per action
shows that it is a `FlowStep` of its request: what it moves, where the request then
is, what it counts, remembers and tells; `MemoryOfAnswers`, `GaugeSettles` and
`ToldInOrder` then need one argument each, over sets and sequences, not one per
action. The same steps are matched with those of `Conversation` (`ConversationCorrect`):
`Placed`, that a request has an outcome just if its route is past its answer, and
`Selecting`, that while it has none an agent was announced just if one is at work, give the
guards of the abstract steps.

`HistoryExplainsState`: `Books` is kept by one row written, hence by any number of them; it
says besides that nothing logged leaves a section empty, so a table that was changed
is never filled from the file again. `CascadesPartition`: from each position on, the
walk finds all cascades that begin there (`Covered`), by induction from the end of the
list. The types of the watchdog, the requests, the settings and the anomaly rules are
proved here too; of the requests' they say, with the gauge settled, that it never falls
below 0.

**`Cognition_proofs`**. `OnlyTheNamedIsMarked`: a stored proposal has an id of its own
(`OwnId`, `IdsAreUnique`) and what it says was decided (`Decided`); that ids stay unique
when a title comes back is what the code's draw of a fresh id is for. `OnePlanInWork`:
`PlanInv`, what a process inside a cycle knows of the plans, and that nobody else is
inside one. `TasksAndPlansAgree`: `LinkInv`, of which `Owns` (a task a plan lists has the
plan's id and action), `Agree` (the processes' copies of the tasks are the file's,
as far as they know it) and `InHand` (what a cycle has in hand between two file
accesses) are inductive only together. `CycleTypes` is what the types of the loop need
besides these. As for the server, `OneAtATime` makes the whole of `MCCognition` each of its
parts (`CognitionIsItsParts`), from which follow `TypesOK` (`CognitionTypeCorrect`) and all
eight invariants of the parts (`CognitionCorrect`).

**`SelfModelState_proofs`**. `ChangesHandledOnce`: while refreshes do not overlap, the file
in the making follows the one saved by one step of the refresh (`Follows`), one
process is at work, and the changes not yet counted are no more than the deaths
so far, one more within the step that counts them. From this follows that the
entry the history drops was counted. The theorem assumes `MaxKills < HistMax`: each
death may leave one change uncounted, and the history keeps the last 20, so with
more deaths between two complete refreshes the statement is false. The types of the
file, of the temporary file and of what a process holds (`SelfModelTypeCorrect`) need no
such assumption: every patch fits the fields it names (`PatchedFits`), hence what is
merged does, whoever read or replaced it; that joined lists are shortened and without
repetition is an induction along the list (`JoinedIs`), and modes and severities are
followed through all readings (`ModeIs`, `SeverityIs`).

**`Lists_proofs`**: induction over sets of numbers, from the well-foundedness of `<`, and
the least and the greatest number of a set, for what the modules above work through
one entry after the other (section 6).

## 6. What is only model-checked

* Liveness (`MissionsEnd`, `StopReturns`, `ExecutionsEnd`): fairness is out of the
  prover's reach.
* The findings: TLC shows their counterexamples.
* `ApprovedTemplates` (the policy blocks no approved template): a finite table, which TLC
  evaluates in full. `ModeIsTotal`, the table of the edges of the rules of
  `SelfModelState`, is evaluated so as well; that every reading has a mode is proved.

Induction over data: the library's theorems of induction take a predicate, which no
installed prover can instantiate. `Lists_proofs` has its own, `Induction`, over sets of
numbers, from the well-foundedness of `<`. To reason about them, what the code does
entry by entry is written as a recursive function where the standard modules'
`SelectSeq` and folds cannot be expanded by the provers.

The converse also occurs: `SlotIsTheCommand`, `OnlyStopFreesALostRun`,
`FinishedRunStaysFinished`, `CompletedRunIsPushed`, `ApprovalRelaxes` and `MemoryOfAnswers`
are proved for all values, and no run repeats them.

## 7. What is not modelled, and what that means

* *Evolution*: `execute=False` (tests only), the dry-run configuration, the
  contents of proposals and prompts, the notification texts. One `stop` awaits at
  a time.
* *Goal workflow*: deletion and clearing of tasks (they are in `CognitiveLoop`), errors
  when a file is saved, `cleanup_duplicates`, objectives with different titles (they
  do not meet), the history files of the critic and of plans. The score of the
  cognitive loop's own critic is left out: it decides nothing.
* *Two processes*: what a lost update of `plans.jsonl` or `tasks.json` leads to is in
  the state space of `CognitiveLoop`, but the properties speak of histories without
  one; of `projects.json` the truncation and the lost updates are modelled and the
  properties hold all the same.
* *Build*: a verification that fails leaves the agent's file registered, as in the
  code; existing agents are found by name or signature, as in the code; which of
  the words of a request make its name is an input.
* *Watchdog*: functions that nothing calls; the commands that only read.
* *Gateway*: whether a token is set is chosen at every connection.
* *Self model*: an event that arrives before the file exists would first refresh;
  the description of the repository and the texts built of the state are left out.
* *Requests*: what the router raises before the `try` of `text_input` (`app.py:770`; the
  gauge would keep the request) is left out: it reads one text.
  When the speech of an answer cannot be made, the request ends with the outcome
  `text_input` gave it, whatever the client is told.
* *Language*: prompts, wording, entity matching by words, and the language model
  itself are inputs: any answer, in any time.
* Components with the status `not_modelled` in `PROJECT.json`, each with its
  reason.
