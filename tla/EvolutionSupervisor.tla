------------------------ MODULE EvolutionSupervisor ------------------------
(***************************************************************************)
(* The supervised-evolution worker of Neron: core/evolution/supervisor.py  *)
(* with the parts of EvolutionStorage, ProjectManager and CodexRunner it   *)
(* drives.  A human accepts a proposal; a background asyncio task then     *)
(* runs Codex, the tests, and git commit/push as subprocesses.             *)
(*                                                                         *)
(* One action is one stretch of event-loop code between two awaits.  What  *)
(* interleaves: the background task of every mission, the end of every     *)
(* subprocess, the mission timeout, a user's stop (which itself awaits the *)
(* end of the current subprocess), accept/reject/propose requests, and a   *)
(* crash of the server, which also kills the subprocesses (the systemd     *)
(* unit leaves KillMode at its default) and keeps only the JSON files.     *)
(***************************************************************************)
EXTENDS Naturals, Sequences, FiniteSets

CONSTANTS
  Runs,       \* run identifiers; each is used by at most one acceptance
  Indices,    \* display indices of the proposals of one cycle
  Audited,    \* commands whose success the history variable records
  MaxCycles,  \* bound: proposal cycles told apart
  MaxRejects, \* bound: proposals rejected
  MaxCrashes, \* bound: crashes of the server process
  None        \* Python's None

ASSUME RunsAssumption == None \notin (Runs \X Nat)
ASSUME BoundsAssumption ==
  MaxCycles \in Nat /\ MaxRejects \in Nat /\ MaxCrashes \in Nat

VARIABLES
  (* evolution_state.json and projects.json *)
  cycle,      \* number of the latest proposal cycle, 0 when there is none
  decisions,  \* recorded human decisions; the copy of the last one that
              \* mark_proposal leaves on the proposal is read by nothing
  stopped,    \* the "stopped" flag
  status,     \* status of every run, "none" when the run does not exist
  proposal,   \* proposal a run was created from
  project,    \* status of the project of a run, "none" when absent
  (* memory of the server process *)
  pc,         \* where the background task of a run awaits, "none": no task
  step,       \* index in Pipeline of the command the task is at
  wait,       \* what the awaited command has come to
  target,     \* process whose end a cancel() call awaits, None if none
  slot,       \* CodexRunner._process, None or <<run, command index>>
  stopping,   \* "idle", "awaiting" the end of stopTarget, "raised" when the
              \* last stop() ended with an exception
  stopTarget,
  (* operating system *)
  procs,      \* live subprocesses
  done,       \* audited commands that ended with return code 0 (history)
  crashes     \* crashes so far

requestVars == <<cycle, decisions, stopped, proposal>>
storageVars == <<requestVars, status, project>>
taskVars    == <<pc, step, wait, target>>
stopVars    == <<stopping, stopTarget>>
osVars      == <<procs, done, crashes>>
vars == <<storageVars, taskVars, slot, stopVars, osVars>>

(* The commands a mission runs, in order, by run_codex: 1 codex exec       *)
(* --help, 2 codex exec; by run_tests: 3 compileall, 4 tracked agents and  *)
(* workflow, 5 parallel workflow, 6 pytest, 7 git diff --check; by         *)
(* commit_and_push: 8 git status, 9 git add, 10 git commit, 11 git branch, *)
(* 12 git rev-parse, 13 git push.                                          *)
Steps      == 1..13
CodexStep  == 2
Tests      == 3..7
LastTest   == 7
CommitStep == 10
LastStep   == 13

(* Mutant: the result of git diff --check is not looked at.                *)
RequiredButDiffCheck == Steps \ {LastTest, 8, 11, 12}

(* The result of these commands is checked; the mission fails on it.  The  *)
(* results of git status, git branch and git rev-parse are not.            *)
Required == Steps \ {8, 11, 12}

Proposals == (1..MaxCycles) \X Indices
Procs     == Runs \X Steps
Recorded  == Runs \X (Steps \cap Audited)

ActiveStatus   == {"pending", "running"}
TerminalStatus == {"completed", "failed", "cancelled"}

Active(r) == status[r] \in ActiveStatus
ActiveRuns == {r \in Runs : Active(r)}

Fresh(r) == status[r] = "none" /\ project[r] = "none"

Alive(p) == p # None /\ p \in procs

(* A cancel() that terminated p is over when p has ended.  After five      *)
(* seconds it kills, instead of p, whatever is in the slot by then: with   *)
(* no effect on p when that is another process, and with an exception when *)
(* the slot is empty or its process has just ended.                        *)
CancelReturns(p) == ~Alive(p) \/ slot \notin {p, None}
CancelRaises(p)  == Alive(p) /\ slot # p /\ ~Alive(slot)

-----------------------------------------------------------------------------
Init ==
  /\ cycle = 0
  /\ decisions = {}
  /\ stopped = FALSE
  /\ status = [r \in Runs |-> "none"]
  /\ proposal = [r \in Runs |-> None]
  /\ project = [r \in Runs |-> "none"]
  /\ pc = [r \in Runs |-> "none"]
  /\ step = [r \in Runs |-> 1]
  /\ wait = [r \in Runs |-> "spawning"]
  /\ target = [r \in Runs |-> None]
  /\ slot = None
  /\ stopping = "idle"
  /\ stopTarget = None
  /\ procs = {}
  /\ done = {}
  /\ crashes = 0

(* The two writes that close a run; its current status is not looked at.   *)
CloseRun(r, s) ==
  /\ status' = [status EXCEPT ![r] = s]
  /\ project' = [project EXCEPT ![r] = s]

FailRun(r) == CloseRun(r, "failed")

-----------------------------------------------------------------------------
(* Requests of a user. *)

(* generate_proposals: a new cycle replaces the proposals a user can name; *)
(* the cycles after the last one the bound allows share its number.        *)
GenerateProposals == cycle' = IF cycle < MaxCycles THEN cycle + 1 ELSE cycle

Propose ==
  /\ GenerateProposals
  /\ UNCHANGED <<decisions, stopped, status, proposal, project, taskVars,
                 slot, stopVars, osVars>>

(* What accept_proposal writes, and the task it starts.                    *)
CreateRun(r, i) ==
  /\ cycle > 0
  /\ Fresh(r)
  /\ decisions' = decisions \cup {<< <<cycle, i>>, "accepted" >>}
  /\ project' = [project EXCEPT ![r] = "running"]
  /\ status' = [status EXCEPT ![r] = "running"]
  /\ proposal' = [proposal EXCEPT ![r] = <<cycle, i>>]
  /\ pc' = [pc EXCEPT ![r] = "ready"]
  /\ UNCHANGED <<cycle, stopped, step, wait, target, slot, stopVars, osVars>>

(* accept_proposal: the body of the lock holds no await, so the test for   *)
(* an active run and the creation of the new one are one step.             *)
Accept(r, i) == ActiveRuns = {} /\ CreateRun(r, i)

(* reject_proposal: neither the status of the proposal nor a run that      *)
(* executes it is looked at.                                               *)
Reject(i) ==
  /\ cycle > 0
  /\ Cardinality({d \in decisions : d[2] = "rejected"}) < MaxRejects
  /\ decisions' = decisions \cup {<< <<cycle, i>>, "rejected" >>}
  /\ UNCHANGED <<cycle, stopped, status, proposal, project, taskVars, slot,
                 stopVars, osVars>>

(* Every task is gone, with what it knew.                                  *)
DropTasks ==
  /\ pc' = [r \in Runs |-> "none"]
  /\ step' = [r \in Runs |-> 1]
  /\ wait' = [r \in Runs |-> "spawning"]
  /\ target' = [r \in Runs |-> None]

(* A cancelled command leaves nothing in the slot.                         *)
EmptySlot == slot' = IF \E r \in Runs : pc[r] = "command" THEN None ELSE slot

(* Mutant: the tasks are left running.                                     *)
StopNowKeepsTasks ==
  /\ UNCHANGED <<taskVars, slot>>
  /\ \/ /\ ActiveRuns = {}
        /\ UNCHANGED <<status, project>>
     \/ \E r \in ActiveRuns : CloseRun(r, "cancelled")

(* Mutant: the latest run is marked, active or not.                        *)
StopNowMarksAny ==
  /\ DropTasks
  /\ EmptySlot
  /\ \/ UNCHANGED <<status, project>>
     \/ \E r \in Runs : status[r] # "none" /\ CloseRun(r, "cancelled")

(* Mutant: the run is looked up before the await.                          *)
StopNowStale ==
  /\ DropTasks
  /\ EmptySlot
  /\ IF stopping = "awaiting" /\ Active(stopTarget[1])
     THEN CloseRun(stopTarget[1], "cancelled")
     ELSE UNCHANGED <<status, project>>

(* The second half of stop(): cancel every task, then mark the one run     *)
(* that active_run() returns now.  A cancelled task resumes with           *)
(* CancelledError and ends; that takes a few turns of the event loop in    *)
(* which it does nothing else, so it is part of the step.                  *)
StopNow ==
  /\ DropTasks
  /\ EmptySlot
  /\ \/ /\ ActiveRuns = {}
        /\ UNCHANGED <<status, project>>
     \/ \E r \in ActiveRuns : CloseRun(r, "cancelled")

(* stop(); the model has at most one call of it waiting at a time.         *)
Stop ==
  /\ stopping # "awaiting"
  /\ stopped' = TRUE
  /\ \/ /\ Alive(slot)
        /\ stopping' = "awaiting"
        /\ stopTarget' = slot
        /\ UNCHANGED <<taskVars, slot, status, project>>
     \/ /\ ~Alive(slot)
        /\ StopNow
        /\ stopping' = "idle"
        /\ UNCHANGED stopTarget
  /\ UNCHANGED <<cycle, decisions, proposal, osVars>>

(* Mutant: stop waits until no subprocess is left.                         *)
StopResumesAfterAll ==
  /\ stopping = "awaiting"
  /\ procs = {}
  /\ StopNow
  /\ stopping' = "idle"
  /\ stopTarget' = None
  /\ UNCHANGED <<requestVars, osVars>>

StopResumes ==
  /\ stopping = "awaiting"
  /\ CancelReturns(stopTarget)
  /\ StopNow
  /\ stopping' = "idle"
  /\ stopTarget' = None
  /\ UNCHANGED <<requestVars, osVars>>

StopRaises ==
  /\ stopping = "awaiting"
  /\ CancelRaises(stopTarget)
  /\ stopping' = "raised"
  /\ stopTarget' = None
  /\ UNCHANGED <<storageVars, taskVars, slot, osVars>>

-----------------------------------------------------------------------------
(* The background task of a run: _run_background, run_accepted_proposal.   *)

(* The task goes on to another await; where it was in the pipeline is kept *)
(* only while it runs commands.                                            *)
Await(r, where) ==
  /\ pc' = [pc EXCEPT ![r] = where]
  /\ step' = [step EXCEPT ![r] = 1]
  /\ wait' = [wait EXCEPT ![r] = "spawning"]

(* No prompt, or no usable Codex binary.                                   *)
PrecheckFails(r) ==
  /\ pc[r] = "ready"
  /\ FailRun(r)
  /\ Await(r, "notify_precheck")
  /\ UNCHANGED <<requestVars, target, slot, stopVars, osVars>>

Launch(r) ==
  /\ pc[r] = "ready"
  /\ status' = [status EXCEPT ![r] = "running"]
  /\ project' = [project EXCEPT ![r] = "running"]
  /\ Await(r, "command")
  /\ UNCHANGED <<requestVars, target, slot, stopVars, osVars>>

(* create_subprocess_exec returns, and only now is the process in the      *)
(* slot; or it raises, and the command has failed.                         *)
Spawned(r) ==
  /\ pc[r] = "command"
  /\ wait[r] = "spawning"
  /\ \/ /\ wait' = [wait EXCEPT ![r] = "alive"]
        /\ procs' = procs \cup {<<r, step[r]>>}
        /\ slot' = <<r, step[r]>>
     \/ /\ wait' = [wait EXCEPT ![r] = "failed"]
        /\ UNCHANGED <<procs, slot>>
  /\ UNCHANGED <<storageVars, pc, step, target, stopVars, done, crashes>>

(* The awaited process ends, by itself or terminated by a cancel().        *)
CommandEnds(r) ==
  /\ pc[r] = "command"
  /\ wait[r] = "alive"
  /\ <<r, step[r]>> \in procs
  /\ procs' = procs \ {<<r, step[r]>>}
  /\ \/ /\ wait' = [wait EXCEPT ![r] = "ok"]
        /\ done' = done \cup ({<<r, step[r]>>} \cap Recorded)
     \/ /\ wait' = [wait EXCEPT ![r] = "failed"]
        /\ UNCHANGED done
  /\ UNCHANGED <<storageVars, pc, step, target, slot, stopVars, crashes>>

(* The timeout of run_command: it terminates the process in the slot.      *)
CommandTimesOut(r) ==
  /\ pc[r] = "command"
  /\ wait[r] = "alive"
  /\ procs' = procs \ {slot}
  /\ wait' = [wait EXCEPT ![r] = "failed"]
  /\ UNCHANGED <<storageVars, pc, step, target, slot, stopVars, done, crashes>>

(* The return code is read from the slot.                                  *)
Succeeded(r) == wait[r] = "ok" /\ slot = <<r, step[r]>>
Ended(r) == pc[r] = "command" /\ wait[r] \in {"ok", "failed"}

(* A checked command that did not succeed fails the mission.               *)
CommandFailed(r) ==
  /\ Ended(r) /\ ~Succeeded(r) /\ step[r] \in Required
  /\ slot' = None
  /\ FailRun(r)
  /\ Await(r, "notify_failed")
  /\ UNCHANGED <<requestVars, target, stopVars, osVars>>

(* Mutant: the index runs past the last command.                           *)
NextCommandPastEnd(r) ==
  /\ Ended(r)
  /\ Succeeded(r) \/ step[r] \notin Required
  /\ slot' = None
  /\ step' = [step EXCEPT ![r] = @ + 1]
  /\ wait' = [wait EXCEPT ![r] = "spawning"]
  /\ UNCHANGED <<status, project, requestVars, pc, target, stopVars, osVars>>

(* On to the next command; run_command forgets its process on the way out. *)
(* Before the tests the run is written "running"; so is the project before *)
(* the tests, after them and before the commit.                            *)
NextCommand(r) ==
  /\ Ended(r)
  /\ Succeeded(r) \/ step[r] \notin Required
  /\ step[r] < LastStep
  /\ slot' = None
  /\ step' = [step EXCEPT ![r] = @ + 1]
  /\ wait' = [wait EXCEPT ![r] = "spawning"]
  /\ status' = [status EXCEPT ![r] = IF step[r] = CodexStep THEN "running" ELSE @]
  /\ project' = [project EXCEPT ![r] =
                   IF step[r] \in {CodexStep, LastTest} THEN "running" ELSE @]
  /\ UNCHANGED <<requestVars, pc, target, stopVars, osVars>>

MayComplete(r) == Ended(r) /\ Succeeded(r) /\ step[r] = LastStep

Complete(r) ==
  /\ MayComplete(r)
  /\ slot' = None
  /\ CloseRun(r, "completed")
  /\ Await(r, "notify_completed")
  /\ UNCHANGED <<requestVars, target, stopVars, osVars>>

(* The last notification returns and generate_proposals succeeds; after a  *)
(* failed precheck nothing is generated.                                   *)
TaskEnds(r) ==
  /\ \/ /\ pc[r] \in {"notify_completed", "notify_failed", "notify_error",
                      "notify_timeout"}
        /\ GenerateProposals
     \/ /\ pc[r] = "notify_precheck"
        /\ UNCHANGED cycle
  /\ Await(r, "none")
  /\ UNCHANGED <<decisions, stopped, status, proposal, project, target, slot,
                 stopVars, osVars>>

(* generate_proposals raises: inside run_accepted_proposal the handler of  *)
(* _run_background fails the run, completed or not; inside a handler the   *)
(* task ends with a logged exception.                                      *)
GenerateRaises(r) ==
  /\ \/ /\ pc[r] \in {"notify_completed", "notify_failed"}
        /\ FailRun(r)
        /\ Await(r, "notify_error")
     \/ /\ pc[r] \in {"notify_error", "notify_timeout"}
        /\ Await(r, "none")
        /\ UNCHANGED <<status, project>>
  /\ UNCHANGED <<requestVars, target, slot, stopVars, osVars>>

(* What wait_for covers: all awaits of run_accepted_proposal.              *)
Inner == {"command", "notify_completed", "notify_failed", "notify_precheck"}

(* Mutant: a mission that timed out is not closed.                         *)
TimeoutLeavesRun(r) ==
  /\ pc[r] \in Inner
  /\ slot' = IF pc[r] = "command" THEN None ELSE slot
  /\ Await(r, "none")
  /\ UNCHANGED <<requestVars, status, project, target, stopVars, osVars>>

(* The mission timeout.  A pending command is abandoned: its process stays *)
(* alive and leaves the slot, so the cancel() that follows finds in the    *)
(* slot None, or the process of another mission, which it terminates.      *)
Timeout(r) ==
  /\ pc[r] \in Inner
  /\ slot' = IF pc[r] = "command" THEN None ELSE slot
  /\ \/ /\ Alive(slot')
        /\ target' = [target EXCEPT ![r] = slot']
        /\ Await(r, "timeout_cancel")
        /\ UNCHANGED <<status, project>>
     \/ /\ ~Alive(slot')
        /\ FailRun(r)
        /\ Await(r, "notify_timeout")
        /\ UNCHANGED target
  /\ UNCHANGED <<requestVars, stopVars, osVars>>

TimeoutResumes(r) ==
  /\ pc[r] = "timeout_cancel"
  /\ CancelReturns(target[r])
  /\ target' = [target EXCEPT ![r] = None]
  /\ FailRun(r)
  /\ Await(r, "notify_timeout")
  /\ UNCHANGED <<requestVars, slot, stopVars, osVars>>

(* The exception leaves the handler; the task ends and closes nothing.     *)
TimeoutRaises(r) ==
  /\ pc[r] = "timeout_cancel"
  /\ CancelRaises(target[r])
  /\ target' = [target EXCEPT ![r] = None]
  /\ Await(r, "none")
  /\ UNCHANGED <<storageVars, slot, stopVars, osVars>>

-----------------------------------------------------------------------------
(* The environment. *)

(* A process nothing awaits any more ends by itself, or never.             *)
OrphanExits(p) ==
  /\ p \in procs
  /\ ~(pc[p[1]] = "command" /\ step[p[1]] = p[2])
  /\ procs' = procs \ {p}
  /\ \/ done' = done \cup ({p} \cap Recorded)
     \/ UNCHANGED done
  /\ UNCHANGED <<storageVars, taskVars, slot, stopVars, crashes>>

(* The server dies and restarts: tasks, slot and subprocesses are gone.    *)
LoseMemory ==
  /\ crashes < MaxCrashes
  /\ crashes' = crashes + 1
  /\ DropTasks
  /\ slot' = None
  /\ stopping' = "idle"
  /\ stopTarget' = None
  /\ procs' = {}
  /\ UNCHANGED done

Crash ==
  /\ LoseMemory
  /\ UNCHANGED storageVars

(* Mutant: the run is written before the decision is recorded.             *)
CrashInAcceptRunFirst(r, i, n) ==
  /\ cycle > 0
  /\ ActiveRuns = {}
  /\ Fresh(r)
  /\ LoseMemory
  /\ status' = [status EXCEPT ![r] = "pending"]
  /\ proposal' = [proposal EXCEPT ![r] = <<cycle, i>>]
  /\ decisions' = IF n = 1 THEN decisions
                  ELSE decisions \cup {<< <<cycle, i>>, "accepted" >>}
  /\ project' = [project EXCEPT ![r] =
                   IF n = 4 THEN "running" ELSE IF n = 3 THEN "pending" ELSE @]
  /\ UNCHANGED <<cycle, stopped>>

(* The server dies between two of the writes of accept_proposal (decision, *)
(* project pending, project running, run pending, run running); the first  *)
(* n of them are on disk.                                                  *)
CrashInAccept(r, i, n) ==
  /\ cycle > 0
  /\ ActiveRuns = {}
  /\ Fresh(r)
  /\ LoseMemory
  /\ decisions' = decisions \cup {<< <<cycle, i>>, "accepted" >>}
  /\ project' = [project EXCEPT ![r] =
                   IF n >= 3 THEN "running" ELSE IF n = 2 THEN "pending" ELSE @]
  /\ status' = [status EXCEPT ![r] = IF n = 4 THEN "pending" ELSE @]
  /\ proposal' = [proposal EXCEPT ![r] = IF n = 4 THEN <<cycle, i>> ELSE @]
  /\ UNCHANGED <<cycle, stopped>>

MayFail(r) ==
  \/ pc[r] \in {"ready", "command", "notify_completed", "notify_failed"}
  \/ pc[r] = "notify_precheck" /\ ~Alive(slot)
  \/ pc[r] = "timeout_cancel" /\ CancelReturns(target[r])

MayCancel(r) ==
  /\ Active(r)
  /\ IF stopping = "awaiting" THEN CancelReturns(stopTarget) ELSE ~Alive(slot)

(* The server dies between the two writes that close a run: the run shows  *)
(* the outcome, its project does not.                                      *)
CrashInClose(r, s) ==
  /\ \/ s = "completed" /\ MayComplete(r) /\ UNCHANGED stopped
     \/ s = "failed" /\ MayFail(r) /\ UNCHANGED stopped
     \/ s = "cancelled" /\ MayCancel(r) /\ stopped' = TRUE
  /\ LoseMemory
  /\ status' = [status EXCEPT ![r] = s]
  /\ UNCHANGED <<cycle, decisions, proposal, project>>

-----------------------------------------------------------------------------
Task(r) ==
  \/ PrecheckFails(r) \/ Launch(r)
  \/ Spawned(r) \/ CommandEnds(r) \/ CommandTimesOut(r)
  \/ CommandFailed(r) \/ NextCommand(r) \/ Complete(r)
  \/ TaskEnds(r) \/ GenerateRaises(r)
  \/ TimeoutResumes(r) \/ TimeoutRaises(r)

Next ==
  \/ Propose
  \/ \E r \in Runs, i \in Indices : Accept(r, i)
  \/ \E i \in Indices : Reject(i)
  \/ Stop
  \/ StopResumes \/ StopRaises
  \/ \E r \in Runs : Task(r) \/ Timeout(r)
  \/ \E p \in procs : OrphanExits(p)
  \/ Crash
  \/ \E r \in Runs, i \in Indices, n \in 1..4 : CrashInAccept(r, i, n)
  \/ \E r \in Runs, s \in TerminalStatus : CrashInClose(r, s)

Spec == Init /\ [][Next]_vars

(* A process that a pending cancel() has terminated.                       *)
Terminated(p) == p = stopTarget \/ \E r \in Runs : p = target[r]

(* The event loop runs every task that can resume, every command ends      *)
(* (run_command gives it a timeout, after which it is killed), and so does *)
(* every process a pending cancel() has terminated.                        *)
(* Nothing is assumed of users, of the mission timeout, of other orphans   *)
(* or of crashes.                                                          *)
Fairness ==
  /\ WF_vars(StopResumes \/ StopRaises)
  /\ WF_vars(\E p \in procs : Terminated(p) /\ OrphanExits(p))
  /\ \A r \in Runs : WF_vars(Task(r))

FairSpec == Spec /\ Fairness

-----------------------------------------------------------------------------
(* Properties. *)

RunStatus == {"none"} \cup ActiveStatus \cup TerminalStatus
Place == {"none", "ready", "command", "timeout_cancel", "notify_precheck",
          "notify_failed", "notify_completed", "notify_error", "notify_timeout"}

(* Types of the variables.                                                 *)
TypeOK ==
  /\ cycle \in 0..MaxCycles
  /\ decisions \subseteq Proposals \X {"accepted", "rejected"}
  /\ stopped \in BOOLEAN
  /\ status \in [Runs -> RunStatus]
  /\ proposal \in [Runs -> Proposals \cup {None}]
  /\ project \in [Runs -> RunStatus]
  /\ pc \in [Runs -> Place]
  /\ step \in [Runs -> Steps]
  /\ wait \in [Runs -> {"spawning", "alive", "ok", "failed"}]
  /\ target \in [Runs -> Procs \cup {None}]
  /\ slot \in Procs \cup {None}
  /\ stopping \in {"idle", "awaiting", "raised"}
  /\ stopTarget \in Procs \cup {None}
  /\ procs \subseteq Procs
  /\ done \subseteq Procs
  /\ crashes \in 0..MaxCrashes

(* No second run starts while one is pending or running                    *)
(* (evolution_supervisor.md:64), whatever stop, timeouts and crashes do to *)
(* the first: two runs are never active together.                          *)
OneActiveRun ==
  \A r, s \in Runs : Active(r) /\ Active(s) => r = s

(* No proposal is executed without acceptance (evolution_supervisor.md:63):*)
(* a run on disk has its recorded acceptance and its project, even after a *)
(* crash in the middle of accept_proposal.                                 *)
EveryRunWasAccepted ==
  \A r \in Runs : status[r] # "none" =>
    /\ << proposal[r], "accepted" >> \in decisions
    /\ project[r] # "none"

(* What a task awaits agrees with what its run shows: a task that runs     *)
(* commands works for a run still written "running", and one that goes on  *)
(* after that for a run written completed or failed.  So no mission goes   *)
(* on in the background once its run was cancelled or lost, and the blind  *)
(* write of "running" before the tests revives nothing.                    *)
TaskMatchesRun ==
  \A r \in Runs :
    /\ pc[r] \in {"ready", "command"} => status[r] = "running"
    /\ pc[r] = "notify_completed" => status[r] = "completed"
    /\ pc[r] = "timeout_cancel" => status[r] \in {"completed", "failed"}
    /\ pc[r] \in {"notify_precheck", "notify_failed", "notify_error",
                  "notify_timeout"} => status[r] = "failed"

(* The process of the command a mission awaits is the one in the single    *)
(* slot of the runner, where stop() and the timeouts look for it, although *)
(* the end of any command empties the slot.                                *)
SlotIsTheCommand ==
  \A r \in Runs : pc[r] = "command" /\ wait[r] \in {"alive", "ok"}
                    => slot = <<r, step[r]>>

(* No commit is attempted unless Codex and every test of this mission      *)
(* succeeded, no push unless its commit did (evolution_supervisor.md:70),  *)
(* counting the processes that outlive their mission.                      *)
PublishedWorkIsTested ==
  \A p \in procs :
    /\ p[2] >= CommitStep =>
         \A k \in ({CodexStep} \cup Tests) \cap Audited : <<p[1], k>> \in done
    /\ p[2] = LastStep /\ CommitStep \in Audited => <<p[1], CommitStep>> \in done

(* A run reported completed did push its commit.                           *)
CompletedRunIsPushed ==
  \A r \in Runs : status[r] = "completed" /\ LastStep \in Audited
                    => <<r, LastStep>> \in done

(* A finished run is never active again, although the task writes          *)
(* "running" without looking at the status a stop may have written; and    *)
(* only a completed one is rewritten, as failed, by a timeout or an        *)
(* exception that comes after the push.                                    *)
FinishedRunStaysFinished ==
  [][\A r \in Runs :
       /\ status[r] = "completed" => status'[r] \in {"completed", "failed"}
       /\ status[r] \in {"failed", "cancelled"} => status'[r] = status[r]]_vars

(* When stop() returns, no run is active, also when another mission was    *)
(* accepted while stop() awaited the end of the subprocess.  (It may raise *)
(* instead, and then it has marked and cancelled nothing.)                 *)
StopLeavesNoActiveRun ==
  [][stopping = "awaiting" /\ stopping' = "idle" /\ crashes' = crashes
     => \A r \in Runs : status'[r] \notin ActiveStatus]_vars

(* A run that a crash left active has no task any more: only a stop ever   *)
(* takes it out of the way of the next mission.                            *)
OnlyStopFreesALostRun ==
  [][\A r \in Runs : Active(r) /\ pc[r] = "none" /\ status'[r] # status[r]
       => status'[r] = "cancelled"]_vars

(* Every mission comes to an end, and so does a stop.                      *)
MissionsEnd ==
  \A r \in Runs : (pc[r] # "none") ~> (pc[r] = "none" /\ ~Active(r))

StopReturns == (stopping = "awaiting") ~> (stopping # "awaiting")

(* The detailed worker implements the promise of SupervisedEvolution, when *)
(* the history records every command.                                      *)
Outcome(r) ==
  CASE status[r] = "none" -> "absent"
    [] Active(r) -> "active"
    [] OTHER -> status[r]

Supervised == INSTANCE SupervisedEvolution WITH
  outcome <- [r \in Runs |-> Outcome(r)],
  tested  <- {r \in Runs : \A k \in {CodexStep} \cup Tests : <<r, k>> \in done},
  pushed  <- {r \in Runs : <<r, LastStep>> \in done}

(* Refinement: every behaviour of the tasks, processes, stops and timeouts *)
(* of supervisor.py is one that SupervisedEvolution allows.                *)
ImplementsSupervised == Supervised!Spec

(* "Une seule mission d'evolution peut etre active a la fois"              *)
(* (evolution_supervisor.md:33), read of the machine: the live             *)
(* subprocesses all belong to one mission.                                 *)
OneMissionAlive ==
  \A p, q \in procs : p[1] = q[1]

=============================================================================
