--------------------- MODULE EvolutionSupervisor_proofs ---------------------
(***************************************************************************)
(* Proofs about EvolutionSupervisor, for any set of runs, any number of    *)
(* crashes and any bound.                                                  *)
(***************************************************************************)
EXTENDS EvolutionSupervisor, TLAPS

(* Everything a mission ran before the command it is at succeeded, as far  *)
(* as it is checked and recorded.                                          *)
CommandsInOrder ==
  \A r \in Runs : pc[r] = "command" =>
    /\ \A k \in Required \cap Audited : k < step[r] => <<r, k>> \in done
    /\ wait[r] = "ok" /\ step[r] \in Audited => <<r, step[r]>> \in done

(* The same holds of every live process, also once nobody awaits it; and   *)
(* its run exists.                                                         *)
ProcessesInOrder ==
  \A p \in procs :
    /\ status[p[1]] # "none"
    /\ \A k \in Required \cap Audited : k < p[2] => <<p[1], k>> \in done

-----------------------------------------------------------------------------
LEMMA TypeInit == Init => TypeOK
<1> SUFFICES ASSUME Init PROVE TypeOK
  OBVIOUS
<1>1. /\ status \in [Runs -> RunStatus]
      /\ project \in [Runs -> RunStatus]
      /\ pc \in [Runs -> Place]
      /\ wait \in [Runs -> {"spawning", "alive", "ok", "failed"}]
  BY DEF Init, RunStatus, Place
<1>2. /\ step \in [Runs -> Steps]
      /\ proposal \in [Runs -> Proposals \cup {None}]
      /\ target \in [Runs -> Procs \cup {None}]
  BY DEF Init, Steps
<1>3. cycle \in 0..MaxCycles /\ crashes \in 0..MaxCrashes
  BY BoundsAssumption DEF Init
<1> QED
  BY <1>1, <1>2, <1>3 DEF Init, TypeOK

LEMMA TypeStep == TypeOK /\ [Next]_vars => TypeOK'
<1> SUFFICES ASSUME TypeOK, [Next]_vars PROVE TypeOK'
  OBVIOUS
<1> USE BoundsAssumption
    DEF TypeOK, RunStatus, ActiveStatus, TerminalStatus, Place,
        requestVars, storageVars, taskVars, stopVars, osVars
<1>1. CASE Propose
  BY <1>1 DEF Propose, GenerateProposals
<1>2. ASSUME NEW r \in Runs, NEW i \in Indices, Accept(r, i) PROVE TypeOK'
  BY <1>2 DEF Accept, CreateRun, Proposals
<1>3. ASSUME NEW i \in Indices, Reject(i) PROVE TypeOK'
  BY <1>3 DEF Reject, Proposals
<1>4. ASSUME StopNow
      PROVE  /\ pc' \in [Runs -> Place]
             /\ step' \in [Runs -> Steps]
             /\ wait' \in [Runs -> {"spawning", "alive", "ok", "failed"}]
             /\ target' \in [Runs -> Procs \cup {None}]
             /\ slot' \in Procs \cup {None}
             /\ status' \in [Runs -> RunStatus]
             /\ project' \in [Runs -> RunStatus]
  BY <1>4 DEF StopNow, DropTasks, EmptySlot, CloseRun, ActiveRuns, Steps
<1>5. CASE Stop
  BY <1>4, <1>5 DEF Stop, Alive
<1>6. CASE StopResumes
  BY <1>4, <1>6 DEF StopResumes
<1>r. CASE StopRaises
  BY <1>r DEF StopRaises
<1>7. ASSUME NEW r \in Runs, Task(r) \/ Timeout(r) PROVE TypeOK'
  <2> USE DEF Await, FailRun, CloseRun, Inner
  <2>1. CASE PrecheckFails(r) BY <2>1 DEF PrecheckFails, Steps
  <2>2. CASE Launch(r) BY <2>2 DEF Launch, Steps
  <2>3. CASE Spawned(r) BY <2>3 DEF Spawned, Procs
  <2>4. CASE CommandEnds(r) BY <2>4 DEF CommandEnds, Procs
  <2>5. CASE CommandTimesOut(r) BY <2>5 DEF CommandTimesOut
  <2>6. CASE CommandFailed(r) BY <2>6 DEF CommandFailed, Steps
  <2>7. CASE NextCommand(r) BY <2>7 DEF NextCommand, Steps, LastStep
  <2>8. CASE Complete(r) BY <2>8 DEF Complete, Steps
  <2>9. CASE TaskEnds(r) BY <2>9 DEF TaskEnds, GenerateProposals, Steps
  <2>10. CASE GenerateRaises(r) BY <2>10 DEF GenerateRaises, Steps
  <2>11. CASE TimeoutResumes(r) BY <2>11 DEF TimeoutResumes, Steps
  <2>13. CASE TimeoutRaises(r) BY <2>13 DEF TimeoutRaises, Steps
  <2>12. CASE Timeout(r) BY <2>12 DEF Timeout, Alive, Steps
  <2> QED BY <1>7, <2>1, <2>2, <2>3, <2>4, <2>5, <2>6, <2>7, <2>8, <2>9,
             <2>10, <2>11, <2>12, <2>13 DEF Task
<1>8. ASSUME NEW p \in procs, OrphanExits(p) PROVE TypeOK'
  BY <1>8 DEF OrphanExits
<1>9. CASE Crash
  BY <1>9 DEF Crash, LoseMemory, DropTasks, Steps
<1>10. ASSUME NEW r \in Runs, NEW i \in Indices, NEW n \in 1..4,
              CrashInAccept(r, i, n)
       PROVE TypeOK'
  BY <1>10 DEF CrashInAccept, LoseMemory, DropTasks, Steps, Proposals
<1>11. ASSUME NEW r \in Runs, NEW s \in TerminalStatus, CrashInClose(r, s)
       PROVE TypeOK'
  <2>1. /\ stopped' \in BOOLEAN
        /\ status' \in [Runs -> RunStatus]
    BY <1>11 DEF CrashInClose
  <2>2. crashes' \in 0..MaxCrashes
    BY <1>11 DEF CrashInClose, LoseMemory, DropTasks
  <2> QED BY <1>11, <2>1, <2>2 DEF CrashInClose, LoseMemory, DropTasks, Steps
<1>12. CASE UNCHANGED vars
  BY <1>12 DEF vars
<1> HIDE DEF TypeOK, vars
<1> QED
  BY <1>r, <1>1, <1>2, <1>3, <1>5, <1>6, <1>7, <1>8, <1>9, <1>10, <1>11, <1>12
  DEF Next

(* The variables of the supervisor always have their types.                *)
THEOREM TypeCorrect == Spec => []TypeOK
BY TypeInit, TypeStep, PTL DEF Spec

-----------------------------------------------------------------------------
(* Only accept_proposal makes a run active, and only when none is; what a  *)
(* task awaits decides what it may write.                                  *)
RunInv == OneActiveRun /\ TaskMatchesRun

LEMMA RunInvInit == Init => RunInv
BY DEF Init, RunInv, OneActiveRun, TaskMatchesRun, Active, ActiveStatus

LEMMA RunInvStep == TypeOK /\ RunInv /\ [Next]_vars => RunInv'
<1> SUFFICES ASSUME TypeOK, RunInv, [Next]_vars PROVE RunInv'
  OBVIOUS
<1>t. /\ status \in [Runs -> RunStatus]
      /\ pc \in [Runs -> Place]
  BY DEF TypeOK
<1> USE <1>t DEF RunInv, OneActiveRun, TaskMatchesRun, Active, ActiveStatus,
                 requestVars, storageVars, taskVars, stopVars, osVars
<1>1. CASE Propose
  BY <1>1 DEF Propose
<1>2. ASSUME NEW r \in Runs, NEW i \in Indices, Accept(r, i) PROVE RunInv'
  BY <1>2 DEF Accept, CreateRun, ActiveRuns, Fresh
<1>3. ASSUME NEW i \in Indices, Reject(i) PROVE RunInv'
  BY <1>3 DEF Reject
<1>4. ASSUME StopNow PROVE RunInv'
  BY <1>4 DEF StopNow, DropTasks, EmptySlot, CloseRun, ActiveRuns
<1>5. CASE Stop
  BY <1>4, <1>5 DEF Stop
<1>6. CASE StopResumes
  BY <1>4, <1>6 DEF StopResumes
<1>r. CASE StopRaises
  BY <1>r DEF StopRaises
<1>7. ASSUME NEW r \in Runs, Task(r) \/ Timeout(r) PROVE RunInv'
  <2> USE DEF Await, FailRun, CloseRun, Inner
  <2>1. CASE PrecheckFails(r) BY <2>1 DEF PrecheckFails
  <2>2. CASE Launch(r) BY <2>2 DEF Launch
  <2>3. CASE Spawned(r) BY <2>3 DEF Spawned
  <2>4. CASE CommandEnds(r) BY <2>4 DEF CommandEnds
  <2>5. CASE CommandTimesOut(r) BY <2>5 DEF CommandTimesOut
  <2>6. CASE CommandFailed(r) BY <2>6 DEF CommandFailed
  <2>7. CASE NextCommand(r) BY <2>7 DEF NextCommand, Ended
  <2>8. CASE Complete(r) BY <2>8 DEF Complete
  <2>9. CASE TaskEnds(r) BY <2>9 DEF TaskEnds
  <2>10. CASE GenerateRaises(r) BY <2>10 DEF GenerateRaises
  <2>11. CASE TimeoutResumes(r) BY <2>11 DEF TimeoutResumes
  <2>13. CASE TimeoutRaises(r) BY <2>13 DEF TimeoutRaises
  <2>12. CASE Timeout(r) BY <2>12 DEF Timeout, Alive
  <2> QED BY <1>7, <2>1, <2>2, <2>3, <2>4, <2>5, <2>6, <2>7, <2>8, <2>9,
             <2>10, <2>11, <2>12, <2>13 DEF Task
<1>8. ASSUME NEW p \in procs, OrphanExits(p) PROVE RunInv'
  BY <1>8 DEF OrphanExits
<1>9. CASE Crash
  BY <1>9 DEF Crash, LoseMemory, DropTasks
<1>10. ASSUME NEW r \in Runs, NEW i \in Indices, NEW n \in 1..4,
              CrashInAccept(r, i, n)
       PROVE RunInv'
  BY <1>10 DEF CrashInAccept, LoseMemory, DropTasks, ActiveRuns
<1>11. ASSUME NEW r \in Runs, NEW s \in TerminalStatus, CrashInClose(r, s)
       PROVE RunInv'
  BY <1>11 DEF CrashInClose, LoseMemory, DropTasks, TerminalStatus
<1>12. CASE UNCHANGED vars
  BY <1>12 DEF vars
<1> HIDE DEF RunInv
<1> QED
  BY <1>r, <1>1, <1>2, <1>3, <1>5, <1>6, <1>7, <1>8, <1>9, <1>10, <1>11, <1>12
  DEF Next

(* Two runs are never active together, and every task agrees with its run. *)
THEOREM RunInvCorrect == Spec => [](OneActiveRun /\ TaskMatchesRun)
<1>1. Init => TypeOK /\ RunInv
  BY TypeInit, RunInvInit
<1>2. (TypeOK /\ RunInv) /\ [Next]_vars => (TypeOK /\ RunInv)'
  BY TypeStep, RunInvStep
<1>3. RunInv => OneActiveRun /\ TaskMatchesRun
  BY DEF RunInv
<1> QED
  BY <1>1, <1>2, <1>3, PTL DEF Spec

-----------------------------------------------------------------------------
(* Only one task runs commands, so the end of a command never empties the  *)
(* slot of another mission.                                                *)
LEMMA OneCommand ==
  ASSUME RunInv, NEW r \in Runs, NEW s \in Runs,
         pc[r] = "command", pc[s] = "command"
  PROVE  r = s
BY DEF RunInv, OneActiveRun, TaskMatchesRun, Active, ActiveStatus

LEMMA SlotStep ==
  TypeOK /\ RunInv /\ SlotIsTheCommand /\ [Next]_vars => SlotIsTheCommand'
<1> SUFFICES ASSUME TypeOK, RunInv, SlotIsTheCommand, [Next]_vars
             PROVE  SlotIsTheCommand'
  OBVIOUS
<1>t. /\ pc \in [Runs -> Place]
      /\ step \in [Runs -> Steps]
      /\ wait \in [Runs -> {"spawning", "alive", "ok", "failed"}]
  BY DEF TypeOK
<1> USE <1>t, OneCommand
    DEF SlotIsTheCommand, requestVars, storageVars, taskVars, stopVars, osVars
<1>1. CASE Propose
  BY <1>1 DEF Propose
<1>2. ASSUME NEW r \in Runs, NEW i \in Indices, Accept(r, i)
      PROVE  SlotIsTheCommand'
  BY <1>2 DEF Accept, CreateRun
<1>3. ASSUME NEW i \in Indices, Reject(i) PROVE SlotIsTheCommand'
  BY <1>3 DEF Reject
<1>4. ASSUME StopNow PROVE SlotIsTheCommand'
  BY <1>4 DEF StopNow, DropTasks, EmptySlot
<1>5. CASE Stop
  BY <1>4, <1>5 DEF Stop
<1>6. CASE StopResumes
  BY <1>4, <1>6 DEF StopResumes
<1>r. CASE StopRaises
  BY <1>r DEF StopRaises
<1>7. ASSUME NEW r \in Runs, Task(r) \/ Timeout(r) PROVE SlotIsTheCommand'
  <2> USE DEF Await, FailRun, CloseRun, Inner, Ended
  <2>1. CASE PrecheckFails(r) BY <2>1 DEF PrecheckFails
  <2>2. CASE Launch(r) BY <2>2 DEF Launch
  <2>3. CASE Spawned(r) BY <2>3 DEF Spawned
  <2>4. CASE CommandEnds(r) BY <2>4 DEF CommandEnds
  <2>5. CASE CommandTimesOut(r) BY <2>5 DEF CommandTimesOut
  <2>6. CASE CommandFailed(r) BY <2>6 DEF CommandFailed
  <2>7. CASE NextCommand(r) BY <2>7 DEF NextCommand
  <2>8. CASE Complete(r) BY <2>8 DEF Complete, MayComplete
  <2>9. CASE TaskEnds(r) BY <2>9 DEF TaskEnds
  <2>10. CASE GenerateRaises(r) BY <2>10 DEF GenerateRaises
  <2>11. CASE TimeoutResumes(r) BY <2>11 DEF TimeoutResumes
  <2>13. CASE TimeoutRaises(r) BY <2>13 DEF TimeoutRaises
  <2>12. CASE Timeout(r) BY <2>12 DEF Timeout, Alive
  <2> QED BY <1>7, <2>1, <2>2, <2>3, <2>4, <2>5, <2>6, <2>7, <2>8, <2>9,
             <2>10, <2>11, <2>12, <2>13 DEF Task
<1>8. ASSUME NEW p \in procs, OrphanExits(p) PROVE SlotIsTheCommand'
  BY <1>8 DEF OrphanExits
<1>9. CASE Crash
  BY <1>9 DEF Crash, LoseMemory, DropTasks
<1>10. ASSUME NEW r \in Runs, NEW i \in Indices, NEW n \in 1..4,
              CrashInAccept(r, i, n)
       PROVE SlotIsTheCommand'
  BY <1>10 DEF CrashInAccept, LoseMemory, DropTasks
<1>11. ASSUME NEW r \in Runs, NEW s \in TerminalStatus, CrashInClose(r, s)
       PROVE SlotIsTheCommand'
  BY <1>11 DEF CrashInClose, LoseMemory, DropTasks
<1>12. CASE UNCHANGED vars
  BY <1>12 DEF vars
<1> HIDE DEF SlotIsTheCommand
<1> QED
  BY <1>r, <1>1, <1>2, <1>3, <1>5, <1>6, <1>7, <1>8, <1>9, <1>10, <1>11, <1>12
  DEF Next

(* stop() and the timeouts always find the process of the running command. *)
THEOREM SlotCorrect == Spec => []SlotIsTheCommand
<1>1. Init => TypeOK /\ RunInv /\ SlotIsTheCommand
  BY TypeInit, RunInvInit DEF Init, SlotIsTheCommand
<1>2. /\ TypeOK /\ RunInv /\ SlotIsTheCommand
      /\ [Next]_vars
      => (TypeOK /\ RunInv /\ SlotIsTheCommand)'
  BY TypeStep, RunInvStep, SlotStep
<1> QED
  BY <1>1, <1>2, PTL DEF Spec

-----------------------------------------------------------------------------
(* The order of the pipeline. *)

OrderInv == CommandsInOrder /\ ProcessesInOrder

LEMMA OrderStep == TypeOK /\ RunInv /\ OrderInv /\ [Next]_vars => OrderInv'
<1> SUFFICES ASSUME TypeOK, RunInv, OrderInv, [Next]_vars PROVE OrderInv'
  OBVIOUS
<1>t. /\ pc \in [Runs -> Place]
      /\ status \in [Runs -> RunStatus]
      /\ step \in [Runs -> Steps]
      /\ wait \in [Runs -> {"spawning", "alive", "ok", "failed"}]
      /\ procs \subseteq Procs
  BY DEF TypeOK
<1>s. \A r \in Runs : pc[r] # "none" => status[r] # "none"
  BY <1>t DEF RunInv, TaskMatchesRun, Place
<1> USE <1>t
    DEF OrderInv, CommandsInOrder, ProcessesInOrder,
        requestVars, storageVars, taskVars, stopVars, osVars
<1>1. CASE Propose
  BY <1>1 DEF Propose
<1>2. ASSUME NEW r \in Runs, NEW i \in Indices, Accept(r, i) PROVE OrderInv'
  BY <1>2 DEF Accept, CreateRun
<1>3. ASSUME NEW i \in Indices, Reject(i) PROVE OrderInv'
  BY <1>3 DEF Reject
<1>4. ASSUME StopNow, UNCHANGED osVars PROVE OrderInv'
  <2>1. CommandsInOrder'
    BY <1>4 DEF StopNow, DropTasks, EmptySlot
  <2>2. \A r \in Runs : status[r] # "none" => status'[r] # "none"
    BY <1>4 DEF StopNow, DropTasks, EmptySlot, CloseRun, ActiveRuns
  <2> QED
    BY <1>4, <2>1, <2>2 DEF Procs
<1>5. CASE Stop
  BY <1>4, <1>5 DEF Stop
<1>6. CASE StopResumes
  BY <1>4, <1>6 DEF StopResumes
<1>r. CASE StopRaises
  BY <1>r DEF StopRaises
<1>7. ASSUME NEW r \in Runs, Task(r) \/ Timeout(r) PROVE OrderInv'
  <2> USE DEF Await, FailRun, CloseRun, Inner
  <2>1. CASE PrecheckFails(r) BY <2>1 DEF PrecheckFails
  <2>2. CASE Launch(r) BY <2>2 DEF Launch, Required, Steps
  <2>3. CASE Spawned(r)
    <3>1. CommandsInOrder'
      BY <2>3 DEF Spawned
    <3>2. ProcessesInOrder'
      BY <2>3, <1>s DEF Spawned
    <3> QED BY <3>1, <3>2
  <2>4. CASE CommandEnds(r) BY <2>4 DEF CommandEnds, Recorded, Procs
  <2>5. CASE CommandTimesOut(r) BY <2>5 DEF CommandTimesOut
  <2>6. CASE CommandFailed(r) BY <2>6 DEF CommandFailed
  <2>7. CASE NextCommand(r)
    <3>1. ASSUME NEW k \in Required \cap Audited, k < step[r] + 1
          PROVE  <<r, k>> \in done
      <4>1. k < step[r] \/ k = step[r]
        BY <3>1 DEF Required, Steps
      <4> QED BY <2>7, <3>1, <4>1 DEF NextCommand, Ended, Succeeded
    <3>2. CommandsInOrder'
      BY <2>7, <3>1 DEF NextCommand, Ended
    <3>3. ProcessesInOrder'
      BY <2>7 DEF NextCommand
    <3> QED BY <3>2, <3>3
  <2>8. CASE Complete(r) BY <2>8 DEF Complete
  <2>9. CASE TaskEnds(r) BY <2>9 DEF TaskEnds
  <2>10. CASE GenerateRaises(r)
    <3>1. CommandsInOrder' BY <2>10 DEF GenerateRaises
    <3>2. \A q \in Runs : status[q] # "none" => status'[q] # "none"
      BY <2>10 DEF GenerateRaises
    <3>3. procs' = procs /\ done' = done BY <2>10 DEF GenerateRaises
    <3>4. ProcessesInOrder' BY <3>2, <3>3 DEF Procs
    <3> QED BY <3>1, <3>4
  <2>11. CASE TimeoutResumes(r) BY <2>11 DEF TimeoutResumes
  <2>13. CASE TimeoutRaises(r) BY <2>13 DEF TimeoutRaises
  <2>12. CASE Timeout(r)
    <3>1. CommandsInOrder' BY <2>12 DEF Timeout
    <3>2. \A q \in Runs : status[q] # "none" => status'[q] # "none"
      BY <2>12 DEF Timeout
    <3>3. procs' = procs /\ done' = done BY <2>12 DEF Timeout
    <3>4. ProcessesInOrder' BY <3>2, <3>3 DEF Procs
    <3> QED BY <3>1, <3>4
  <2> QED BY <1>7, <2>1, <2>2, <2>3, <2>4, <2>5, <2>6, <2>7, <2>8, <2>9,
             <2>10, <2>11, <2>12, <2>13 DEF Task
<1>8. ASSUME NEW p \in procs, OrphanExits(p) PROVE OrderInv'
  BY <1>8 DEF OrphanExits
<1>9. CASE Crash
  BY <1>9 DEF Crash, LoseMemory, DropTasks
<1>10. ASSUME NEW r \in Runs, NEW i \in Indices, NEW n \in 1..4,
              CrashInAccept(r, i, n)
       PROVE OrderInv'
  BY <1>10 DEF CrashInAccept, LoseMemory, DropTasks
<1>11. ASSUME NEW r \in Runs, NEW s \in TerminalStatus, CrashInClose(r, s)
       PROVE OrderInv'
  BY <1>11 DEF CrashInClose, LoseMemory, DropTasks
<1>12. CASE UNCHANGED vars
  BY <1>12 DEF vars
<1> HIDE DEF OrderInv
<1> QED
  BY <1>r, <1>1, <1>2, <1>3, <1>5, <1>6, <1>7, <1>8, <1>9, <1>10, <1>11, <1>12
  DEF Next

SafeInv == TypeOK /\ RunInv /\ OrderInv

LEMMA SafeInvCorrect == Spec => []SafeInv
<1>1. Init => SafeInv
  BY TypeInit, RunInvInit
  DEF SafeInv, OrderInv, CommandsInOrder, ProcessesInOrder, Init
<1>2. SafeInv /\ [Next]_vars => SafeInv'
  BY TypeStep, RunInvStep, OrderStep DEF SafeInv
<1> QED
  BY <1>1, <1>2, PTL DEF Spec

(* Nothing is committed or pushed before Codex and every recorded test of  *)
(* its mission succeeded, by live or abandoned processes.                  *)
THEOREM PublishedWorkIsTestedCorrect == Spec => []PublishedWorkIsTested
<1>1. SafeInv => PublishedWorkIsTested
  <2> SUFFICES ASSUME SafeInv, NEW p \in procs
               PROVE  /\ p[2] >= CommitStep =>
                           \A k \in ({CodexStep} \cup Tests) \cap Audited :
                             <<p[1], k>> \in done
                      /\ p[2] = LastStep /\ CommitStep \in Audited
                           => <<p[1], CommitStep>> \in done
    BY DEF PublishedWorkIsTested
  <2>1. p[2] \in Steps
    BY DEF SafeInv, TypeOK, Procs
  <2>2. \A k \in Required \cap Audited : k < p[2] => <<p[1], k>> \in done
    BY DEF SafeInv, OrderInv, ProcessesInOrder
  <2> QED
    BY <2>1, <2>2
    DEF Steps, Required, CodexStep, Tests, CommitStep, LastStep
<1> QED
  BY <1>1, SafeInvCorrect, PTL

-----------------------------------------------------------------------------
(* All that a step can do to the status of a run: accept it, complete it   *)
(* after its last command, fail it while it works or once it completed,    *)
(* cancel it while it is active.                                           *)
StatusChange(r) ==
  \/ status'[r] = status[r]
  \/ status[r] = "none" /\ status'[r] \in ActiveStatus /\ ActiveRuns = {}
  \/ MayComplete(r) /\ status[r] = "running" /\ status'[r] = "completed"
  \/ pc[r] \in {"ready", "command"} /\ status[r] = "running" /\ status'[r] = "failed"
  \/ status[r] = "completed" /\ status'[r] = "failed"
  \/ Active(r) /\ status'[r] = "cancelled"

LEMMA StatusStep ==
  TypeOK /\ RunInv /\ [Next]_vars => \A r \in Runs : StatusChange(r)
<1> DEFINE Goal == \A r \in Runs : StatusChange(r)
<1> SUFFICES ASSUME TypeOK, RunInv, [Next]_vars PROVE Goal
  OBVIOUS
<1>t. /\ pc \in [Runs -> Place]
      /\ status \in [Runs -> RunStatus]
  BY DEF TypeOK
<1> USE <1>t DEF StatusChange, RunInv, TaskMatchesRun,
                 requestVars, storageVars, taskVars, stopVars, osVars
<1>1. CASE Propose
  BY <1>1 DEF Propose
<1>2. ASSUME NEW r \in Runs, NEW i \in Indices, Accept(r, i) PROVE Goal
  BY <1>2 DEF Accept, CreateRun, Fresh, ActiveStatus
<1>3. ASSUME NEW i \in Indices, Reject(i) PROVE Goal
  BY <1>3 DEF Reject
<1>4. ASSUME StopNow PROVE Goal
  BY <1>4 DEF StopNow, DropTasks, EmptySlot, CloseRun, ActiveRuns
<1>5. CASE Stop
  BY <1>4, <1>5 DEF Stop
<1>6. CASE StopResumes
  BY <1>4, <1>6 DEF StopResumes
<1>r. CASE StopRaises
  BY <1>r DEF StopRaises
<1>7. ASSUME NEW r \in Runs, Task(r) \/ Timeout(r) PROVE Goal
  <2> USE DEF FailRun, CloseRun
  <2>1. CASE PrecheckFails(r) BY <2>1 DEF PrecheckFails
  <2>2. CASE Launch(r) BY <2>2 DEF Launch
  <2>3. CASE Spawned(r) BY <2>3 DEF Spawned
  <2>4. CASE CommandEnds(r) BY <2>4 DEF CommandEnds
  <2>5. CASE CommandTimesOut(r) BY <2>5 DEF CommandTimesOut
  <2>6. CASE CommandFailed(r) BY <2>6 DEF CommandFailed, Ended
  <2>7. CASE NextCommand(r) BY <2>7 DEF NextCommand, Ended
  <2>8. CASE Complete(r) BY <2>8 DEF Complete, MayComplete, Ended
  <2>9. CASE TaskEnds(r) BY <2>9 DEF TaskEnds
  <2>10. CASE GenerateRaises(r) BY <2>10 DEF GenerateRaises
  <2>11. CASE TimeoutResumes(r) BY <2>11 DEF TimeoutResumes
  <2>13. CASE TimeoutRaises(r) BY <2>13 DEF TimeoutRaises
  <2>12. CASE Timeout(r)
    <3>1. pc[r] \in Inner /\ (status' = status \/ FailRun(r))
      BY <2>12 DEF Timeout
    <3> QED BY <3>1 DEF Inner
  <2> QED BY <1>7, <2>1, <2>2, <2>3, <2>4, <2>5, <2>6, <2>7, <2>8, <2>9,
             <2>10, <2>11, <2>12, <2>13 DEF Task
<1>8. ASSUME NEW p \in procs, OrphanExits(p) PROVE Goal
  BY <1>8 DEF OrphanExits
<1>9. CASE Crash
  BY <1>9 DEF Crash
<1>10. ASSUME NEW r \in Runs, NEW i \in Indices, NEW n \in 1..4,
              CrashInAccept(r, i, n)
       PROVE Goal
  BY <1>10 DEF CrashInAccept, Fresh, ActiveStatus
<1>11. ASSUME NEW r \in Runs, NEW s \in TerminalStatus, CrashInClose(r, s)
       PROVE Goal
  <2>1. status' = [status EXCEPT ![r] = s]
    BY <1>11 DEF CrashInClose
  <2>2. \/ s = "completed" /\ MayComplete(r)
        \/ s = "failed" /\ MayFail(r)
        \/ s = "cancelled" /\ MayCancel(r)
    BY <1>11 DEF CrashInClose
  <2> QED BY <2>1, <2>2 DEF MayComplete, Ended, MayFail, MayCancel
<1>12. CASE UNCHANGED vars
  BY <1>12 DEF vars
<1> HIDE DEF Goal
<1> QED
  BY <1>r, <1>1, <1>2, <1>3, <1>5, <1>6, <1>7, <1>8, <1>9, <1>10, <1>11, <1>12
  DEF Next

(* A finished run is never active again, and only a completed one is       *)
(* rewritten, as failed.                                                   *)
THEOREM FinishedRunStaysFinishedCorrect == Spec => FinishedRunStaysFinished
<1>1. SafeInv /\ [Next]_vars =>
        [\A r \in Runs :
           /\ status[r] = "completed" => status'[r] \in {"completed", "failed"}
           /\ status[r] \in {"failed", "cancelled"} => status'[r] = status[r]]_vars
  BY StatusStep DEF SafeInv, StatusChange, Active, ActiveStatus
<1> QED
  BY <1>1, SafeInvCorrect, PTL DEF Spec, FinishedRunStaysFinished

(* Only a stop frees the supervisor of a run whose task a crash took.      *)
THEOREM OnlyStopFreesALostRunCorrect == Spec => OnlyStopFreesALostRun
<1>1. SafeInv /\ [Next]_vars =>
        [\A r \in Runs : Active(r) /\ pc[r] = "none" /\ status'[r] # status[r]
           => status'[r] = "cancelled"]_vars
  BY StatusStep
  DEF SafeInv, StatusChange, Active, ActiveStatus, MayComplete, Ended
<1> QED
  BY <1>1, SafeInvCorrect, PTL DEF Spec, OnlyStopFreesALostRun

(* stop() ends with no active run: the one run it marks is all there is.   *)
THEOREM StopLeavesNoActiveRunCorrect == Spec => StopLeavesNoActiveRun
<1>1. SafeInv /\ [Next]_vars =>
        [stopping = "awaiting" /\ stopping' = "idle" /\ crashes' = crashes
           => \A r \in Runs : status'[r] \notin ActiveStatus]_vars
  <2> SUFFICES ASSUME SafeInv, Next, stopping = "awaiting",
                      stopping' = "idle", crashes' = crashes
               PROVE  \A r \in Runs : status'[r] \notin ActiveStatus
    OBVIOUS
  <2> USE DEF stopVars, osVars
  <2>1. ~LoseMemory
    BY DEF SafeInv, TypeOK, LoseMemory, DropTasks
  <2>2. ASSUME NEW r \in Runs PROVE ~Task(r) /\ ~Timeout(r)
    BY DEF Task, PrecheckFails, Launch, Spawned, CommandEnds, CommandTimesOut,
           CommandFailed, NextCommand, Complete, TaskEnds, GenerateRaises,
           TimeoutResumes, TimeoutRaises, Timeout
  <2>3. StopResumes
    BY <2>1, <2>2
    DEF Next, Propose, Accept, CreateRun, Reject, Stop, StopRaises, OrphanExits, Crash,
        CrashInAccept, CrashInClose
  <2>4. /\ status \in [Runs -> RunStatus]
        /\ \A r, s \in Runs : Active(r) /\ Active(s) => r = s
    BY DEF SafeInv, TypeOK, RunInv, OneActiveRun
  <2> QED
    BY <2>3, <2>4
    DEF StopResumes, StopNow, DropTasks, EmptySlot, CloseRun, ActiveRuns, Active,
        ActiveStatus
<1> QED
  BY <1>1, SafeInvCorrect, PTL DEF Spec, StopLeavesNoActiveRun

(* A step changes the status of one run at most.                           *)
LEMMA OneRunChanges ==
  TypeOK /\ [Next]_vars =>
    \A r, s \in Runs : status'[r] # status[r] /\ status'[s] # status[s] => r = s
<1> DEFINE Goal ==
      \A r, s \in Runs : status'[r] # status[r] /\ status'[s] # status[s] => r = s
<1> SUFFICES ASSUME TypeOK, [Next]_vars PROVE Goal
  OBVIOUS
<1>t. status \in [Runs -> RunStatus]
  BY DEF TypeOK
<1> USE <1>t DEF requestVars, storageVars, taskVars, stopVars, osVars
<1>1. CASE Propose
  BY <1>1 DEF Propose
<1>2. ASSUME NEW r \in Runs, NEW i \in Indices, Accept(r, i) PROVE Goal
  BY <1>2 DEF Accept, CreateRun
<1>3. ASSUME NEW i \in Indices, Reject(i) PROVE Goal
  BY <1>3 DEF Reject
<1>4. CASE Stop
  BY <1>4 DEF Stop, StopNow, DropTasks, EmptySlot, CloseRun
<1>5. CASE StopResumes
  BY <1>5 DEF StopResumes, StopNow, DropTasks, EmptySlot, CloseRun
<1>r. CASE StopRaises
  BY <1>r DEF StopRaises
<1>6. ASSUME NEW r \in Runs, Task(r) \/ Timeout(r) PROVE Goal
  <2> USE DEF FailRun, CloseRun
  <2>1. CASE PrecheckFails(r) BY <2>1 DEF PrecheckFails
  <2>2. CASE Launch(r) BY <2>2 DEF Launch
  <2>3. CASE Spawned(r) BY <2>3 DEF Spawned
  <2>4. CASE CommandEnds(r) BY <2>4 DEF CommandEnds
  <2>5. CASE CommandTimesOut(r) BY <2>5 DEF CommandTimesOut
  <2>6. CASE CommandFailed(r) BY <2>6 DEF CommandFailed
  <2>7. CASE NextCommand(r) BY <2>7 DEF NextCommand
  <2>8. CASE Complete(r) BY <2>8 DEF Complete
  <2>9. CASE TaskEnds(r) BY <2>9 DEF TaskEnds
  <2>10. CASE GenerateRaises(r) BY <2>10 DEF GenerateRaises
  <2>11. CASE TimeoutResumes(r) BY <2>11 DEF TimeoutResumes
  <2>13. CASE TimeoutRaises(r) BY <2>13 DEF TimeoutRaises
  <2>12. CASE Timeout(r) BY <2>12 DEF Timeout
  <2> QED BY <1>6, <2>1, <2>2, <2>3, <2>4, <2>5, <2>6, <2>7, <2>8, <2>9,
             <2>10, <2>11, <2>12, <2>13 DEF Task
<1>7. ASSUME NEW p \in procs, OrphanExits(p) PROVE Goal
  BY <1>7 DEF OrphanExits
<1>8. CASE Crash
  BY <1>8 DEF Crash, LoseMemory, DropTasks
<1>9. ASSUME NEW r \in Runs, NEW i \in Indices, NEW n \in 1..4,
             CrashInAccept(r, i, n)
      PROVE Goal
  BY <1>9 DEF CrashInAccept, LoseMemory, DropTasks
<1>10. ASSUME NEW r \in Runs, NEW s \in TerminalStatus, CrashInClose(r, s)
       PROVE Goal
  BY <1>10 DEF CrashInClose, LoseMemory, DropTasks
<1>11. CASE UNCHANGED vars
  BY <1>11 DEF vars
<1> HIDE DEF Goal
<1> QED
  BY <1>r, <1>1, <1>2, <1>3, <1>4, <1>5, <1>6, <1>7, <1>8, <1>9, <1>10, <1>11
  DEF Next

(* The history grows by the success of one live process, and by nothing    *)
(* else in that step.                                                      *)
LEMMA DoneStep ==
  TypeOK /\ [Next]_vars =>
    \/ done' = done
    \/ status' = status /\ \E p \in procs : done' = done \cup ({p} \cap Recorded)
<1> DEFINE Goal ==
      \/ done' = done
      \/ status' = status /\ \E p \in procs : done' = done \cup ({p} \cap Recorded)
<1> SUFFICES ASSUME TypeOK, [Next]_vars PROVE Goal
  OBVIOUS
<1> USE DEF requestVars, storageVars, taskVars, stopVars, osVars
<1>1. CASE Propose
  BY <1>1 DEF Propose
<1>2. ASSUME NEW r \in Runs, NEW i \in Indices, Accept(r, i) PROVE Goal
  BY <1>2 DEF Accept, CreateRun
<1>3. ASSUME NEW i \in Indices, Reject(i) PROVE Goal
  BY <1>3 DEF Reject
<1>4. CASE Stop
  BY <1>4 DEF Stop, StopNow, DropTasks, EmptySlot
<1>5. CASE StopResumes
  BY <1>5 DEF StopResumes, StopNow, DropTasks, EmptySlot
<1>r. CASE StopRaises
  BY <1>r DEF StopRaises
<1>6. ASSUME NEW r \in Runs, Task(r) \/ Timeout(r) PROVE Goal
  <2>1. CASE PrecheckFails(r) BY <2>1 DEF PrecheckFails
  <2>2. CASE Launch(r) BY <2>2 DEF Launch
  <2>3. CASE Spawned(r) BY <2>3 DEF Spawned
  <2>4. CASE CommandEnds(r) BY <2>4 DEF CommandEnds
  <2>5. CASE CommandTimesOut(r) BY <2>5 DEF CommandTimesOut
  <2>6. CASE CommandFailed(r) BY <2>6 DEF CommandFailed
  <2>7. CASE NextCommand(r) BY <2>7 DEF NextCommand
  <2>8. CASE Complete(r) BY <2>8 DEF Complete
  <2>9. CASE TaskEnds(r) BY <2>9 DEF TaskEnds
  <2>10. CASE GenerateRaises(r) BY <2>10 DEF GenerateRaises
  <2>11. CASE TimeoutResumes(r) BY <2>11 DEF TimeoutResumes
  <2>13. CASE TimeoutRaises(r) BY <2>13 DEF TimeoutRaises
  <2>12. CASE Timeout(r) BY <2>12 DEF Timeout
  <2> QED BY <1>6, <2>1, <2>2, <2>3, <2>4, <2>5, <2>6, <2>7, <2>8, <2>9,
             <2>10, <2>11, <2>12, <2>13 DEF Task
<1>7. ASSUME NEW p \in procs, OrphanExits(p) PROVE Goal
  BY <1>7 DEF OrphanExits
<1>8. CASE Crash
  BY <1>8 DEF Crash, LoseMemory, DropTasks
<1>9. ASSUME NEW r \in Runs, NEW i \in Indices, NEW n \in 1..4,
             CrashInAccept(r, i, n)
      PROVE Goal
  BY <1>9 DEF CrashInAccept, LoseMemory, DropTasks
<1>10. ASSUME NEW r \in Runs, NEW s \in TerminalStatus, CrashInClose(r, s)
       PROVE Goal
  BY <1>10 DEF CrashInClose, LoseMemory, DropTasks
<1>11. CASE UNCHANGED vars
  BY <1>11 DEF vars
<1> HIDE DEF Goal
<1> QED
  BY <1>r, <1>1, <1>2, <1>3, <1>4, <1>5, <1>6, <1>7, <1>8, <1>9, <1>10, <1>11
  DEF Next

LEMMA CompletedStep ==
  SafeInv /\ CompletedRunIsPushed /\ [Next]_vars => CompletedRunIsPushed'
<1> SUFFICES ASSUME SafeInv, CompletedRunIsPushed, [Next]_vars,
                    NEW r \in Runs, status'[r] = "completed", LastStep \in Audited
             PROVE  <<r, LastStep>> \in done'
  BY DEF CompletedRunIsPushed
<1>1. done \subseteq done'
  BY DoneStep DEF SafeInv
<1>2. CASE status[r] = "completed"
  BY <1>1, <1>2 DEF CompletedRunIsPushed
<1>3. CASE MayComplete(r)
  BY <1>1, <1>3
  DEF SafeInv, OrderInv, CommandsInOrder, MayComplete, Ended, Succeeded
<1> QED
  BY <1>2, <1>3, StatusStep
  DEF SafeInv, StatusChange, ActiveStatus

(* A run is reported completed only once its push succeeded.               *)
THEOREM CompletedRunIsPushedCorrect == Spec => []CompletedRunIsPushed
<1>1. Init => CompletedRunIsPushed
  BY DEF Init, CompletedRunIsPushed
<1> QED
  BY <1>1, CompletedStep, SafeInvCorrect, PTL DEF Spec

-----------------------------------------------------------------------------
LEMMA AcceptedStep ==
  SafeInv /\ EveryRunWasAccepted /\ [Next]_vars => EveryRunWasAccepted'
<1> SUFFICES ASSUME SafeInv, EveryRunWasAccepted, [Next]_vars
             PROVE  EveryRunWasAccepted'
  OBVIOUS
<1>t. /\ status \in [Runs -> RunStatus]
      /\ project \in [Runs -> RunStatus]
      /\ proposal \in [Runs -> Proposals \cup {None}]
      /\ pc \in [Runs -> Place]
      /\ TaskMatchesRun
  BY DEF SafeInv, TypeOK, RunInv
<1> USE <1>t DEF EveryRunWasAccepted, TaskMatchesRun,
                 requestVars, storageVars, taskVars, stopVars, osVars
<1>1. CASE Propose
  BY <1>1 DEF Propose
<1>2. ASSUME NEW r \in Runs, NEW i \in Indices, Accept(r, i) PROVE EveryRunWasAccepted'
  BY <1>2 DEF Accept, CreateRun
<1>3. ASSUME NEW i \in Indices, Reject(i) PROVE EveryRunWasAccepted'
  BY <1>3 DEF Reject
<1>4. CASE Stop
  BY <1>4 DEF Stop, StopNow, DropTasks, EmptySlot, CloseRun, ActiveRuns, Active,
             ActiveStatus
<1>5. CASE StopResumes
  BY <1>5 DEF StopResumes, StopNow, DropTasks, EmptySlot, CloseRun, ActiveRuns, Active,
             ActiveStatus
<1>r. CASE StopRaises
  BY <1>r DEF StopRaises
<1>6. ASSUME NEW r \in Runs, Task(r) \/ Timeout(r) PROVE EveryRunWasAccepted'
  <2> USE DEF FailRun, CloseRun
  <2>1. CASE PrecheckFails(r) BY <2>1 DEF PrecheckFails
  <2>2. CASE Launch(r) BY <2>2 DEF Launch
  <2>3. CASE Spawned(r) BY <2>3 DEF Spawned
  <2>4. CASE CommandEnds(r) BY <2>4 DEF CommandEnds
  <2>5. CASE CommandTimesOut(r) BY <2>5 DEF CommandTimesOut
  <2>6. CASE CommandFailed(r) BY <2>6 DEF CommandFailed, Ended
  <2>7. CASE NextCommand(r) BY <2>7 DEF NextCommand, Ended
  <2>8. CASE Complete(r) BY <2>8 DEF Complete, MayComplete, Ended
  <2>9. CASE TaskEnds(r) BY <2>9 DEF TaskEnds
  <2>10. CASE GenerateRaises(r) BY <2>10 DEF GenerateRaises
  <2>11. CASE TimeoutResumes(r) BY <2>11 DEF TimeoutResumes
  <2>13. CASE TimeoutRaises(r) BY <2>13 DEF TimeoutRaises
  <2>12. CASE Timeout(r) BY <2>12 DEF Timeout, Inner
  <2> QED BY <1>6, <2>1, <2>2, <2>3, <2>4, <2>5, <2>6, <2>7, <2>8, <2>9,
             <2>10, <2>11, <2>12, <2>13 DEF Task
<1>7. ASSUME NEW p \in procs, OrphanExits(p) PROVE EveryRunWasAccepted'
  BY <1>7 DEF OrphanExits
<1>8. CASE Crash
  BY <1>8 DEF Crash, LoseMemory, DropTasks
<1>9. ASSUME NEW r \in Runs, NEW i \in Indices, NEW n \in 1..4,
             CrashInAccept(r, i, n)
      PROVE EveryRunWasAccepted'
  BY <1>9 DEF CrashInAccept, LoseMemory, DropTasks, ActiveRuns
<1>10. ASSUME NEW r \in Runs, NEW s \in TerminalStatus, CrashInClose(r, s)
       PROVE EveryRunWasAccepted'
  BY <1>10 DEF CrashInClose, LoseMemory, DropTasks, MayComplete,
             Ended, MayFail, MayCancel, Active, ActiveStatus
<1>11. CASE UNCHANGED vars
  BY <1>11 DEF vars
<1> HIDE DEF EveryRunWasAccepted
<1> QED
  BY <1>r, <1>1, <1>2, <1>3, <1>4, <1>5, <1>6, <1>7, <1>8, <1>9, <1>10, <1>11
  DEF Next

(* No run exists on disk without the decision that accepted it.            *)
THEOREM EveryRunWasAcceptedCorrect == Spec => []EveryRunWasAccepted
<1>1. Init => EveryRunWasAccepted
  BY DEF Init, EveryRunWasAccepted
<1> QED
  BY <1>1, AcceptedStep, SafeInvCorrect, PTL DEF Spec

-----------------------------------------------------------------------------
(* Refinement. *)

LEMMA RefinementStep ==
  ASSUME Required \subseteq Audited,
         SafeInv, SafeInv', CompletedRunIsPushed', [Next]_vars
  PROVE  [Supervised!Next]_(Supervised!vars)
<1> DEFINE out == [r \in Runs |-> Outcome(r)]
           tested == {r \in Runs : \A k \in {CodexStep} \cup Tests : <<r, k>> \in done}
           pushed == {r \in Runs : <<r, LastStep>> \in done}
<1>t. /\ status \in [Runs -> RunStatus]
      /\ status' \in [Runs -> RunStatus]
      /\ procs \subseteq Procs
  BY DEF SafeInv, TypeOK
<1>1. CASE status' # status
  <2>1. done' = done
    BY <1>1, DoneStep DEF SafeInv
  <2>2. PICK r \in Runs : status'[r] # status[r]
    BY <1>t, <1>1
  <2>3. \A s \in Runs : s # r => status'[s] = status[s]
    BY <2>2, OneRunChanges DEF SafeInv
  <2>4. StatusChange(r)
    BY StatusStep DEF SafeInv
  <2>5. tested' = tested /\ pushed' = pushed
    BY <2>1
  <2>6. out' = [out EXCEPT ![r] = out'[r]]
    <3>1. \A s \in Runs : s # r => out'[s] = out[s]
      BY <2>3 DEF Outcome, Active
    <3>2. out = [s \in Runs |-> out[s]] /\ out' = [s \in Runs |-> out'[s]]
      OBVIOUS
    <3> HIDE DEF out
    <3> QED BY <3>1, <3>2
  <2>7. CASE status[r] = "none" /\ status'[r] \in ActiveStatus /\ ActiveRuns = {}
    <3>1. /\ out[r] = "absent"
          /\ \A s \in Runs : out[s] # "active"
          /\ out'[r] = "active"
      BY <1>t, <2>7
      DEF Outcome, Active, ActiveRuns, ActiveStatus, RunStatus, TerminalStatus
    <3> QED BY <2>5, <2>6, <3>1 DEF Supervised!Next, Supervised!Begin
  <2>8. CASE status[r] \in ActiveStatus /\ status'[r] \in TerminalStatus
    <3>1. out[r] = "active" /\ out'[r] = status'[r] /\ out'[r] \in Supervised!Over
      BY <2>8
      DEF Outcome, Active, ActiveStatus, TerminalStatus, Supervised!Over
    <3>2. out'[r] = "completed" => r \in pushed
      BY <2>1, <3>1 DEF CompletedRunIsPushed, Required, Steps, LastStep
    <3> QED BY <2>5, <2>6, <3>1, <3>2 DEF Supervised!Next, Supervised!Finish
  <2>9. CASE status[r] = "completed" /\ status'[r] = "failed"
    <3>1. out[r] = "completed" /\ out'[r] = "failed"
      BY <2>9 DEF Outcome, Active, ActiveStatus
    <3> QED BY <2>5, <2>6, <3>1 DEF Supervised!Next, Supervised!Demote
  <2> QED
    BY <2>2, <2>4, <2>7, <2>8, <2>9
    DEF StatusChange, Active, ActiveStatus, TerminalStatus
<1>2. CASE status' = status
  <2>1. out' = out
    BY <1>2 DEF Outcome, Active
  <2>2. CASE done' = done
    BY <2>1, <2>2 DEF Supervised!vars
  <2>3. ASSUME NEW p \in procs, done' = done \cup ({p} \cap Recorded)
        PROVE  [Supervised!Next]_(Supervised!vars)
    <3>1. PICK r \in Runs, k \in Steps : p = <<r, k>>
      BY <1>t DEF Procs
    <3>2. /\ status[r] # "none"
          /\ \A j \in Required : j < k => <<r, j>> \in done
      BY <2>3, <3>1 DEF SafeInv, OrderInv, ProcessesInOrder
    <3>3. out[r] # "absent"
      BY <1>t, <3>2
      DEF Outcome, Active, ActiveStatus, RunStatus, TerminalStatus
    <3>4. \A q : q \in done' => q \in done \/ q = <<r, k>>
      BY <2>3, <3>1
    <3>5. done \subseteq done'
      BY <2>3
    <3>6. CASE k = LastStep
      <4>1. r \in tested
        BY <3>2, <3>6 DEF Required, Steps, CodexStep, Tests, LastStep
      <4>2. tested' = tested
        <5>1. ASSUME NEW s \in Runs, NEW j \in {CodexStep} \cup Tests
              PROVE  <<s, j>> \in done' <=> <<s, j>> \in done
          <6>1. j # k
            BY <3>6 DEF CodexStep, Tests, LastStep
          <6> QED BY <3>4, <3>5, <6>1
        <5>2. \A s : s \in tested' <=> s \in tested
          BY <5>1
        <5> HIDE DEF tested
        <5> QED BY <5>2
      <4>3. pushed' = pushed \/ pushed' = pushed \cup {r}
        BY <3>4, <3>5, <3>6 DEF Steps, LastStep
      <4> QED
        BY <2>1, <4>1, <4>2, <4>3
        DEF Supervised!Next, Supervised!Push, Supervised!vars
    <3>7. CASE k # LastStep
      <4>1. pushed' = pushed
        <5>1. ASSUME NEW s \in Runs
              PROVE  <<s, LastStep>> \in done' <=> <<s, LastStep>> \in done
          BY <3>4, <3>5, <3>7
        <5>2. \A s : s \in pushed' <=> s \in pushed
          BY <5>1
        <5> HIDE DEF pushed
        <5> QED BY <5>2
      <4>2. tested' = tested \/ tested' = tested \cup {r}
        <5>1. tested \subseteq tested'
          BY <3>5
        <5>2. ASSUME NEW s \in Runs, s # r, NEW j \in {CodexStep} \cup Tests,
                     <<s, j>> \in done'
              PROVE  <<s, j>> \in done
          BY <3>4, <5>2
        <5>3. \A s \in tested' : s # r => s \in tested
          BY <5>2
        <5> HIDE DEF tested
        <5> QED BY <5>1, <5>3
      <4> QED
        BY <2>1, <3>3, <4>1, <4>2
        DEF Supervised!Next, Supervised!PassTests, Supervised!vars
    <3> QED BY <3>6, <3>7
  <2> QED BY <2>2, <2>3, DoneStep DEF SafeInv
<1> QED BY <1>1, <1>2

(* The worker implements what SupervisedEvolution promises.                *)
THEOREM Implementation ==
  ASSUME Required \subseteq Audited
  PROVE  Spec => ImplementsSupervised
<1>1. Init => Supervised!Init
  <2> SUFFICES ASSUME Init PROVE Supervised!Init
    OBVIOUS
  <2>1. \A r \in Runs : Outcome(r) = "absent"
    BY DEF Init, Outcome, Active, ActiveStatus
  <2>2. done = {}
    BY DEF Init
  <2>3. {r \in Runs : \A k \in {CodexStep} \cup Tests : <<r, k>> \in done} = {}
    BY <2>2
  <2>4. {r \in Runs : <<r, LastStep>> \in done} = {}
    BY <2>2
  <2> QED BY <2>1, <2>3, <2>4 DEF Supervised!Init
<1>2. SafeInv /\ SafeInv' /\ CompletedRunIsPushed' /\ [Next]_vars
        => [Supervised!Next]_(Supervised!vars)
  BY RefinementStep
<1> QED
  BY <1>1, <1>2, SafeInvCorrect, CompletedRunIsPushedCorrect, PTL
  DEF Spec, Supervised!Spec, ImplementsSupervised
=============================================================================
