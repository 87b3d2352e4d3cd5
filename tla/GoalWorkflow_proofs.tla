------------------------- MODULE GoalWorkflow_proofs -------------------------
(***************************************************************************)
(* Proofs about GoalWorkflow, for any number of plans, goals, executions   *)
(* and crashes, whatever requests are made.                                *)
(***************************************************************************)
EXTENDS GoalWorkflow, SequenceTheorems, TLAPS

(* Tasks, records and executions are of plans that were made, and what an  *)
(* execution keeps of its plan is what is stored about it.                 *)
Consistent ==
  /\ \A p \in Plans :
       /\ tasks[p] # << >> => kind[p].template # "none"
       /\ stored[p].status # "absent" => kind[p].template # "none"
       /\ stored[p].status = "absent" => stored[p] = Absent
  /\ \A e \in Execs : exec[e] # Idle =>
       /\ tasks[exec[e].plan] # << >>
       /\ stored[exec[e].plan].status # "absent"
       /\ exec[e].goal = stored[exec[e].plan].goal

(* As long as the server lives, what has tasks has a record.               *)
Recorded0 ==
  crashes = 0 => \A p \in Plans : tasks[p] # << >> => stored[p].status # "absent"

(* Whoever says that there is a proposal for a plan is right.              *)
ProposalsExist ==
  /\ \A p \in Plans : stored[p].proposal => p \in proposals
  /\ \A e \in Execs : exec[e] # Idle /\ exec[e].proposal => exec[e].plan \in proposals
  /\ \A a \in attached : a[1] \in proposals

(* An execution that has skipped nothing has seen the end of every task it *)
(* left behind.                                                            *)
PassedIsFinished ==
  /\ \A p \in Plans : \A k \in DOMAIN tasks[p] :
       tasks[p][k] = "completed" => <<p, k>> \in finished
  /\ \A e \in Execs : exec[e] # Idle /\ ~exec[e].skipped =>
       \A k \in 1..(exec[e].idx - 1) : <<exec[e].plan, k>> \in finished

(* Without a crash, or someone who says so, no task is left in progress.   *)
NoneInProgress ==
  crashes = 0 /\ "in_progress" \notin Manual =>
    \A p \in Plans : \A k \in DOMAIN tasks[p] : tasks[p][k] # "in_progress"

-----------------------------------------------------------------------------
(* Sequences of statuses. *)

LEMMA StepsOfTemplate ==
  \A t \in Templates : Profile(t, FALSE).steps \in Nat \ {0}
BY DEF Templates, Profile

LEMMA FreshTasks ==
  ASSUME NEW n \in Nat \ {0}
  PROVE  LET s == [k \in 1..n |-> "active"]
         IN  s \in Seq(Statuses) /\ Len(s) = n /\ s # << >>
<1> DEFINE s == [k \in 1..n |-> "active"]
<1>1. s \in [1..n -> Statuses]
  BY DEF Statuses
<1>2. s \in Seq(Statuses)
  BY <1>1, SeqDef
<1>3. Len(s) = n
  BY <1>2, LenProperties
<1> QED
  BY <1>2, <1>3, EmptySeq

(* What create_tasks_from_plan does: the plan has tasks afterwards.        *)
LEMMA CreateTasksEffect ==
  ASSUME TypeOK, NEW p \in Plans, NEW t \in Kinds, CreateTasks(p, t)
  PROVE  /\ tasks' \in [Plans -> Seq(Statuses)]
         /\ \A q \in Plans : tasks[q] # << >> => tasks'[q] = tasks[q]
         /\ \A q \in Plans : q # p => tasks'[q] = tasks[q]
         /\ tasks'[p] # << >>
         /\ tasks[p] = << >> =>
              /\ Len(tasks'[p]) = Profile(t, FALSE).steps
              /\ \A k \in DOMAIN tasks'[p] : tasks'[p][k] = "active"
         /\ queue' \in Seq(Plans)
         /\ \A i \in DOMAIN queue' : tasks'[queue'[i]] # << >>
<1> DEFINE s == [k \in 1..Profile(t, FALSE).steps |-> "active"]
<1>1. Profile(t, FALSE).steps \in Nat \ {0}
  BY StepsOfTemplate, GoalAssumption, Zenon
<1>2. s \in Seq(Statuses) /\ Len(s) = Profile(t, FALSE).steps /\ s # << >>
  BY <1>1, FreshTasks
<1>3. \A k \in DOMAIN s : s[k] = "active"
  OBVIOUS
<1> HIDE DEF s
<1>4. CASE tasks[p] # << >>
  BY <1>4 DEF CreateTasks, TypeOK
<1>5. CASE tasks[p] = << >>
  <2>1. tasks' = [tasks EXCEPT ![p] = s] /\ queue' = Append(queue, p)
    BY <1>5 DEF CreateTasks, s
  <2>2. /\ queue' \in Seq(Plans) /\ DOMAIN queue' = 1..(Len(queue) + 1)
        /\ \A i \in 1..(Len(queue) + 1) :
             queue'[i] = IF i <= Len(queue) THEN queue[i] ELSE p
    BY <2>1, AppendProperties, LenProperties DEF TypeOK
  <2>3. DOMAIN queue = 1..Len(queue) /\ Len(queue) \in Nat
    BY LenProperties DEF TypeOK
  <2>4. \A i \in DOMAIN queue' : tasks'[queue'[i]] # << >>
    BY <1>2, <2>1, <2>2, <2>3 DEF TypeOK
  <2> QED
    BY <1>2, <1>3, <1>5, <2>1, <2>2, <2>4 DEF TypeOK
<1> QED
  BY <1>4, <1>5

(* What setting the status of one task does.                               *)
LEMMA SetStatusEffect ==
  ASSUME TypeOK, NEW p \in Plans, NEW k \in DOMAIN tasks[p], NEW s \in Statuses,
         tasks' = [tasks EXCEPT ![p][k] = s]
  PROVE  /\ tasks' \in [Plans -> Seq(Statuses)]
         /\ k \in Nat \ {0} /\ k <= Len(tasks[p]) /\ tasks[p] # << >>
         /\ \A q \in Plans :
              /\ q # p => tasks'[q] = tasks[q]
              /\ Len(tasks'[q]) = Len(tasks[q])
              /\ DOMAIN tasks'[q] = DOMAIN tasks[q]
              /\ tasks'[q] = << >> <=> tasks[q] = << >>
         /\ \A j \in DOMAIN tasks[p] :
              tasks'[p][j] = IF j = k THEN s ELSE tasks[p][j]
<1>1. tasks[p] \in Seq(Statuses) /\ tasks \in [Plans -> Seq(Statuses)]
  BY DEF TypeOK
<1>2. Len(tasks[p]) \in Nat /\ DOMAIN tasks[p] = 1..Len(tasks[p])
  BY <1>1, LenProperties
<1>3. tasks'[p] = [tasks[p] EXCEPT ![k] = s]
  BY <1>1
<1>4. /\ tasks'[p] \in Seq(Statuses) /\ Len(tasks'[p]) = Len(tasks[p])
      /\ DOMAIN tasks'[p] = DOMAIN tasks[p]
      /\ \A j \in DOMAIN tasks[p] :
           tasks'[p][j] = IF j = k THEN s ELSE tasks[p][j]
  BY <1>1, <1>2, <1>3, ExceptSeq, LenProperties
<1>5. tasks[p] # << >> /\ tasks'[p] # << >>
  BY <1>2, <1>4, EmptySeq
<1> QED
  BY <1>1, <1>2, <1>4, <1>5

-----------------------------------------------------------------------------
(* Records of plans. *)

LEMMA AbsentIsRecord == Absent \in Records
BY DEF Absent, Records

(* sync_plan_task_status makes no record and only changes the status, and  *)
(* the mark that there is a proposal.                                      *)
LEMMA SyncedRecord ==
  ASSUME NEW r \in Records, NEW statuses, NEW b \in BOOLEAN
  PROVE  LET s == Synced(r, statuses, b)
         IN  /\ s \in Records
             /\ s.goal = r.goal /\ s.approved = r.approved
             /\ s.status = "absent" <=> r.status = "absent"
             /\ r.status = "absent" => s = r
             /\ s.proposal => r.proposal \/ b
             /\ s.status = "plan_finished" => s = r
             /\ s.status = "running" =>
                  s = r \/ "in_progress" \in {statuses[k] : k \in DOMAIN statuses}
BY ZenonT(40) DEF Synced, Records, Terminal

(* What the executor writes: a record, made up where there is none.        *)
LEMMA RecordedRecord ==
  ASSUME TypeOK, Consistent, NEW p \in Plans, NEW k
  PROVE  LET r == Recorded(p, k)
         IN  /\ r \in Records
             /\ r.goal = stored[p].goal
             /\ r.proposal => stored[p].proposal \/ Proposes(p, k)
             /\ stored[p].status # "absent" =>
                  r.status = stored[p].status /\ r.approved = stored[p].approved
             /\ stored[p].status = "absent" => r = Absent \/ r.status = "none"
<1>1. stored[p] \in Records /\ (stored[p].status = "absent" => stored[p] = Absent)
  BY DEF TypeOK, Consistent
<1> QED
  BY <1>1 DEF Recorded, Records, Absent

(* What working on one task does.                                          *)
LEMMA PerformEffect ==
  ASSUME TypeOK, NEW p \in Plans, NEW k \in DOMAIN tasks[p], NEW outcome \in Statuses,
         Perform(p, k, outcome)
  PROVE  /\ outcome \in {"completed", "failed", "skipped"}
         /\ tasks' = [tasks EXCEPT ![p][k] = outcome]
         /\ proposals \subseteq proposals' /\ proposals' \subseteq Plans
         /\ Proposes(p, k) /\ outcome # "failed" => p \in proposals'
         /\ attached \subseteq attached'
         /\ \A a \in attached' : a \in attached \/ (a[1] = p /\ p \in proposals')
         /\ finished' = IF outcome = "completed"
                        THEN finished \union {<<p, k>>} ELSE finished
         /\ UNCHANGED <<goals, kind, queue, approval, crashes>>
BY DEF Perform, Outcomes, TypeOK

(* What starting an execution does.                                        *)
LEMMA StartEffect ==
  ASSUME TypeOK, NEW e \in Execs, NEW p \in Plans, NEW r \in Records, Start(e, p, r)
  PROVE  /\ stored' \in [Plans -> Records]
         /\ stored'[p] = [r EXCEPT !.status = "running"]
         /\ \A q \in Plans : q # p => stored'[q] = stored[q]
         /\ exec' \in [Execs -> {Idle} \union Copies]
         /\ exec[e] = Idle /\ exec'[e] = Copy(p, r) /\ exec'[e] # Idle
         /\ \A f \in Execs : f # e => exec'[f] = exec[f]
<1>1. [r EXCEPT !.status = "running"] \in Records
  BY DEF Records
<1>2. Copy(p, r) \in Copies
  BY DEF Copy, Copies, Records
<1>3. Copy(p, r).pc = "running" /\ Idle.pc = "idle"
  BY DEF Copy, Idle
<1> QED
  BY <1>1, <1>2, <1>3 DEF Start, TypeOK

(* What ending an execution does.                                          *)
LEMMA ReportIsRecord ==
  ASSUME NEW c \in Copies, NEW s \in {"tasks_completed", "plan_finished", "partial", "failed"},
         NEW b \in BOOLEAN
  PROVE  /\ Report(c, s, b) \in Records
         /\ Report(c, s, b).status = s /\ Report(c, s, b).goal = c.goal
         /\ Report(c, s, b).proposal = b /\ Report(c, s, b).approved = TRUE
BY DEF Report, Copies, Records, Terminal

LEMMA PassingIsCopy ==
  ASSUME NEW c \in Copies, NEW k \in Nat \ {0}
  PROVE  /\ Passing(c, k) \in Copies
         /\ Passing(c, k).pc = c.pc /\ Passing(c, k).idx = k
         /\ Passing(c, k).plan = c.plan /\ Passing(c, k).goal = c.goal
BY DEF Passing, Copies

LEMMA AfterIsCopy ==
  ASSUME NEW c \in Copies, NEW k \in Nat \ {0}, NEW outcome, c.idx = k
  PROVE  /\ After(c, k, outcome) \in Copies
         /\ After(c, k, outcome).plan = c.plan
         /\ After(c, k, outcome).goal = c.goal
         /\ After(c, k, outcome).idx \in {k, k + 1}
<1>1. CASE outcome = "failed"
  BY <1>1 DEF After, Copies
<1>2. CASE outcome # "failed"
  <2>1. k + 1 \in Nat \ {0}
    OBVIOUS
  <2> QED
    BY <1>2, <2>1 DEF After, Copies, Proposes
<1> QED
  BY <1>1, <1>2

LEMMA VerdictOfCopy ==
  \A c : Verdict(c) \in {"plan_finished", "partial", "failed"}
BY DEF Verdict

-----------------------------------------------------------------------------
(* Types.  A plan has as many tasks as its template has steps, an          *)
(* execution never leaves its tasks, and neither is seen without the       *)
(* records it belongs to.                                                  *)
Typed == TypeOK /\ Consistent

LEMMA TypedInit == Init => Typed
<1> SUFFICES ASSUME Init PROVE Typed
  OBVIOUS
<1>1. << >> \in Seq(Statuses) /\ << >> \in Seq(Plans)
  BY EmptySeq
<1>2. crashes \in 0..MaxCrashes
  BY GoalAssumption DEF Init
<1>3. TypeOK
  BY <1>1, <1>2, AbsentIsRecord DEF Init, TypeOK
<1>4. Consistent
  BY DEF Init, Consistent, Absent
<1> QED
  BY <1>3, <1>4 DEF Typed

(* No execution is begun or goes on.                                       *)
EndsOnly ==
  \/ exec' = exec
  \/ exec' = [e \in Execs |-> Idle]
  \/ \E e \in Execs : exec' = [exec EXCEPT ![e] = Idle]

(* The record of plan p, if it is made or changed, is that of a plan that  *)
(* was made, and keeps its goal.                                           *)
KeepsRecord(p) ==
  \/ stored'[p] = stored[p]
  \/ stored[p].status = "absent" /\ stored'[p] = Absent
  \/ /\ stored'[p].status # "absent" /\ kind[p].template # "none"
     /\ stored[p].status # "absent" => stored'[p].goal = stored[p].goal

LEMMA EndsOnlyEffect ==
  ASSUME TypeOK, EndsOnly
  PROVE  /\ exec' \in [Execs -> {Idle} \union Copies]
         /\ \A e \in Execs : exec'[e] # Idle => exec'[e] = exec[e]
BY DEF TypeOK, EndsOnly

(* Steps that begin no execution, make no plan, and write, in the record   *)
(* of a plan that was made, neither its goal nor that there is none.       *)
LEMMA StillConsistent ==
  ASSUME Typed, EndsOnly, UNCHANGED kind,
         \A p \in Plans :
           /\ tasks'[p] # << >> => kind[p].template # "none"
           /\ tasks[p] # << >> => tasks'[p] # << >>
           /\ KeepsRecord(p)
  PROVE  Consistent'
<1>1. \A p \in Plans :
        /\ tasks'[p] # << >> => kind'[p].template # "none"
        /\ stored'[p].status # "absent" => kind'[p].template # "none"
        /\ stored'[p].status = "absent" => stored'[p] = Absent
  BY DEF Typed, Consistent, KeepsRecord
<1>2. \A e \in Execs : exec'[e] # Idle => exec'[e] = exec[e] /\ exec[e].plan \in Plans
  BY EndsOnlyEffect DEF Typed, TypeOK, Copies
<1>3. \A e \in Execs : exec'[e] # Idle =>
        /\ tasks'[exec'[e].plan] # << >>
        /\ stored'[exec'[e].plan].status # "absent"
        /\ exec'[e].goal = stored'[exec'[e].plan].goal
  BY <1>2 DEF Typed, Consistent, Absent, KeepsRecord
<1> QED
  BY <1>1, <1>3 DEF Consistent

LEMMA TaskTyped ==
  ASSUME Typed, NEW p \in Plans, NEW k \in DOMAIN tasks[p], RunTask(p, k)
  PROVE  Typed'
<1>1. PICK outcome \in Statuses :
        /\ Perform(p, k, outcome)
        /\ stored' = IF outcome = "failed" THEN stored
                     ELSE [stored EXCEPT ![p] =
                             Synced(Recorded(p, k), tasks'[p], HasResult(p)')]
        /\ UNCHANGED exec
  BY DEF RunTask
<1> DEFINE s == Synced(Recorded(p, k), tasks'[p], HasResult(p)')
<1>t. TypeOK /\ Consistent
  BY DEF Typed
<1>2. /\ tasks' = [tasks EXCEPT ![p][k] = outcome]
      /\ proposals' \subseteq Plans
      /\ UNCHANGED <<goals, kind, queue, approval, crashes>>
  BY <1>1, <1>t, PerformEffect
<1>3. /\ tasks' \in [Plans -> Seq(Statuses)]
      /\ tasks[p] # << >>
      /\ \A q \in Plans : /\ Len(tasks'[q]) = Len(tasks[q])
                          /\ tasks'[q] = << >> <=> tasks[q] = << >>
  BY <1>2, <1>t, SetStatusEffect
<1>4. HasResult(p)' \in BOOLEAN
  BY DEF HasResult
<1>5. LET r == Recorded(p, k)
      IN  /\ r \in Records
          /\ r.goal = stored[p].goal
          /\ stored[p].status # "absent" => r.status = stored[p].status
          /\ stored[p].status = "absent" => r = Absent \/ r.status = "none"
  BY <1>t, RecordedRecord
<1>6. /\ s \in Records /\ s.goal = stored[p].goal
      /\ s.status = "absent" <=> Recorded(p, k).status = "absent"
      /\ Recorded(p, k).status = "absent" => s = Recorded(p, k)
  BY <1>4, <1>5, SyncedRecord
<1>7. stored' = stored \/ stored' = [stored EXCEPT ![p] = s]
  BY <1>1
<1>8. /\ stored' \in [Plans -> Records]
      /\ \A q \in Plans : stored'[q].goal = stored[q].goal
      /\ \A q \in Plans : q # p => stored'[q] = stored[q]
      /\ stored'[p].status = "absent" => stored'[p] = Absent
      /\ stored[p].status # "absent" => stored'[p].status # "absent"
  BY <1>5, <1>6, <1>7, <1>t DEF TypeOK, Consistent, Absent
<1> HIDE DEF s
<1>9. TypeOK'
  <2>1. queue' \in Seq(Plans) /\ \A i \in DOMAIN queue' : tasks'[queue'[i]] # << >>
    <3>1. \A i \in DOMAIN queue : queue[i] \in Plans
      BY <1>t, LenProperties, ElementOfSeq DEF TypeOK
    <3> QED BY <1>2, <1>3, <1>t, <3>1 DEF TypeOK
  <2>2. \A e \in Execs :
          exec[e] # Idle => exec'[e].idx <= Len(tasks'[exec'[e].plan]) + 1
    BY <1>1, <1>3, <1>t DEF TypeOK, Copies
  <2> QED
    BY <1>1, <1>2, <1>3, <1>8, <1>t, <2>1, <2>2 DEF TypeOK
<1>10. Consistent'
  <2>1. kind[p].template # "none"
    BY <1>3, <1>t DEF Consistent
  <2>2. \A q \in Plans :
           /\ tasks'[q] # << >> => kind[q].template # "none"
           /\ tasks[q] # << >> => tasks'[q] # << >>
           /\ KeepsRecord(q)
    BY <2>1, <1>3, <1>8, <1>t DEF Consistent, KeepsRecord
  <2>3. EndsOnly /\ kind' = kind
    BY <1>1, <1>2 DEF EndsOnly
  <2> QED
    BY <2>2, <2>3, StillConsistent
<1> QED
  BY <1>9, <1>10 DEF Typed

(* Plan p is of template t, be it a new one.                               *)
MakesKind(p, t) ==
  /\ kind' \in [Plans -> [template : Kinds \union {"none"}, flagged : BOOLEAN]]
  /\ kind'[p].template = t
  /\ \A q \in Plans : kind'[q] = kind[q] \/ (kind[q].template = "none" /\ q = p)

LEMMA SameKind ==
  ASSUME Typed, NEW p \in Plans, UNCHANGED kind
  PROVE  MakesKind(p, kind[p].template)
<1>1. kind' = kind
      /\ kind \in [Plans -> [template : Kinds \union {"none"}, flagged : BOOLEAN]]
  BY DEF Typed, TypeOK
<1> QED
  BY <1>1, Zenon DEF MakesKind

(* Plan p is written for the first time, if at all.                        *)
MakesRecord(p) ==
  /\ stored' \in [Plans -> Records]
  /\ \A q \in Plans :
       \/ stored'[q] = stored[q]
       \/ q = p /\ stored[p].status = "absent" /\ stored'[p].status # "absent"

(* Tasks made for a plan and, at once, an execution of it.                 *)
LEMMA StartTyped ==
  ASSUME Typed, NEW p \in Plans, NEW t \in Kinds, NEW e \in Execs, NEW r \in Records,
         MakesKind(p, t),
         stored[p].status # "absent" => r.goal = stored[p].goal,
         CreateTasks(p, t), Start(e, p, r),
         goals' \in [Goals -> {"absent", "active", "completed"}],
         approval' \in [Plans -> {"none", "given", "withdrawn"}],
         UNCHANGED <<proposals, crashes>>
  PROVE  Typed'
<1>m. /\ kind' \in [Plans -> [template : Kinds \union {"none"}, flagged : BOOLEAN]]
      /\ kind'[p].template = t
      /\ \A q \in Plans : kind[q].template # "none" \/ q # p => kind'[q] = kind[q]
  BY DEF MakesKind
<1>t. TypeOK /\ Consistent
  BY DEF Typed
<1>k. t # "none"
  BY GoalAssumption DEF Templates
<1>1. /\ tasks' \in [Plans -> Seq(Statuses)]
      /\ \A q \in Plans : tasks[q] # << >> => tasks'[q] = tasks[q]
      /\ \A q \in Plans : q # p => tasks'[q] = tasks[q]
      /\ tasks'[p] # << >>
      /\ tasks[p] = << >> => Len(tasks'[p]) = Profile(t, FALSE).steps
      /\ queue' \in Seq(Plans)
      /\ \A i \in DOMAIN queue' : tasks'[queue'[i]] # << >>
  BY <1>t, CreateTasksEffect
<1>2. /\ stored' \in [Plans -> Records]
      /\ stored'[p] = [r EXCEPT !.status = "running"]
      /\ \A q \in Plans : q # p => stored'[q] = stored[q]
      /\ exec' \in [Execs -> {Idle} \union Copies]
      /\ exec[e] = Idle /\ exec'[e] = Copy(p, r)
      /\ \A f \in Execs : f # e => exec'[f] = exec[f]
  BY <1>t, StartEffect
<1>3. stored'[p].status = "running" /\ stored'[p].goal = r.goal
  BY <1>2 DEF Records
<1>4. exec'[e].idx = 1 /\ exec'[e].plan = p /\ exec'[e].goal = r.goal
  BY <1>2 DEF Copy
<1>5. \A q \in Plans :
        tasks'[q] # << >> => Len(tasks'[q]) = Profile(kind'[q].template, FALSE).steps
  <2> TAKE q \in Plans
  <2>1. CASE tasks[q] # << >>
    <3>1. kind[q].template # "none"
      BY <1>t, <2>1 DEF Consistent
    <3>2. kind'[q] = kind[q]
      BY <1>m, <3>1
    <3> QED
      BY <1>1, <1>t, <2>1, <3>2 DEF TypeOK
  <2>2. CASE tasks[q] = << >> /\ q # p
    BY <1>1, <2>2
  <2>3. CASE tasks[q] = << >> /\ q = p
    BY <1>1, <1>m, <2>3
  <2> QED
    BY <2>1, <2>2, <2>3
<1>6. \A f \in Execs : f # e /\ exec[f] # Idle =>
        /\ exec[f].plan \in Plans /\ tasks'[exec[f].plan] = tasks[exec[f].plan]
        /\ tasks'[exec[f].plan] # << >>
  BY <1>1, <1>t DEF TypeOK, Consistent, Copies
<1>7. \A f \in Execs :
        exec'[f] # Idle => exec'[f].idx <= Len(tasks'[exec'[f].plan]) + 1
  <2>1. Len(tasks'[p]) \in Nat
    BY <1>1, LenProperties
  <2> TAKE f \in Execs
  <2>2. CASE f = e
    BY <1>4, <2>1, <2>2
  <2>3. CASE f # e
    BY <1>2, <1>6, <1>t, <2>3 DEF TypeOK
  <2> QED
    BY <2>2, <2>3
<1>8. TypeOK'
  BY <1>1, <1>2, <1>5, <1>7, <1>m, <1>t DEF TypeOK
<1>9. \A q \in Plans :
        /\ tasks'[q] # << >> => kind'[q].template # "none"
        /\ stored'[q].status # "absent" => kind'[q].template # "none"
        /\ stored'[q].status = "absent" => stored'[q] = Absent
  <2> TAKE q \in Plans
  <2>1. CASE q = p
    BY <2>1, <1>k, <1>m, <1>3
  <2>2. CASE q # p
    BY <2>2, <1>1, <1>2, <1>m, <1>t, ZenonT(40) DEF Consistent
  <2> QED
    BY <2>1, <2>2
<1>10. \A f \in Execs : exec'[f] # Idle =>
         /\ tasks'[exec'[f].plan] # << >>
         /\ stored'[exec'[f].plan].status # "absent"
         /\ exec'[f].goal = stored'[exec'[f].plan].goal
  <2> TAKE f \in Execs
  <2>1. CASE f = e
    BY <2>1, <1>1, <1>3, <1>4
  <2>2. CASE f # e /\ exec[f].plan = p
    <3>1. exec[f] # Idle => stored[p].status # "absent" /\ exec[f].goal = stored[p].goal
      BY <2>2, <1>t DEF Consistent
    <3> QED BY <2>2, <3>1, <1>1, <1>2, <1>3, ZenonT(40)
  <2>3. CASE f # e /\ exec[f].plan # p
    BY <2>3, <1>1, <1>2, <1>6, <1>t DEF Consistent
  <2> QED
    BY <2>1, <2>2, <2>3
<1> QED
  BY <1>8, <1>9, <1>10 DEF Typed, Consistent

(* The plan of an execution, and its copy where it stands.                 *)
LEMMA ExecTyped ==
  ASSUME TypeOK, NEW e \in Execs, exec[e] # Idle
  PROVE  /\ exec[e] \in Copies /\ exec[e].plan \in Plans
         /\ tasks[exec[e].plan] \in Seq(Statuses)
         /\ Len(tasks[exec[e].plan]) \in Nat
         /\ DOMAIN tasks[exec[e].plan] = 1..Len(tasks[exec[e].plan])
<1>1. exec[e] \in Copies /\ exec[e].plan \in Plans
  BY DEF TypeOK, Copies
<1> QED
  BY <1>1, LenProperties DEF TypeOK

LEMMA RestIsOfPlan ==
  ASSUME TypeOK, NEW e \in Execs, exec[e] # Idle, NEW k \in Rest(exec[e])
  PROVE  /\ k \in DOMAIN tasks[exec[e].plan] /\ k \in Nat \ {0}
         /\ exec[e].idx <= k
         /\ tasks[exec[e].plan][k] \notin {"completed", "skipped"}
BY ExecTyped DEF Rest, Copies

LEMMA WorkTyped ==
  ASSUME Typed, NEW e \in Execs, Work(e)
  PROVE  Typed'
<1>t. TypeOK /\ Consistent
  BY DEF Typed
<1>i. exec[e] # Idle
  BY DEF Work, Idle
<1> DEFINE p == exec[e].plan
<1>1. PICK k \in Rest(exec[e]), outcome \in Statuses :
        /\ Perform(p, k, outcome)
        /\ stored' = IF outcome = "failed" THEN stored
                     ELSE [stored EXCEPT ![p] = Recorded(p, k)]
        /\ exec' = [exec EXCEPT ![e] = After(Passing(exec[e], k), k, outcome)]
  BY Zenon DEF Work
<1> DEFINE c == Passing(exec[e], k)
           a == After(c, k, outcome)
<1>2. p \in Plans /\ k \in DOMAIN tasks[p] /\ k \in Nat \ {0} /\ exec[e] \in Copies
  BY <1>t, <1>i, ExecTyped, RestIsOfPlan
<1>3. c \in Copies /\ c.plan = p /\ c.goal = exec[e].goal /\ c.idx = k
  BY <1>2, PassingIsCopy
<1>4. a \in Copies /\ a.plan = p /\ a.goal = exec[e].goal /\ a.idx \in {k, k + 1}
  BY <1>2, <1>3, AfterIsCopy
<1>5. /\ tasks' = [tasks EXCEPT ![p][k] = outcome]
      /\ proposals' \subseteq Plans
      /\ UNCHANGED <<goals, kind, queue, approval, crashes>>
  BY <1>1, <1>2, <1>t, PerformEffect
<1>6. /\ tasks' \in [Plans -> Seq(Statuses)]
      /\ tasks[p] # << >> /\ k <= Len(tasks[p])
      /\ \A q \in Plans : /\ Len(tasks'[q]) = Len(tasks[q])
                          /\ tasks'[q] = << >> <=> tasks[q] = << >>
  BY <1>2, <1>5, <1>t, SetStatusEffect
<1>7. stored[p].status # "absent" /\ exec[e].goal = stored[p].goal
  BY <1>i, <1>t DEF Consistent
<1>8. /\ Recorded(p, k) \in Records /\ Recorded(p, k).goal = stored[p].goal
      /\ Recorded(p, k).status = stored[p].status
  BY <1>2, <1>7, <1>t, RecordedRecord
<1> HIDE DEF p, c, a
<1>9. /\ stored' \in [Plans -> Records]
      /\ \A q \in Plans : /\ stored'[q].goal = stored[q].goal
                          /\ stored'[q].status = stored[q].status
                          /\ q # p => stored'[q] = stored[q]
  BY <1>1, <1>2, <1>8, <1>t DEF TypeOK, p
<1>10. exec' = [exec EXCEPT ![e] = a] /\ exec \in [Execs -> {Idle} \union Copies]
  BY <1>1, <1>t DEF TypeOK, a, c
<1>11. TypeOK'
  <2>1. queue' \in Seq(Plans) /\ \A i \in DOMAIN queue' : tasks'[queue'[i]] # << >>
    <3>1. \A i \in DOMAIN queue : queue[i] \in Plans
      BY <1>t, LenProperties, ElementOfSeq DEF TypeOK
    <3> QED BY <1>5, <1>6, <1>t, <3>1 DEF TypeOK
  <2>2. \A f \in Execs :
          exec'[f] # Idle => exec'[f].idx <= Len(tasks'[exec'[f].plan]) + 1
    <3> TAKE f \in Execs
    <3>1. Len(tasks[p]) \in Nat
      BY <1>i, <1>t, ExecTyped DEF p
    <3>2. CASE f = e
      BY <1>2, <1>4, <1>6, <1>10, <3>1, <3>2
    <3>3. CASE f # e
      BY <1>6, <1>10, <1>t, <3>3 DEF TypeOK, Copies
    <3> QED BY <3>2, <3>3
  <2>3. exec' \in [Execs -> {Idle} \union Copies]
    BY <1>4, <1>10
  <2> QED
    BY <1>5, <1>6, <1>9, <1>t, <2>1, <2>2, <2>3 DEF TypeOK
<1>12. \A q \in Plans :
        /\ tasks'[q] # << >> => kind'[q].template # "none"
        /\ stored'[q].status # "absent" => kind'[q].template # "none"
        /\ stored'[q].status = "absent" => stored'[q] = Absent
  BY <1>5, <1>6, <1>7, <1>9, <1>t DEF Consistent
<1>13. \A f \in Execs : exec'[f] # Idle =>
         /\ tasks'[exec'[f].plan] # << >>
         /\ stored'[exec'[f].plan].status # "absent"
         /\ exec'[f].goal = stored'[exec'[f].plan].goal
  <2> TAKE f \in Execs
  <2>1. CASE f = e
    BY <2>1, <1>2, <1>4, <1>6, <1>7, <1>9, <1>10
  <2>2. CASE f # e
    <3>1. exec'[f] = exec[f] /\ (exec[f] # Idle => exec[f].plan \in Plans)
      BY <2>2, <1>10 DEF Copies
    <3> QED BY <3>1, <1>6, <1>9, <1>t DEF Consistent
  <2> QED
    BY <2>1, <2>2
<1> QED
  BY <1>11, <1>12, <1>13 DEF Typed, Consistent

(* Executions that end, or are lost, with a report on a plan or without.   *)
LEMMA EndTyped ==
  ASSUME Typed, EndsOnly,
         stored' \in [Plans -> Records], \A p \in Plans : KeepsRecord(p),
         goals' \in [Goals -> {"absent", "active", "completed"}],
         proposals' \subseteq Plans,
         approval' \in [Plans -> {"none", "given", "withdrawn"}],
         crashes' \in 0..MaxCrashes,
         UNCHANGED <<kind, tasks, queue>>
  PROVE  Typed'
<1>t. TypeOK /\ Consistent
  BY DEF Typed
<1>1. Consistent'
  BY <1>t, StillConsistent DEF Consistent
<1>2. TypeOK'
  <2>1. /\ exec' \in [Execs -> {Idle} \union Copies]
        /\ \A e \in Execs : exec'[e] # Idle => exec'[e] = exec[e]
    BY <1>t, EndsOnlyEffect
  <2>2. \A e \in Execs :
          exec'[e] # Idle => exec'[e].idx <= Len(tasks'[exec'[e].plan]) + 1
    BY <1>t, <2>1 DEF TypeOK
  <2> QED
    BY <1>t, <2>1, <2>2 DEF TypeOK
<1> QED
  BY <1>1, <1>2 DEF Typed

LEMMA LastPassingIsCopy ==
  ASSUME TypeOK, NEW e \in Execs, exec[e] # Idle
  PROVE  LET n == Len(tasks[exec[e].plan]) + 1
             c == Passing(exec[e], n)
         IN  /\ n \in Nat \ {0} /\ c \in Copies
             /\ c.plan = exec[e].plan /\ c.goal = exec[e].goal
             /\ c.plan \in Plans /\ c.goal \in Goals \union {NoGoal}
             /\ c.proposal \in BOOLEAN
<1>1. exec[e] \in Copies /\ Len(tasks[exec[e].plan]) + 1 \in Nat \ {0}
  BY ExecTyped
<1>2. LET c == Passing(exec[e], Len(tasks[exec[e].plan]) + 1)
      IN  c \in Copies /\ c.plan = exec[e].plan /\ c.goal = exec[e].goal
  BY <1>1, PassingIsCopy
<1> QED
  BY <1>1, <1>2 DEF Copies

LEMMA FinishTyped ==
  ASSUME Typed, NEW e \in Execs, Finish(e)
  PROVE  Typed'
<1> DEFINE c == Passing(exec[e], Len(tasks[exec[e].plan]) + 1)
<1>t. TypeOK /\ Consistent /\ exec[e] # Idle
  BY DEF Typed, Finish, Idle
<1>1. /\ c \in Copies /\ c.plan = exec[e].plan /\ c.goal = exec[e].goal
      /\ c.plan \in Plans /\ c.goal \in Goals \union {NoGoal}
      /\ c.proposal \in BOOLEAN
  BY <1>t, LastPassingIsCopy
<1> DEFINE r == Report(c, Verdict(c), c.proposal)
<1>2. /\ stored' = [stored EXCEPT ![c.plan] = r]
      /\ goals' = IF Verdict(c) = "plan_finished" /\ c.goal # NoGoal
                  THEN [goals EXCEPT ![c.goal] = "completed"] ELSE goals
      /\ exec' = [exec EXCEPT ![e] = Idle]
      /\ UNCHANGED <<kind, tasks, queue, proposals, approval, crashes>>
  BY DEF Finish
<1>3. /\ r \in Records /\ r.goal = c.goal
      /\ r.status \in {"plan_finished", "partial", "failed"}
  <2>1. Verdict(c) \in {"plan_finished", "partial", "failed"}
    BY VerdictOfCopy
  <2>2. Verdict(c) \in {"tasks_completed", "plan_finished", "partial", "failed"}
    BY <2>1
  <2> HIDE DEF c
  <2>3. r \in Records /\ r.status = Verdict(c) /\ r.goal = c.goal
    BY <1>1, <2>2, ReportIsRecord, ZenonT(40)
  <2> QED
    BY <2>1, <2>3
<1>4. /\ stored[c.plan].status # "absent" /\ c.goal = stored[c.plan].goal
      /\ kind[c.plan].template # "none"
  BY <1>1, <1>t DEF Consistent
<1> HIDE DEF c, r
<1>5. EndsOnly /\ stored' \in [Plans -> Records] /\ \A p \in Plans : KeepsRecord(p)
  BY <1>t, <1>1, <1>2, <1>3, <1>4 DEF TypeOK, KeepsRecord, EndsOnly
<1>6. /\ goals' \in [Goals -> {"absent", "active", "completed"}]
      /\ proposals' \subseteq Plans /\ crashes' \in 0..MaxCrashes
      /\ approval' \in [Plans -> {"none", "given", "withdrawn"}]
  BY <1>t, <1>1, <1>2 DEF TypeOK
<1> QED
  BY <1>2, <1>5, <1>6, EndTyped

LEMMA FailTyped ==
  ASSUME Typed, NEW e \in Execs, Fail(e)
  PROVE  Typed'
<1> DEFINE c == exec[e]
           b == c.proposal \/ HasResult(c.plan)
           r == Report(c, "failed", b)
<1>t. TypeOK /\ Consistent /\ exec[e] # Idle
  BY DEF Typed, Fail, Idle
<1>1. c \in Copies /\ c.plan \in Plans /\ b \in BOOLEAN
  BY <1>t, ExecTyped
<1>2. /\ stored' = [stored EXCEPT ![c.plan] = r]
      /\ exec' = [exec EXCEPT ![e] = Idle]
      /\ UNCHANGED <<goals, kind, tasks, queue, proposals, approval, crashes>>
  BY DEF Fail
<1>3. r \in Records /\ r.goal = c.goal /\ r.status = "failed"
  BY <1>1, ReportIsRecord
<1>4. /\ stored[c.plan].status # "absent" /\ c.goal = stored[c.plan].goal
      /\ kind[c.plan].template # "none"
  BY <1>1, <1>t DEF Consistent
<1> HIDE DEF c, r, b
<1>5. EndsOnly /\ stored' \in [Plans -> Records] /\ \A p \in Plans : KeepsRecord(p)
  BY <1>t, <1>1, <1>2, <1>3, <1>4 DEF TypeOK, KeepsRecord, EndsOnly
<1>6. /\ goals' \in [Goals -> {"absent", "active", "completed"}]
      /\ proposals' \subseteq Plans /\ crashes' \in 0..MaxCrashes
      /\ approval' \in [Plans -> {"none", "given", "withdrawn"}]
  BY <1>t, <1>2 DEF TypeOK
<1> QED
  BY <1>2, <1>5, <1>6, EndTyped

LEMMA CrashInFinishTyped ==
  ASSUME Typed, NEW e \in Execs, CrashInFinish(e)
  PROVE  Typed'
<1> DEFINE c == Passing(exec[e], Len(tasks[exec[e].plan]) + 1)
<1>t. TypeOK /\ Consistent /\ exec[e] # Idle
  BY DEF Typed, CrashInFinish, Idle
<1>1. /\ c \in Copies /\ c.plan = exec[e].plan /\ c.goal = exec[e].goal
      /\ c.plan \in Plans /\ c.proposal \in BOOLEAN
  BY <1>t, LastPassingIsCopy
<1>2. PICK status \in {"tasks_completed", "plan_finished"} :
        stored' = [stored EXCEPT ![c.plan] = Report(c, status, c.proposal)]
  BY DEF CrashInFinish
<1> DEFINE r == Report(c, status, c.proposal)
<1>3. r \in Records /\ r.goal = c.goal /\ r.status # "absent"
  <2>1. status \in {"tasks_completed", "plan_finished", "partial", "failed"}
    OBVIOUS
  <2> HIDE DEF c
  <2>2. r \in Records /\ r.status = status /\ r.goal = c.goal
    BY <1>1, <2>1, ReportIsRecord, ZenonT(40)
  <2> QED
    BY <2>2
<1>4. /\ stored[c.plan].status # "absent" /\ c.goal = stored[c.plan].goal
      /\ kind[c.plan].template # "none"
  BY <1>1, <1>t DEF Consistent
<1>5. /\ exec' = [f \in Execs |-> Idle] /\ crashes' \in 0..MaxCrashes
      /\ UNCHANGED <<goals, kind, tasks, queue, proposals, approval>>
  BY <1>t, GoalAssumption DEF CrashInFinish, Dies, TypeOK
<1> HIDE DEF c, r
<1>6. stored' = [stored EXCEPT ![c.plan] = r]
  BY <1>2 DEF r
<1>7. EndsOnly /\ stored' \in [Plans -> Records] /\ \A p \in Plans : KeepsRecord(p)
  BY <1>t, <1>1, <1>3, <1>4, <1>5, <1>6 DEF TypeOK, KeepsRecord, EndsOnly
<1>8. /\ goals' \in [Goals -> {"absent", "active", "completed"}]
      /\ proposals' \subseteq Plans
      /\ approval' \in [Plans -> {"none", "given", "withdrawn"}]
  BY <1>t, <1>5 DEF TypeOK
<1> QED
  BY <1>5, <1>7, <1>8, EndTyped

(* Steps that only set the status of one task.                             *)
LEMMA StatusTyped ==
  ASSUME Typed, NEW p \in Plans, NEW k \in DOMAIN tasks[p], NEW s \in Statuses,
         tasks' = [tasks EXCEPT ![p][k] = s],
         EndsOnly, proposals' \subseteq Plans, crashes' \in 0..MaxCrashes,
         UNCHANGED <<goals, kind, stored, queue, approval>>
  PROVE  Typed'
<1>t. TypeOK /\ Consistent
  BY DEF Typed
<1>1. /\ tasks' \in [Plans -> Seq(Statuses)]
      /\ \A q \in Plans : /\ Len(tasks'[q]) = Len(tasks[q])
                          /\ tasks'[q] = << >> <=> tasks[q] = << >>
  BY <1>t, SetStatusEffect
<1>2. \A q \in Plans : KeepsRecord(q)
  BY DEF KeepsRecord
<1>3. Consistent'
  BY <1>t, <1>1, <1>2, StillConsistent DEF Consistent
<1>4. TypeOK'
  <2>1. queue' \in Seq(Plans) /\ \A i \in DOMAIN queue' : tasks'[queue'[i]] # << >>
    <3>1. \A i \in DOMAIN queue : queue[i] \in Plans
      BY <1>t, LenProperties, ElementOfSeq DEF TypeOK
    <3> QED BY <1>1, <1>t, <3>1 DEF TypeOK
  <2>2. /\ exec' \in [Execs -> {Idle} \union Copies]
        /\ \A e \in Execs : exec'[e] # Idle => exec'[e] = exec[e]
    BY <1>t, EndsOnlyEffect
  <2>3. \A e \in Execs :
          exec'[e] # Idle => exec'[e].idx <= Len(tasks'[exec'[e].plan]) + 1
    BY <1>1, <1>t, <2>2 DEF TypeOK, Copies
  <2> QED
    BY <1>1, <1>t, <2>1, <2>2, <2>3 DEF TypeOK
<1> QED
  BY <1>3, <1>4 DEF Typed

LEMMA MarkTyped == Typed /\ Mark => Typed'
<1> SUFFICES ASSUME Typed, Mark PROVE Typed'
  OBVIOUS
<1>1. PICK p \in Plans, s \in Manual : \E k \in DOMAIN tasks[p] :
        tasks' = [tasks EXCEPT ![p][k] = s]
  BY DEF Mark
<1>2. PICK k \in DOMAIN tasks[p] : tasks' = [tasks EXCEPT ![p][k] = s]
  BY <1>1
<1>3. s \in Statuses
  BY GoalAssumption
<1>4. /\ EndsOnly /\ proposals' \subseteq Plans /\ crashes' \in 0..MaxCrashes
      /\ UNCHANGED <<goals, kind, stored, queue, approval>>
  BY DEF Mark, EndsOnly, Typed, TypeOK
<1> QED
  BY <1>2, <1>3, <1>4, StatusTyped

LEMMA CrashInTaskTyped ==
  ASSUME Typed, NEW p \in Plans, CrashInTask(p)
  PROVE  Typed'
<1>1. PICK k \in DOMAIN tasks[p] :
        /\ Dies
        /\ tasks' = [tasks EXCEPT ![p][k] = "in_progress"]
        /\ proposals' = proposals \/ proposals' = proposals \union {p}
        /\ UNCHANGED <<goals, kind, stored, attached, queue, approval, finished>>
  BY DEF CrashInTask
<1>2. "in_progress" \in Statuses
  BY DEF Statuses
<1>3. EndsOnly /\ proposals' \subseteq Plans /\ crashes' \in 0..MaxCrashes
  BY <1>1, GoalAssumption DEF Dies, EndsOnly, Typed, TypeOK
<1> QED
  BY <1>1, <1>2, <1>3, StatusTyped

(* Steps that make tasks for a plan and start nothing.                     *)
LEMMA TasksMadeTyped ==
  ASSUME Typed, NEW p \in Plans, NEW t \in Kinds, CreateTasks(p, t),
         MakesKind(p, t),
         MakesRecord(p),
         EndsOnly,
         goals' \in [Goals -> {"absent", "active", "completed"}],
         approval' \in [Plans -> {"none", "given", "withdrawn"}],
         crashes' \in 0..MaxCrashes, UNCHANGED proposals
  PROVE  Typed'
<1>m. /\ kind' \in [Plans -> [template : Kinds \union {"none"}, flagged : BOOLEAN]]
      /\ kind'[p].template = t
      /\ \A q \in Plans : kind[q].template # "none" \/ q # p => kind'[q] = kind[q]
  BY DEF MakesKind
<1>r. /\ stored' \in [Plans -> Records]
      /\ \A q \in Plans : q # p \/ stored[q].status # "absent" => stored'[q] = stored[q]
      /\ stored'[p] = stored[p] \/ stored'[p].status # "absent"
  BY DEF MakesRecord
<1>t. TypeOK /\ Consistent
  BY DEF Typed
<1>k. t # "none"
  BY GoalAssumption DEF Templates
<1>1. /\ tasks' \in [Plans -> Seq(Statuses)]
      /\ \A q \in Plans : tasks[q] # << >> => tasks'[q] = tasks[q]
      /\ \A q \in Plans : q # p => tasks'[q] = tasks[q]
      /\ tasks'[p] # << >>
      /\ tasks[p] = << >> => Len(tasks'[p]) = Profile(t, FALSE).steps
      /\ queue' \in Seq(Plans)
      /\ \A i \in DOMAIN queue' : tasks'[queue'[i]] # << >>
  BY <1>t, CreateTasksEffect
<1>2. \A q \in Plans :
        tasks'[q] # << >> => Len(tasks'[q]) = Profile(kind'[q].template, FALSE).steps
  <2> TAKE q \in Plans
  <2>1. CASE tasks[q] # << >>
    <3>1. kind[q].template # "none"
      BY <1>t, <2>1 DEF Consistent
    <3>2. kind'[q] = kind[q]
      BY <1>m, <3>1
    <3> QED
      BY <1>1, <1>t, <2>1, <3>2 DEF TypeOK
  <2>2. CASE tasks[q] = << >> /\ q # p
    BY <1>1, <2>2
  <2>3. CASE tasks[q] = << >> /\ q = p
    BY <1>1, <1>m, <2>3
  <2> QED
    BY <2>1, <2>2, <2>3
<1>3. /\ exec' \in [Execs -> {Idle} \union Copies]
      /\ \A e \in Execs : exec'[e] # Idle => exec'[e] = exec[e]
  BY <1>t, EndsOnlyEffect
<1>4. \A e \in Execs : exec'[e] # Idle =>
        /\ exec'[e] = exec[e] /\ exec[e].plan \in Plans
        /\ tasks[exec[e].plan] # << >> /\ tasks'[exec[e].plan] = tasks[exec[e].plan]
        /\ stored[exec[e].plan].status # "absent"
        /\ stored'[exec[e].plan] = stored[exec[e].plan]
  BY <1>1, <1>3, <1>r, <1>t DEF TypeOK, Consistent, Copies
<1>5. TypeOK'
  <2>1. \A e \in Execs :
          exec'[e] # Idle => exec'[e].idx <= Len(tasks'[exec'[e].plan]) + 1
    BY <1>4, <1>t DEF TypeOK
  <2> QED
    BY <1>1, <1>2, <1>3, <1>m, <1>r, <1>t, <2>1 DEF TypeOK
<1>6. \A q \in Plans :
        /\ tasks'[q] # << >> => kind'[q].template # "none"
        /\ stored'[q].status # "absent" => kind'[q].template # "none"
        /\ stored'[q].status = "absent" => stored'[q] = Absent
  <2> TAKE q \in Plans
  <2>1. CASE q = p
    BY <2>1, <1>k, <1>m, <1>r, <1>t DEF Consistent
  <2>2. CASE q # p
    BY <2>2, <1>1, <1>m, <1>r, <1>t, ZenonT(40) DEF Consistent
  <2> QED
    BY <2>1, <2>2
<1>7. \A e \in Execs : exec'[e] # Idle =>
        /\ tasks'[exec'[e].plan] # << >>
        /\ stored'[exec'[e].plan].status # "absent"
        /\ exec'[e].goal = stored'[exec'[e].plan].goal
  BY <1>4, <1>t DEF Consistent
<1> QED
  BY <1>5, <1>6, <1>7 DEF Typed, Consistent

LEMMA NewPlanEffect ==
  ASSUME Typed, NEW p \in Plans, NEW t \in Kinds, NEW f \in BOOLEAN, NewPlan(p, t, f)
  PROVE  /\ MakesKind(p, t)
         /\ kind[p].template = "none"
         /\ stored[p].status = "absent" /\ stored[p] = Absent /\ tasks[p] = << >>
         /\ \A e \in Execs : exec[e] # Idle => exec[e].plan # p
<1>1. kind[p].template = "none" /\ t \in Kinds \union {"none"}
  BY DEF NewPlan
<1>2. /\ kind' \in [Plans -> [template : Kinds \union {"none"}, flagged : BOOLEAN]]
      /\ kind'[p].template = t
      /\ \A q \in Plans : q # p => kind'[q] = kind[q]
  <2>1. [template |-> t, flagged |-> f]
          \in [template : Kinds \union {"none"}, flagged : BOOLEAN]
    BY <1>1
  <2> QED
    BY <2>1 DEF Typed, TypeOK, NewPlan
<1>3. stored[p].status = "absent" /\ stored[p] = Absent /\ tasks[p] = << >>
  BY <1>1 DEF Typed, Consistent
<1>4. \A e \in Execs : exec[e] # Idle => exec[e].plan # p
  BY <1>3 DEF Typed, Consistent
<1> QED
  <2>1. MakesKind(p, t)
    BY <1>1, <1>2 DEF MakesKind
  <2> QED
    BY <1>1, <1>3, <1>4, <2>1

LEMMA KindOfPlan ==
  ASSUME Typed, NEW p \in Plans, kind[p].template # "none"
  PROVE  kind[p].template \in Kinds
BY DEF Typed, TypeOK

LEMMA RunGoalTyped ==
  ASSUME Typed, NEW p \in Plans, RunGoal(p)
  PROVE  Typed'
<1>1. PICK g \in Goals, t \in Kinds, f \in BOOLEAN :
        LET decision == Decision(Profile(t, f), FALSE)
            auto == decision = "auto_execute"
            r == [status |-> IF decision = "blocked" THEN "blocked_by_risk"
                             ELSE "approval_required",
                  approved |-> auto, proposal |-> FALSE, goal |-> g]
        IN  /\ GoalFor(g) /\ goals' = [goals EXCEPT ![g] = "active"]
            /\ NewPlan(p, t, f)
            /\ CreateTasks(p, t)
            /\ \/ auto /\ \E e \in Execs : Start(e, p, r)
               \/ ~auto /\ stored' = [stored EXCEPT ![p] = r] /\ UNCHANGED exec
            /\ approval' = [approval EXCEPT ![p] = IF auto THEN "given" ELSE @]
            /\ UNCHANGED <<attached, proposals, finished, crashes>>
  BY Zenon DEF RunGoal
<1> DEFINE auto == Decision(Profile(t, f), FALSE) = "auto_execute"
           r == [status |-> IF Decision(Profile(t, f), FALSE) = "blocked"
                            THEN "blocked_by_risk" ELSE "approval_required",
                 approved |-> auto, proposal |-> FALSE, goal |-> g]
<1>2. /\ NewPlan(p, t, f) /\ CreateTasks(p, t)
      /\ goals' = [goals EXCEPT ![g] = "active"]
      /\ \/ \E e \in Execs : Start(e, p, r)
         \/ stored' = [stored EXCEPT ![p] = r] /\ UNCHANGED exec
      /\ approval' = [approval EXCEPT ![p] = IF auto THEN "given" ELSE @]
      /\ UNCHANGED <<attached, proposals, finished, crashes>>
  BY <1>1
<1>3. r \in Records /\ r.status # "absent"
  BY DEF Records, Terminal
<1> HIDE DEF auto, r
<1>4. /\ goals' \in [Goals -> {"absent", "active", "completed"}]
      /\ approval' \in [Plans -> {"none", "given", "withdrawn"}]
      /\ crashes' \in 0..MaxCrashes
  BY <1>2 DEF Typed, TypeOK
<1>5. MakesKind(p, t) /\ stored[p].status = "absent"
  BY <1>2, NewPlanEffect
<1>6. ASSUME NEW e \in Execs, Start(e, p, r) PROVE Typed'
  BY <1>2, <1>3, <1>4, <1>5, <1>6, StartTyped
<1>7. CASE stored' = [stored EXCEPT ![p] = r] /\ UNCHANGED exec
  <2>1. MakesRecord(p) /\ EndsOnly
    BY <1>3, <1>5, <1>7 DEF Typed, TypeOK, EndsOnly, MakesRecord
  <2> QED
    BY <1>2, <1>4, <1>5, <2>1, TasksMadeTyped
<1> QED
  BY <1>2, <1>6, <1>7

LEMMA CrashInRunGoalTyped ==
  ASSUME Typed, NEW p \in Plans, CrashInRunGoal(p)
  PROVE  Typed'
<1>1. PICK g \in Goals, t \in Kinds, f \in BOOLEAN :
        /\ Dies
        /\ GoalFor(g) /\ goals' = [goals EXCEPT ![g] = "active"]
        /\ NewPlan(p, t, f)
        /\ CreateTasks(p, t)
        /\ UNCHANGED <<stored, attached, proposals, approval, finished>>
  BY Zenon DEF CrashInRunGoal
<1>2. /\ goals' \in [Goals -> {"absent", "active", "completed"}]
      /\ approval' \in [Plans -> {"none", "given", "withdrawn"}]
      /\ crashes' \in 0..MaxCrashes /\ EndsOnly
      /\ MakesRecord(p)
  BY <1>1, GoalAssumption DEF Typed, TypeOK, Dies, EndsOnly, MakesRecord
<1>3. MakesKind(p, t)
  BY <1>1, NewPlanEffect
<1> QED
  BY <1>1, <1>2, <1>3, TasksMadeTyped

LEMMA ExecuteTyped ==
  ASSUME Typed, NEW p \in Plans, ExecuteApproved(p) \/ ExecuteCommand(p)
  PROVE  Typed'
<1> DEFINE r == IF ExecuteApproved(p) THEN [stored[p] EXCEPT !.approved = TRUE] ELSE stored[p]
<1>1. /\ CreateTasks(p, kind[p].template)
      /\ UNCHANGED <<goals, kind, proposals, crashes>>
      /\ \E e \in Execs : Start(e, p, r)
  BY DEF ExecuteApproved, ExecuteCommand
<1>2. /\ stored[p] \in Records
      /\ stored[p].status # "absent"
  BY DEF ExecuteApproved, ExecuteCommand, Exists, Typed, TypeOK, Consistent, Absent
<1>3. r \in Records /\ r.goal = stored[p].goal
  BY <1>2 DEF Records
<1> HIDE DEF r
<1>4. kind[p].template \in Kinds
  BY <1>2, KindOfPlan DEF Typed, Consistent
<1>5. /\ approval' \in [Plans -> {"none", "given", "withdrawn"}]
      /\ goals' \in [Goals -> {"absent", "active", "completed"}]
  BY <1>1 DEF ExecuteApproved, ExecuteCommand, Typed, TypeOK
<1>7. MakesKind(p, kind[p].template)
  BY <1>1, SameKind
<1>6. PICK e \in Execs : Start(e, p, r)
  BY <1>1
<1> QED
  BY <1>1, <1>3, <1>4, <1>5, <1>6, <1>7, StartTyped

LEMMA GenerateTyped ==
  ASSUME Typed, NEW p \in Plans, GenerateTasks(p)
  PROVE  Typed'
<1>1. kind[p].template \in Kinds
  BY KindOfPlan DEF GenerateTasks, Typed, Consistent
<1>2. /\ CreateTasks(p, kind[p].template)
      /\ UNCHANGED <<goals, kind, stored, proposals, approval, crashes>>
      /\ EndsOnly /\ MakesRecord(p)
      /\ goals' \in [Goals -> {"absent", "active", "completed"}]
      /\ approval' \in [Plans -> {"none", "given", "withdrawn"}]
      /\ crashes' \in 0..MaxCrashes
  BY DEF GenerateTasks, EndsOnly, MakesRecord, Typed, TypeOK
<1>3. MakesKind(p, kind[p].template)
  BY <1>2, SameKind
<1> QED
  BY <1>1, <1>2, <1>3, TasksMadeTyped

LEMMA RouteTyped ==
  ASSUME Typed, NEW p \in Plans, Approve(p) \/ Refuse(p) \/ ExecuteRoute(p)
  PROVE  Typed'
<1>1. stored[p].status # "absent" /\ kind[p].template # "none" /\ stored[p] \in Records
  BY DEF Approve, Refuse, ExecuteRoute, Exists, Typed, TypeOK, Consistent
<1>2. /\ UNCHANGED <<goals, kind, tasks, queue, exec, crashes>>
      /\ proposals' \subseteq Plans
      /\ approval' \in [Plans -> {"none", "given", "withdrawn"}]
  BY DEF Approve, Refuse, ExecuteRoute, Typed, TypeOK
<1>3. /\ stored'[p] \in Records /\ stored'[p].status # "absent"
      /\ stored'[p].goal = stored[p].goal
      /\ \A q \in Plans : q # p => stored'[q] = stored[q]
      /\ stored' \in [Plans -> Records]
  <2>1. CASE Approve(p)
    BY <2>1, <1>1 DEF Approve, Typed, TypeOK, Records
  <2>2. CASE Refuse(p)
    BY <2>2, <1>1 DEF Refuse, Typed, TypeOK, Records, Terminal
  <2>3. CASE ExecuteRoute(p)
    <3>1. PICK status \in {"blocked_by_risk", "approval_required", "failed",
                           "plan_finished"} :
            stored' = [stored EXCEPT ![p].status = status]
      BY <2>3 DEF ExecuteRoute
    <3> QED
      BY <3>1, <1>1 DEF Typed, TypeOK, Records, Terminal
  <2> QED BY <2>1, <2>2, <2>3
<1>4. \A q \in Plans : KeepsRecord(q)
  BY <1>1, <1>3 DEF KeepsRecord
<1>5. /\ EndsOnly /\ goals' \in [Goals -> {"absent", "active", "completed"}]
      /\ crashes' \in 0..MaxCrashes
  BY <1>2 DEF EndsOnly, Typed, TypeOK
<1> QED
  BY <1>2, <1>3, <1>4, <1>5, EndTyped

LEMMA SyncAllTyped == Typed /\ SyncAll => Typed'
<1> SUFFICES ASSUME Typed, SyncAll PROVE Typed'
  OBVIOUS
<1>t. TypeOK /\ Consistent
  BY DEF Typed
<1>1. \A p \in Plans : stored[p] \in Records /\ HasResult(p) \in BOOLEAN
  BY <1>t DEF TypeOK, HasResult
<1>2. \A p \in Plans : LET s == Synced(stored[p], tasks[p], HasResult(p))
                     IN  /\ s \in Records /\ s.goal = stored[p].goal
                         /\ s.status = "absent" <=> stored[p].status = "absent"
                         /\ stored[p].status = "absent" => s = stored[p]
  BY <1>1, SyncedRecord
<1>3. stored' \in [Plans -> Records]
  BY <1>2 DEF SyncAll
<1>4. \A p \in Plans : KeepsRecord(p)
  BY <1>2, <1>t DEF SyncAll, KeepsRecord, Consistent
<1>5. /\ EndsOnly /\ goals' \in [Goals -> {"absent", "active", "completed"}]
      /\ proposals' \subseteq Plans
      /\ approval' \in [Plans -> {"none", "given", "withdrawn"}]
      /\ crashes' \in 0..MaxCrashes /\ UNCHANGED <<kind, tasks, queue>>
  BY <1>t DEF SyncAll, EndsOnly, TypeOK
<1> QED
  BY <1>3, <1>4, <1>5, EndTyped

LEMMA CreatePlanTyped ==
  ASSUME Typed, NEW p \in Plans, CreatePlan(p)
  PROVE  Typed'
<1>1. PICK t \in Kinds, f \in BOOLEAN : NewPlan(p, t, f)
  BY DEF CreatePlan
<1>2. /\ stored' = [stored EXCEPT ![p] = [Absent EXCEPT !.status = "pending"]]
      /\ UNCHANGED <<goals, tasks, queue, proposals, exec, approval, crashes>>
  BY DEF CreatePlan
<1>3. /\ MakesKind(p, t) /\ stored[p].status = "absent" /\ tasks[p] = << >>
      /\ \A e \in Execs : exec[e] # Idle => exec[e].plan # p
  BY <1>1, NewPlanEffect
<1>t. TypeOK /\ Consistent
  BY DEF Typed
<1>m. /\ kind' \in [Plans -> [template : Kinds \union {"none"}, flagged : BOOLEAN]]
      /\ kind'[p].template = t /\ t # "none"
      /\ \A q \in Plans : q # p => kind'[q] = kind[q]
  BY <1>3, GoalAssumption DEF MakesKind, Templates
<1>4. /\ stored' \in [Plans -> Records] /\ stored'[p].status = "pending"
      /\ \A q \in Plans : q # p => stored'[q] = stored[q]
  BY <1>2, <1>t DEF TypeOK, Records, Absent
<1>5. TypeOK'
  <2>1. \A q \in Plans :
          tasks'[q] # << >> => Len(tasks'[q]) = Profile(kind'[q].template, FALSE).steps
    BY <1>2, <1>3, <1>m, <1>t DEF TypeOK
  <2> QED
    BY <1>2, <1>4, <1>m, <1>t, <2>1 DEF TypeOK
<1>6. \A q \in Plans :
        /\ tasks'[q] # << >> => kind'[q].template # "none"
        /\ stored'[q].status # "absent" => kind'[q].template # "none"
        /\ stored'[q].status = "absent" => stored'[q] = Absent
  BY <1>2, <1>4, <1>m, <1>t DEF Consistent
<1>7. \A e \in Execs : exec[e] # Idle => exec[e].plan \in Plans /\ exec[e].plan # p
  BY <1>3, <1>t DEF TypeOK, Copies
<1>8. \A e \in Execs : exec'[e] # Idle =>
        /\ tasks'[exec'[e].plan] # << >>
        /\ stored'[exec'[e].plan].status # "absent"
        /\ exec'[e].goal = stored'[exec'[e].plan].goal
  BY <1>2, <1>4, <1>7, <1>t DEF Consistent
<1> QED
  BY <1>5, <1>6, <1>8 DEF Typed, Consistent

(* The task a request works on, if it is the next one or a given one.      *)
LEMMA WhichTask ==
  ASSUME Typed, ExecuteNext \/ ExecuteTask
  PROVE  \E p \in Plans : \E k \in DOMAIN tasks[p] : RunTask(p, k)
<1>1. \A i \in DOMAIN queue : queue[i] \in Plans
  BY LenProperties, ElementOfSeq DEF Typed, TypeOK
<1> QED
  BY <1>1 DEF ExecuteNext, ExecuteTask

LEMMA TypedStep == Typed /\ [Next]_vars => Typed'
<1> SUFFICES ASSUME Typed, [Next]_vars PROVE Typed'
  OBVIOUS
<1>1. ASSUME NEW e \in Execs, Work(e) \/ Finish(e) \/ Fail(e) \/ CrashInFinish(e)
      PROVE  Typed'
  BY <1>1, WorkTyped, FinishTyped, FailTyped, CrashInFinishTyped
<1>2. ASSUME NEW p \in Plans, Request(p) \/ CrashInRunGoal(p) \/ CrashInTask(p)
      PROVE  Typed'
  BY <1>2, RunGoalTyped, CreatePlanTyped, GenerateTyped, RouteTyped, ExecuteTyped,
     CrashInRunGoalTyped, CrashInTaskTyped DEF Request
<1>3. CASE ExecuteNext \/ ExecuteTask
  BY <1>3, WhichTask, TaskTyped
<1>4. CASE Mark \/ SyncAll
  BY <1>4, MarkTyped, SyncAllTyped
<1>5. CASE Crash
  <2>1. EndsOnly /\ crashes' \in 0..MaxCrashes
    BY <1>5, GoalAssumption DEF Crash, Dies, EndsOnly, Typed, TypeOK
  <2>2. /\ stored' \in [Plans -> Records] /\ proposals' \subseteq Plans
        /\ goals' \in [Goals -> {"absent", "active", "completed"}]
        /\ approval' \in [Plans -> {"none", "given", "withdrawn"}]
        /\ \A p \in Plans : KeepsRecord(p)
        /\ UNCHANGED <<kind, tasks, queue>>
    BY <1>5 DEF Crash, KeepsRecord, Typed, TypeOK
  <2> QED
    BY <2>1, <2>2, EndTyped
<1>6. CASE UNCHANGED vars
  BY <1>6 DEF vars, Typed, TypeOK, Consistent
<1> QED
  BY <1>1, <1>2, <1>3, <1>4, <1>5, <1>6 DEF Next, TaskRequest

(* Every variable of the goal workflow keeps its type, whatever is         *)
(* requested and however often the server dies.                            *)
THEOREM GoalTypeCorrect == Spec => []TypeOK
<1>1. Typed => TypeOK
  BY DEF Typed
<1> QED
  BY TypedInit, TypedStep, <1>1, PTL DEF Spec

-----------------------------------------------------------------------------
(* What the steps do, as far as the invariants below tell.                 *)

(* Record s of plan p after work on one of its tasks, or after a sync.     *)
Follows(p, s) ==
  /\ s \in Records /\ s.goal = stored[p].goal
  /\ s.proposal => \/ stored[p].proposal \/ p \in proposals'
                   \/ \E a \in attached' : a[1] = p
  /\ s.status = "plan_finished" => stored[p].status = "plan_finished"
  /\ s.status = "running" =>
       \/ stored[p].status = "running"
       \/ \E k \in DOMAIN tasks'[p] : tasks'[p][k] = "in_progress"
  /\ stored[p].status # "absent" => s.approved = stored[p].approved
  /\ s.status = "absent" => stored[p].status = "absent"
  /\ stored[p].status = "absent" /\ tasks[p] = << >> => s.status = "absent"

(* Work on task k of plan p with this outcome.                             *)
Worked(p, k, outcome) ==
  /\ outcome \in {"completed", "failed", "skipped"}
  /\ tasks' = [tasks EXCEPT ![p][k] = outcome]
  /\ proposals \subseteq proposals'
  /\ \A a \in attached' : a \in attached \/ (a[1] = p /\ p \in proposals')
  /\ finished' = IF outcome = "completed"
                 THEN finished \union {<<p, k>>} ELSE finished
  /\ UNCHANGED <<goals, kind, queue, approval, crashes>>

LEMMA HasResultMeans ==
  ASSUME NEW p, HasResult(p)
  PROVE  \E a \in attached : a[1] = p
<1>1. PICK j \in DOMAIN tasks[p] : <<p, j>> \in attached
  BY DEF HasResult
<1>2. <<p, j>>[1] = p
  OBVIOUS
<1> QED
  BY <1>1, <1>2

LEMMA RunTaskEffect ==
  ASSUME Typed, NEW p \in Plans, NEW k \in DOMAIN tasks[p], RunTask(p, k)
  PROVE  \E outcome \in Statuses, s \in Records :
           /\ Worked(p, k, outcome) /\ Follows(p, s)
           /\ stored' = [stored EXCEPT ![p] = s]
           /\ UNCHANGED exec
<1>t. TypeOK /\ Consistent
  BY DEF Typed
<1>1. PICK outcome \in Statuses :
        /\ Perform(p, k, outcome)
        /\ stored' = IF outcome = "failed" THEN stored
                     ELSE [stored EXCEPT ![p] =
                             Synced(Recorded(p, k), tasks'[p], HasResult(p)')]
        /\ UNCHANGED exec
  BY DEF RunTask
<1>2. Worked(p, k, outcome)
  BY <1>1, <1>t, PerformEffect DEF Worked
<1>3. tasks[p] # << >>
  BY <1>2, <1>t, SetStatusEffect DEF Worked
<1>4. CASE outcome = "failed"
  <2>1. Follows(p, stored[p])
    BY <1>3, <1>t DEF Follows, TypeOK
  <2>2. stored' = [stored EXCEPT ![p] = stored[p]] /\ stored[p] \in Records
    BY <1>1, <1>4, <1>t DEF TypeOK
  <2> QED
    BY <1>1, <1>2, <2>1, <2>2
<1>5. CASE outcome # "failed"
  <2> DEFINE r == Recorded(p, k)
             b == HasResult(p)'
             s == Synced(r, tasks'[p], b)
  <2>1. /\ r \in Records
        /\ r.goal = stored[p].goal
        /\ r.proposal => stored[p].proposal \/ Proposes(p, k)
        /\ stored[p].status # "absent" =>
             r.status = stored[p].status /\ r.approved = stored[p].approved
        /\ stored[p].status = "absent" => r = Absent \/ r.status = "none"
    BY <1>t, RecordedRecord
  <2>2. b \in BOOLEAN /\ (b => \E a \in attached' : a[1] = p)
    <3>1. HasResult(p)' => \E a \in attached' : a[1] = p
      <4>1. \A a : a = <<p, a[2]>> => a[1] = p
        OBVIOUS
      <4>2. ASSUME NEW j \in DOMAIN tasks'[p], <<p, j>> \in attached'
            PROVE  \E a \in attached' : a[1] = p
        BY <4>2
      <4> QED BY <4>2 DEF HasResult
    <3>2. HasResult(p)' \in BOOLEAN
      BY DEF HasResult
    <3> QED BY <3>1, <3>2
  <2>3. /\ s \in Records
        /\ s.goal = r.goal /\ s.approved = r.approved
        /\ s.status = "absent" <=> r.status = "absent"
        /\ s.proposal => r.proposal \/ b
        /\ s.status = "plan_finished" => s = r
        /\ s.status = "running" =>
             s = r \/ "in_progress" \in {tasks'[p][j] : j \in DOMAIN tasks'[p]}
    BY <2>1, <2>2, SyncedRecord
  <2>4. Proposes(p, k) => p \in proposals'
    BY <1>1, <1>5, <1>t, PerformEffect
  <2> HIDE DEF r, b, s
  <2>5. Absent.status = "absent" /\ Absent.proposal = FALSE
    BY DEF Absent
  <2>6. Follows(p, s)
    BY <1>3, <2>1, <2>2, <2>3, <2>4, <2>5 DEF Follows
  <2>7. stored' = [stored EXCEPT ![p] = s]
    BY <1>1, <1>5 DEF r, b, s
  <2> QED
    BY <1>1, <1>2, <2>3, <2>6, <2>7
<1> QED
  BY <1>4, <1>5

LEMMA SyncAllEffect ==
  ASSUME Typed, SyncAll
  PROVE  \A p \in Plans : Follows(p, stored'[p])
<1>t. TypeOK /\ Consistent
  BY DEF Typed
<1> TAKE p \in Plans
<1> DEFINE s == Synced(stored[p], tasks[p], HasResult(p))
<1>1. stored[p] \in Records /\ HasResult(p) \in BOOLEAN
  BY <1>t DEF TypeOK, HasResult
<1>2. /\ s \in Records
      /\ s.goal = stored[p].goal /\ s.approved = stored[p].approved
      /\ s.status = "absent" <=> stored[p].status = "absent"
      /\ s.proposal => stored[p].proposal \/ HasResult(p)
      /\ s.status = "plan_finished" => s = stored[p]
      /\ s.status = "running" =>
           s = stored[p] \/ "in_progress" \in {tasks[p][j] : j \in DOMAIN tasks[p]}
  BY <1>1, SyncedRecord
<1>3. stored'[p] = s /\ UNCHANGED <<tasks, attached, proposals>>
  BY DEF SyncAll
<1> HIDE DEF s
<1> QED
  BY <1>2, <1>3, HasResultMeans DEF Follows

(* Copy a of execution e, further on: what it has passed since, it has     *)
(* either seen completed or noted as skipped.                              *)
Advances(e, a) ==
  LET c == exec[e]
  IN  /\ a.plan = c.plan /\ a.goal = c.goal
      /\ a.proposal => \/ c.proposal \/ c.plan \in proposals'
                       \/ \E b \in attached : b[1] = c.plan
      /\ ~a.skipped => ~c.skipped
      /\ ~a.skipped => \A j \in c.idx..(a.idx - 1) : tasks'[c.plan][j] = "completed"

LEMMA PassingAdvances ==
  ASSUME TypeOK, NEW e \in Execs, exec[e] # Idle, NEW k \in Nat \ {0},
         k <= Len(tasks[exec[e].plan]) + 1, \A j \in Rest(exec[e]) : k <= j
  PROVE  LET c == exec[e]
             a == Passing(c, k)
         IN  /\ a.proposal => c.proposal \/ \E b \in attached : b[1] = c.plan
             /\ ~a.skipped => ~c.skipped
             /\ ~a.skipped => \A j \in c.idx..(k - 1) : tasks[c.plan][j] = "completed"
<1> DEFINE c == exec[e]
           a == Passing(c, k)
<1>1. /\ c \in Copies /\ c.idx \in Nat \ {0} /\ Len(tasks[c.plan]) \in Nat
  BY ExecTyped DEF Copies
<1>2. \A j \in c.idx..(k - 1) : tasks[c.plan][j] \in {"completed", "skipped"}
  BY <1>1 DEF Rest
<1>3. a.skipped = (c.skipped \/ {j \in c.idx..(k - 1) : tasks[c.plan][j] = "skipped"} # {})
  BY <1>1 DEF Passing, Copies
<1>4. ~a.skipped => ~c.skipped /\ \A j \in c.idx..(k - 1) : tasks[c.plan][j] # "skipped"
  BY <1>3
<1>5. a.proposal => c.proposal \/ \E b \in attached : b[1] = c.plan
  <2>1. a.proposal = (c.proposal \/ \E j \in {i \in c.idx..(k - 1) : tasks[c.plan][i] = "completed"} :
                                      <<c.plan, j>> \in attached)
    BY <1>1 DEF Passing, Copies
  <2>2. ASSUME NEW j, <<c.plan, j>> \in attached
        PROVE  \E b \in attached : b[1] = c.plan
    BY <2>2
  <2> QED
    BY <2>1, <2>2
<1> QED
  BY <1>2, <1>4, <1>5

LEMMA WorkEffect ==
  ASSUME Typed, NEW e \in Execs, Work(e)
  PROVE  /\ exec[e] # Idle
         /\ \E k \in DOMAIN tasks[exec[e].plan], outcome \in Statuses,
               s \in Records, a \in Copies :
              /\ tasks[exec[e].plan][k] \notin {"completed", "skipped"}
              /\ Worked(exec[e].plan, k, outcome) /\ Follows(exec[e].plan, s)
              /\ stored' = [stored EXCEPT ![exec[e].plan] = s]
              /\ exec' = [exec EXCEPT ![e] = a] /\ Advances(e, a)
<1>t. TypeOK /\ Consistent
  BY DEF Typed
<1>i. exec[e] # Idle
  BY DEF Work, Idle
<1> DEFINE p == exec[e].plan
<1>1. PICK k \in Rest(exec[e]), outcome \in Statuses :
        /\ \A j \in Rest(exec[e]) : k <= j
        /\ Perform(p, k, outcome)
        /\ stored' = IF outcome = "failed" THEN stored
                     ELSE [stored EXCEPT ![p] = Recorded(p, k)]
        /\ exec' = [exec EXCEPT ![e] = After(Passing(exec[e], k), k, outcome)]
  BY Zenon DEF Work
<1>2. /\ p \in Plans /\ k \in DOMAIN tasks[p] /\ k \in Nat \ {0} /\ exec[e] \in Copies
      /\ tasks[p][k] \notin {"completed", "skipped"}
      /\ k <= Len(tasks[p])
  BY <1>t, <1>i, ExecTyped, RestIsOfPlan, SMTT(30)
<1>3. Worked(p, k, outcome)
  BY <1>1, <1>2, <1>t, PerformEffect DEF Worked
<1>4. tasks[p] # << >> /\ stored[p].status # "absent" /\ stored[p] \in Records
  BY <1>2, <1>i, <1>t DEF Consistent, TypeOK
<1>5. Proposes(p, k) /\ outcome # "failed" => p \in proposals'
  BY <1>1, <1>2, <1>t, PerformEffect
<1>6. \E s \in Records : Follows(p, s) /\ stored' = [stored EXCEPT ![p] = s]
  <2>1. CASE outcome = "failed"
    <3>1. Follows(p, stored[p])
      BY <1>4 DEF Follows
    <3>2. stored' = [stored EXCEPT ![p] = stored[p]]
      BY <1>1, <1>2, <2>1, <1>t DEF TypeOK
    <3> QED
      BY <1>4, <3>1, <3>2
  <2>2. CASE outcome # "failed"
    <3>1. LET r == Recorded(p, k)
          IN  /\ r \in Records /\ r.goal = stored[p].goal
              /\ r.proposal => stored[p].proposal \/ Proposes(p, k)
              /\ r.status = stored[p].status /\ r.approved = stored[p].approved
      BY <1>2, <1>4, <1>t, RecordedRecord
    <3>2. Follows(p, Recorded(p, k))
      BY <1>4, <1>5, <2>2, <3>1 DEF Follows
    <3> QED
      BY <1>1, <2>2, <3>1, <3>2
  <2> QED
    BY <2>1, <2>2
<1> DEFINE c == Passing(exec[e], k)
           a == After(c, k, outcome)
<1>7. /\ c.proposal => exec[e].proposal \/ \E b \in attached : b[1] = p
      /\ ~c.skipped => ~exec[e].skipped
      /\ ~c.skipped => \A j \in exec[e].idx..(k - 1) : tasks[p][j] = "completed"
  <2>1. k <= Len(tasks[p]) + 1
    BY <1>2, <1>i, <1>t, ExecTyped
  <2> QED
    BY <1>1, <1>2, <1>i, <1>t, <2>1, PassingAdvances
<1>8. c \in Copies /\ c.plan = p /\ c.goal = exec[e].goal /\ c.idx = k
  BY <1>2, PassingIsCopy
<1>9. a \in Copies /\ a.plan = p /\ a.goal = exec[e].goal
  BY <1>2, <1>8, AfterIsCopy
<1> HIDE DEF c
<1>10. /\ outcome = "failed" => a.idx = k /\ a.skipped = c.skipped /\ a.proposal = c.proposal
       /\ outcome # "failed" =>
            /\ a.idx = k + 1 /\ a.skipped = (c.skipped \/ outcome = "skipped")
            /\ a.proposal = (c.proposal \/ Proposes(p, k))
  <2>1. CASE outcome = "failed"
    BY <1>8, <2>1 DEF After, Copies
  <2>2. CASE outcome # "failed"
    BY <1>8, <2>2 DEF After, Copies, Proposes
  <2> QED
    BY <2>1, <2>2
<1> HIDE DEF a
<1>11. \A j \in DOMAIN tasks[p] : tasks'[p][j] = IF j = k THEN outcome ELSE tasks[p][j]
  BY <1>2, <1>3, <1>t, SetStatusEffect DEF Worked
<1>12. Advances(e, a)
  <2>1. a.proposal => exec[e].proposal \/ p \in proposals' \/ \E b \in attached : b[1] = p
    BY <1>5, <1>7, <1>10
  <2>2. ~a.skipped => ~exec[e].skipped
    BY <1>7, <1>10
  <2>3. ASSUME ~a.skipped, NEW j \in exec[e].idx..(a.idx - 1)
        PROVE  tasks'[p][j] = "completed"
    <3>1. exec[e].idx \in Nat \ {0}
      BY <1>2 DEF Copies
    <3>2. j \in DOMAIN tasks[p]
      BY <1>2, <1>10, <2>3, <3>1, <1>i, <1>t, ExecTyped
    <3>a. a.idx \in {k, k + 1} /\ j \in Nat /\ j <= k /\ exec[e].idx <= j
      BY <1>2, <1>10, <2>3, <3>1
    <3>b. outcome # "skipped" \/ outcome = "failed"
      BY <1>10, <2>3
    <3>c. ~c.skipped
      BY <1>10, <2>3
    <3>3. CASE j = k
      <4>1. outcome # "failed"
        BY <1>2, <1>10, <2>3, <3>1, <3>3
      <4> QED
        BY <1>3, <1>11, <3>b, <3>2, <3>3, <4>1 DEF Worked
    <3>4. CASE j # k
      <4>1. j \in exec[e].idx..(k - 1)
        BY <1>2, <3>a, <3>1, <3>4
      <4> QED
        BY <1>7, <1>11, <3>c, <3>2, <3>4, <4>1
    <3> QED
      BY <3>3, <3>4
  <2> QED
    BY <1>9, <2>1, <2>2, <2>3 DEF Advances
<1>13. exec' = [exec EXCEPT ![e] = a]
  BY <1>1 DEF a, c
<1> QED
  BY <1>i, <1>2, <1>3, <1>6, <1>9, <1>12, <1>13

(* Record r that execution e reports when it ends.                         *)
Reports(e, r) ==
  LET c == exec[e]
  IN  /\ r \in Records /\ r.goal = c.goal /\ r.approved = TRUE
      /\ r.status \in {"tasks_completed", "plan_finished", "partial", "failed"}
      /\ r.proposal => c.proposal \/ \E a \in attached : a[1] = c.plan
      /\ r.status = "plan_finished" =>
           /\ kind[c.plan].template = "agent" => r.proposal
           /\ ~c.skipped
           /\ \A j \in c.idx..Len(tasks[c.plan]) : tasks[c.plan][j] = "completed"

LEMMA LastReport ==
  ASSUME TypeOK, NEW e \in Execs, exec[e] # Idle, Rest(exec[e]) = {},
         NEW status \in {"tasks_completed", "plan_finished", "partial", "failed"}
  PROVE  LET c == Passing(exec[e], Len(tasks[exec[e].plan]) + 1)
         IN  /\ c.plan = exec[e].plan
             /\ Verdict(c) = "plan_finished" \/ status = Verdict(c)
                  => Reports(e, Report(c, status, c.proposal))
<1> DEFINE n == Len(tasks[exec[e].plan])
           c == Passing(exec[e], n + 1)
           r == Report(c, status, c.proposal)
<1>1. /\ n + 1 \in Nat \ {0} /\ n \in Nat
      /\ c \in Copies /\ c.plan = exec[e].plan /\ c.goal = exec[e].goal
      /\ c.proposal \in BOOLEAN
  BY LastPassingIsCopy, ExecTyped
<1>2. /\ c.proposal => exec[e].proposal \/ \E b \in attached : b[1] = exec[e].plan
      /\ ~c.skipped => ~exec[e].skipped
      /\ ~c.skipped => \A j \in exec[e].idx..(n + 1 - 1) : tasks[exec[e].plan][j] = "completed"
  <2>1. n + 1 <= n + 1 /\ \A j \in Rest(exec[e]) : n + 1 <= j
    BY <1>1
  <2> QED
    BY <1>1, <2>1, PassingAdvances
<1> HIDE DEF c
<1>3. /\ r \in Records /\ r.goal = c.goal /\ r.approved = TRUE /\ r.status = status
      /\ r.proposal = c.proposal
  <2>1. c \in Copies /\ c.proposal \in BOOLEAN
    BY <1>1
  <2>2. r \in Records /\ r.goal = c.goal
    BY <2>1, ReportIsRecord, ZenonT(40)
  <2>3. r.approved = TRUE /\ r.status = status /\ r.proposal = c.proposal
    BY <2>1, ReportIsRecord, ZenonT(40)
  <2> QED
    BY <2>2, <2>3
<1>4. Verdict(c) = "plan_finished" =>
        ~c.skipped /\ (kind[exec[e].plan].template = "agent" => c.proposal)
  BY <1>1 DEF Verdict
<1> HIDE DEF r
<1>5. Verdict(c) = "plan_finished" \/ status = Verdict(c) => Reports(e, r)
  <2>1. n + 1 - 1 = n
    BY <1>1
  <2> QED
    BY <1>1, <1>2, <1>3, <1>4, <2>1 DEF Reports
<1> QED
  BY <1>1, <1>5 DEF c, r

LEMMA EndEffect ==
  ASSUME Typed, NEW e \in Execs, Finish(e) \/ Fail(e)
  PROVE  /\ exec[e] # Idle
         /\ \E r \in Records :
              /\ Reports(e, r)
              /\ stored' = [stored EXCEPT ![exec[e].plan] = r]
              /\ goals' = IF r.status = "plan_finished" /\ r.goal # NoGoal
                          THEN [goals EXCEPT ![r.goal] = "completed"] ELSE goals
         /\ exec' = [exec EXCEPT ![e] = Idle]
         /\ UNCHANGED <<kind, tasks, attached, queue, proposals, approval,
                        finished, crashes>>
<1>t. TypeOK /\ exec[e] # Idle
  BY DEF Typed, Finish, Fail, Idle
<1>1. CASE Finish(e)
  <2> DEFINE c == Passing(exec[e], Len(tasks[exec[e].plan]) + 1)
             r == Report(c, Verdict(c), c.proposal)
  <2>1. Verdict(c) \in {"tasks_completed", "plan_finished", "partial", "failed"}
    <3>1. Verdict(c) \in {"plan_finished", "partial", "failed"}
      BY VerdictOfCopy
    <3> QED BY <3>1
  <2>2. Rest(exec[e]) = {}
    BY <1>1 DEF Finish
  <2>3. Reports(e, r) /\ c.plan = exec[e].plan
    BY <1>t, <2>1, <2>2, LastReport
  <2>4. r \in Records /\ r.status = Verdict(c) /\ r.goal = c.goal
    <3>1. c \in Copies /\ c.proposal \in BOOLEAN
      BY <1>t, LastPassingIsCopy
    <3> HIDE DEF c
    <3> QED
      BY <2>1, <3>1, ReportIsRecord, ZenonT(40)
  <2>5. /\ stored' = [stored EXCEPT ![c.plan] = r]
        /\ goals' = IF Verdict(c) = "plan_finished" /\ c.goal # NoGoal
                    THEN [goals EXCEPT ![c.goal] = "completed"] ELSE goals
        /\ exec' = [exec EXCEPT ![e] = Idle]
        /\ UNCHANGED <<kind, tasks, attached, queue, proposals, approval,
                       finished, crashes>>
    BY <1>1 DEF Finish
  <2> HIDE DEF c, r
  <2> QED
    BY <1>t, <2>3, <2>4, <2>5
<1>2. CASE Fail(e)
  <2> DEFINE c == exec[e]
             b == c.proposal \/ HasResult(c.plan)
             r == Report(c, "failed", b)
  <2>1. c \in Copies /\ b \in BOOLEAN
    BY <1>t, ExecTyped
  <2>2. /\ r \in Records /\ r.status = "failed" /\ r.goal = c.goal /\ r.approved = TRUE
        /\ r.proposal = b
    BY <2>1, ReportIsRecord, Zenon
  <2>3. b => c.proposal \/ \E a \in attached : a[1] = c.plan
    BY HasResultMeans
  <2>4. /\ stored' = [stored EXCEPT ![c.plan] = r]
        /\ exec' = [exec EXCEPT ![e] = Idle]
        /\ UNCHANGED <<goals, kind, tasks, attached, queue, proposals, approval,
                       finished, crashes>>
    BY <1>2 DEF Fail
  <2> HIDE DEF r, b
  <2>5. Reports(e, r)
    BY <2>2, <2>3 DEF Reports
  <2> QED
    BY <1>t, <2>2, <2>4, <2>5
<1> QED
  BY <1>1, <1>2

LEMMA CrashInFinishEffect ==
  ASSUME Typed, NEW e \in Execs, CrashInFinish(e)
  PROVE  /\ exec[e] # Idle
         /\ \E r \in Records :
              Reports(e, r) /\ stored' = [stored EXCEPT ![exec[e].plan] = r]
         /\ exec' = [f \in Execs |-> Idle] /\ crashes' = crashes + 1
         /\ UNCHANGED <<goals, kind, tasks, attached, queue, proposals, approval,
                        finished>>
<1>t. TypeOK /\ exec[e] # Idle
  BY DEF Typed, CrashInFinish, Idle
<1> DEFINE c == Passing(exec[e], Len(tasks[exec[e].plan]) + 1)
<1>1. PICK status \in {"tasks_completed", "plan_finished"} :
        stored' = [stored EXCEPT ![c.plan] = Report(c, status, c.proposal)]
  BY DEF CrashInFinish
<1>2. /\ Verdict(c) = "plan_finished" /\ Rest(exec[e]) = {}
      /\ exec' = [f \in Execs |-> Idle] /\ crashes' = crashes + 1
      /\ UNCHANGED <<goals, kind, tasks, attached, queue, proposals, approval,
                     finished>>
  BY DEF CrashInFinish, Dies
<1>3. status \in {"tasks_completed", "plan_finished", "partial", "failed"}
  OBVIOUS
<1>4. c.plan = exec[e].plan /\ Reports(e, Report(c, status, c.proposal))
  BY <1>t, <1>2, <1>3, LastReport
<1>5. Report(c, status, c.proposal) \in Records
  BY <1>4 DEF Reports
<1> HIDE DEF c
<1> QED
  BY <1>t, <1>1, <1>2, <1>4, <1>5

(* Record r that an accepted plan is started from, or that one not accepted*)
(* is stored with.                                                         *)
Accepts(p, r) ==
  /\ r \in Records
  /\ r.proposal => stored[p].proposal
  /\ stored[p].status # "absent" => r.goal = stored[p].goal
  /\ \A q \in Plans : approval'[q] = approval[q] \/ (q = p /\ approval'[q] = "given")
  /\ r.approved => approval'[p] = "given" \/ stored[p].approved
  /\ stored' = [stored EXCEPT ![p] = r]
  /\ \/ r.status \in {"blocked_by_risk", "approval_required"} /\ exec' = exec
     \/ /\ r.status = "running" /\ r.approved
        /\ \E e \in Execs : exec[e] = Idle /\ exec' = [exec EXCEPT ![e] = Copy(p, r)]

GoalTaken ==
  \/ goals' = goals
  \/ \E g \in Goals : goals[g] # "completed" /\ goals' = [goals EXCEPT ![g] = "active"]

LEMMA CopyIsOfRecord ==
  ASSUME NEW p, NEW r \in Records
  PROVE  LET s == [r EXCEPT !.status = "running"]
         IN  /\ s \in Records /\ s.status = "running" /\ Copy(p, s) = Copy(p, r)
             /\ s.goal = r.goal /\ s.proposal = r.proposal /\ s.approved = r.approved
BY DEF Copy, Records

LEMMA AcceptEffect ==
  ASSUME Typed, NEW p \in Plans,
         RunGoal(p) \/ ExecuteApproved(p) \/ ExecuteCommand(p)
  PROVE  \E t \in Kinds, r \in Records :
           /\ MakesKind(p, t) /\ CreateTasks(p, t) /\ Accepts(p, r) /\ GoalTaken
           /\ UNCHANGED <<attached, proposals, finished, crashes>>
<1>t. TypeOK /\ Consistent
  BY DEF Typed
<1>1. CASE RunGoal(p)
  <2>1. PICK g \in Goals, t \in Kinds, f \in BOOLEAN :
          LET decision == Decision(Profile(t, f), FALSE)
              auto == decision = "auto_execute"
              r == [status |-> IF decision = "blocked" THEN "blocked_by_risk"
                               ELSE "approval_required",
                    approved |-> auto, proposal |-> FALSE, goal |-> g]
          IN  /\ GoalFor(g) /\ goals' = [goals EXCEPT ![g] = "active"]
              /\ NewPlan(p, t, f)
              /\ CreateTasks(p, t)
              /\ \/ auto /\ \E e \in Execs : Start(e, p, r)
                 \/ ~auto /\ stored' = [stored EXCEPT ![p] = r] /\ UNCHANGED exec
              /\ approval' = [approval EXCEPT ![p] = IF auto THEN "given" ELSE @]
              /\ UNCHANGED <<attached, proposals, finished, crashes>>
    BY <1>1, Zenon DEF RunGoal
  <2> DEFINE auto == Decision(Profile(t, f), FALSE) = "auto_execute"
             r == [status |-> IF Decision(Profile(t, f), FALSE) = "blocked"
                              THEN "blocked_by_risk" ELSE "approval_required",
                   approved |-> auto, proposal |-> FALSE, goal |-> g]
  <2>2. /\ NewPlan(p, t, f) /\ CreateTasks(p, t) /\ GoalFor(g)
        /\ goals' = [goals EXCEPT ![g] = "active"]
        /\ \/ auto /\ \E e \in Execs : Start(e, p, r)
           \/ ~auto /\ stored' = [stored EXCEPT ![p] = r] /\ UNCHANGED exec
        /\ approval' = [approval EXCEPT ![p] = IF auto THEN "given" ELSE @]
        /\ UNCHANGED <<attached, proposals, finished, crashes>>
    BY <2>1
  <2>3. /\ r \in Records /\ r.proposal = FALSE /\ r.approved = auto
        /\ r.status \in {"blocked_by_risk", "approval_required"}
    BY DEF Records, Terminal
  <2> HIDE DEF auto, r
  <2>4. MakesKind(p, t) /\ stored[p].status = "absent"
    BY <2>2, NewPlanEffect
  <2>5. GoalTaken
    BY <2>2 DEF GoalTaken, GoalFor
  <2>6. /\ \A q \in Plans : approval'[q] = approval[q] \/ (q = p /\ approval'[q] = "given")
        /\ auto => approval'[p] = "given"
    BY <2>2, <1>t DEF TypeOK
  <2>7. CASE ~auto
    <3>1. Accepts(p, r)
      BY <2>2, <2>3, <2>4, <2>6, <2>7 DEF Accepts
    <3> QED
      BY <2>2, <2>3, <2>4, <2>5, <3>1
  <2>8. CASE auto
    <3>1. PICK e \in Execs : Start(e, p, r)
      BY <2>2, <2>8
    <3> DEFINE s == [r EXCEPT !.status = "running"]
    <3>2. /\ s \in Records /\ s.status = "running" /\ Copy(p, s) = Copy(p, r)
          /\ s.proposal = FALSE /\ s.approved = TRUE
      BY <2>3, <2>8, CopyIsOfRecord
    <3>3. /\ exec[e] = Idle /\ exec' = [exec EXCEPT ![e] = Copy(p, r)]
          /\ stored' = [stored EXCEPT ![p] = s]
      BY <3>1 DEF Start
    <3> HIDE DEF s
    <3>4. Accepts(p, s)
      BY <2>4, <2>6, <2>8, <3>2, <3>3 DEF Accepts
    <3> QED
      BY <2>2, <2>4, <2>5, <3>2, <3>4
  <2> QED
    BY <2>7, <2>8
<1>2. CASE ExecuteApproved(p) \/ ExecuteCommand(p)
  <2> DEFINE r == IF ExecuteApproved(p) THEN [stored[p] EXCEPT !.approved = TRUE] ELSE stored[p]
  <2>1. /\ CreateTasks(p, kind[p].template)
        /\ UNCHANGED <<goals, kind, attached, proposals, finished, crashes>>
        /\ \E e \in Execs : Start(e, p, r)
    BY <1>2 DEF ExecuteApproved, ExecuteCommand
  <2>2. stored[p] \in Records /\ stored[p].status # "absent"
    BY <1>2, <1>t DEF ExecuteApproved, ExecuteCommand, Exists, TypeOK, Consistent, Absent
  <2>3. /\ r \in Records /\ r.goal = stored[p].goal /\ r.proposal = stored[p].proposal
        /\ r.approved = TRUE
    BY <1>2, <2>2 DEF Records, ExecuteCommand
  <2>4. /\ \A q \in Plans : approval'[q] = approval[q] \/ (q = p /\ approval'[q] = "given")
        /\ approval'[p] = "given" \/ stored[p].approved
    BY <1>2, <1>t DEF ExecuteApproved, ExecuteCommand, TypeOK
  <2> HIDE DEF r
  <2>5. PICK e \in Execs : Start(e, p, r)
    BY <2>1
  <2> DEFINE s == [r EXCEPT !.status = "running"]
  <2>6. /\ s \in Records /\ s.status = "running" /\ Copy(p, s) = Copy(p, r)
        /\ s.proposal = r.proposal /\ s.approved = TRUE /\ s.goal = r.goal
    BY <2>3, CopyIsOfRecord
  <2>7. /\ exec[e] = Idle /\ exec' = [exec EXCEPT ![e] = Copy(p, r)]
        /\ stored' = [stored EXCEPT ![p] = s]
    BY <2>5 DEF Start
  <2> HIDE DEF s
  <2>8. Accepts(p, s)
    BY <2>3, <2>4, <2>6, <2>7 DEF Accepts
  <2>9. kind[p].template \in Kinds /\ MakesKind(p, kind[p].template)
    BY <2>1, <2>2, <1>t, KindOfPlan, SameKind DEF Consistent
  <2> QED
    BY <2>1, <2>6, <2>8, <2>9 DEF GoalTaken
<1> QED
  BY <1>1, <1>2

(* Record s that approve, refuse and /planner/execute leave of plan p.     *)
Decides(p, s) ==
  /\ s \in Records /\ s.goal = stored[p].goal /\ s.proposal = stored[p].proposal
  /\ s.status \in {"approved", "refused", "blocked_by_risk", "approval_required",
                   "failed", "plan_finished"}
  /\ s.status = "plan_finished" =>
       /\ ExecuteRoute(p)
       /\ kind[p].template = "agent" => p \in proposals'
  /\ s.approved => approval'[p] = "given" \/ (stored[p].approved /\ approval' = approval)
  /\ stored' = [stored EXCEPT ![p] = s]

LEMMA DecideEffect ==
  ASSUME Typed, NEW p \in Plans, Approve(p) \/ Refuse(p) \/ ExecuteRoute(p)
  PROVE  /\ \E s \in Records : Decides(p, s)
         /\ stored[p].status # "absent"
         /\ proposals \subseteq proposals'
         /\ \A q \in Plans : approval'[q] = "none" => approval[q] = "none"
         /\ UNCHANGED <<goals, kind, tasks, attached, queue, exec, finished, crashes>>
<1>t. stored \in [Plans -> Records] /\ approval \in [Plans -> {"none", "given", "withdrawn"}]
  BY DEF Typed, TypeOK
<1>1. stored[p] \in Records /\ stored[p].status # "absent"
  BY <1>t DEF Approve, Refuse, ExecuteRoute, Exists
<1>2. CASE Approve(p)
  <2> DEFINE s == [stored[p] EXCEPT !.approved = TRUE, !.status = "approved"]
  <2>1. s \in Records /\ s.goal = stored[p].goal /\ s.proposal = stored[p].proposal
        /\ s.status = "approved"
    BY <1>1 DEF Records
  <2>2. stored' = [stored EXCEPT ![p] = s] /\ approval' = [approval EXCEPT ![p] = "given"]
    BY <1>2, <1>t DEF Approve
  <2> HIDE DEF s
  <2>3. Decides(p, s)
    BY <1>t, <2>1, <2>2 DEF Decides
  <2> QED
    BY <1>1, <1>2, <1>t, <2>1, <2>2, <2>3 DEF Approve
<1>3. CASE Refuse(p)
  <2> DEFINE s == [stored[p] EXCEPT !.approved = FALSE, !.status = "refused"]
  <2>1. s \in Records /\ s.goal = stored[p].goal /\ s.proposal = stored[p].proposal
        /\ s.status = "refused" /\ s.approved = FALSE
    BY <1>1 DEF Records, Terminal
  <2>2. stored' = [stored EXCEPT ![p] = s]
        /\ approval' = [approval EXCEPT ![p] = IF @ = "given" THEN "withdrawn" ELSE @]
    BY <1>3, <1>t DEF Refuse
  <2> HIDE DEF s
  <2>3. Decides(p, s)
    BY <1>t, <2>1, <2>2 DEF Decides
  <2> QED
    BY <1>1, <1>3, <1>t, <2>1, <2>2, <2>3 DEF Refuse
<1>4. CASE ExecuteRoute(p)
  <2>1. PICK status \in {"blocked_by_risk", "approval_required", "failed",
                        "plan_finished"} :
          /\ stored' = [stored EXCEPT ![p].status = status]
          /\ \/ proposals' = proposals \union {p}
             \/ /\ kind[p].template = "agent" => status # "plan_finished"
                /\ UNCHANGED proposals
    BY <1>4 DEF ExecuteRoute
  <2> DEFINE s == [stored[p] EXCEPT !.status = status]
  <2>2. s \in Records /\ s.goal = stored[p].goal /\ s.proposal = stored[p].proposal
        /\ s.status = status /\ s.approved = stored[p].approved
    BY <1>1 DEF Records, Terminal
  <2>3. stored' = [stored EXCEPT ![p] = s] /\ approval' = approval
    BY <1>4, <1>t, <2>1 DEF ExecuteRoute
  <2> HIDE DEF s
  <2>4. Decides(p, s)
    BY <1>4, <1>t, <2>1, <2>2, <2>3 DEF Decides
  <2> QED
    BY <1>1, <1>4, <2>1, <2>2, <2>3, <2>4 DEF ExecuteRoute
<1> QED
  BY <1>2, <1>3, <1>4

(* The remaining steps, as far as the invariants below tell.               *)
LEMMA CreatePlanEffect ==
  ASSUME Typed, NEW p \in Plans, CreatePlan(p)
  PROVE  /\ \E t \in Kinds : MakesKind(p, t)
         /\ \E s \in Records : /\ s.status = "pending" /\ s.goal = NoGoal
                             /\ ~s.approved /\ ~s.proposal
                             /\ stored' = [stored EXCEPT ![p] = s]
         /\ stored[p].status = "absent" /\ tasks[p] = << >>
         /\ UNCHANGED <<goals, tasks, attached, queue, proposals, exec, approval,
                        finished, crashes>>
<1>1. PICK t \in Kinds, f \in BOOLEAN : NewPlan(p, t, f)
  BY DEF CreatePlan
<1>2. MakesKind(p, t) /\ stored[p].status = "absent" /\ tasks[p] = << >>
  BY <1>1, NewPlanEffect
<1>3. /\ stored' = [stored EXCEPT ![p] = [Absent EXCEPT !.status = "pending"]]
      /\ UNCHANGED <<goals, tasks, attached, queue, proposals, exec, approval,
                     finished, crashes>>
  BY DEF CreatePlan
<1> DEFINE s == [Absent EXCEPT !.status = "pending"]
<1>4. s \in Records /\ s.status = "pending" /\ s.goal = NoGoal /\ ~s.approved /\ ~s.proposal
  BY DEF Absent, Records
<1> HIDE DEF s
<1>5. stored' = [stored EXCEPT ![p] = s]
  BY <1>3 DEF s
<1> QED
  BY <1>2, <1>3, <1>4, <1>5

LEMMA CrashInRunGoalEffect ==
  ASSUME Typed, NEW p \in Plans, CrashInRunGoal(p)
  PROVE  /\ \E t \in Kinds : MakesKind(p, t) /\ CreateTasks(p, t)
         /\ tasks[p] = << >> /\ GoalTaken
         /\ exec' = [e \in Execs |-> Idle] /\ crashes' = crashes + 1
         /\ UNCHANGED <<stored, attached, proposals, approval, finished>>
<1>1. PICK g \in Goals, t \in Kinds, f \in BOOLEAN :
        /\ GoalFor(g) /\ goals' = [goals EXCEPT ![g] = "active"]
        /\ NewPlan(p, t, f)
        /\ CreateTasks(p, t)
  BY DEF CrashInRunGoal
<1>2. MakesKind(p, t) /\ tasks[p] = << >>
  BY <1>1, NewPlanEffect
<1> QED
  BY <1>1, <1>2 DEF CrashInRunGoal, Dies, GoalTaken, GoalFor

LEMMA CrashInTaskEffect ==
  ASSUME NEW p \in Plans, CrashInTask(p)
  PROVE  /\ \E k \in DOMAIN tasks[p] : tasks' = [tasks EXCEPT ![p][k] = "in_progress"]
         /\ proposals \subseteq proposals'
         /\ exec' = [e \in Execs |-> Idle] /\ crashes' = crashes + 1
         /\ UNCHANGED <<goals, kind, stored, attached, queue, approval, finished>>
BY DEF CrashInTask, Dies

-----------------------------------------------------------------------------
(* Proposals. *)

ProposalInv == ProposalsExist /\ FinishedAgentHasProposal

LEMMA ProposalInit == Init => ProposalInv
BY DEF Init, ProposalInv, ProposalsExist, FinishedAgentHasProposal, Absent

(* What a step may write into records and copies.                          *)
LEMMA ProposalKept ==
  ASSUME Typed, ProposalInv, proposals \subseteq proposals',
         \A a \in attached' : a \in attached \/ a[1] \in proposals',
         \A p \in Plans :
           /\ kind'[p] = kind[p] \/ kind[p].template = "none"
           /\ stored'[p].proposal => stored[p].proposal \/ p \in proposals'
                                    \/ \E a \in attached' : a[1] = p
           /\ stored'[p].status = "plan_finished" =>
                \/ stored[p].status = "plan_finished"
                \/ kind'[p].template = "agent" => p \in proposals',
         \A e \in Execs : exec'[e] # Idle =>
           \/ exec'[e] = exec[e]
           \/ exec'[e].proposal => exec'[e].plan \in proposals'
  PROVE  ProposalInv'
<1>1. \A a \in attached' : a[1] \in proposals'
  BY DEF ProposalInv, ProposalsExist
<1>2. \A p \in Plans : stored'[p].proposal => p \in proposals'
  BY <1>1 DEF ProposalInv, ProposalsExist
<1>3. \A e \in Execs : exec'[e] # Idle /\ exec'[e].proposal => exec'[e].plan \in proposals'
  BY DEF ProposalInv, ProposalsExist
<1>4. \A p \in Plans : kind[p].template = "none" => stored[p].status = "absent"
  BY DEF Typed, Consistent
<1>5. FinishedAgentHasProposal'
  BY <1>4 DEF ProposalInv, FinishedAgentHasProposal
<1> QED
  BY <1>1, <1>2, <1>3, <1>5 DEF ProposalInv, ProposalsExist

LEMMA ProposalStep == Typed /\ ProposalInv /\ [Next]_vars => ProposalInv'
<1> SUFFICES ASSUME Typed, ProposalInv, [Next]_vars PROVE ProposalInv'
  OBVIOUS
<1>t. TypeOK /\ Consistent
  BY DEF Typed
<1>i. /\ \A p \in Plans : stored[p].proposal => p \in proposals
      /\ \A e \in Execs : exec[e] # Idle /\ exec[e].proposal => exec[e].plan \in proposals
      /\ \A a \in attached : a[1] \in proposals
      /\ Idle.pc = "idle"
      /\ exec \in [Execs -> {Idle} \union Copies] /\ stored \in [Plans -> Records]
  BY <1>t DEF ProposalInv, ProposalsExist, Idle, TypeOK
<1>1. ASSUME NEW p \in Plans, NEW k \in DOMAIN tasks[p], RunTask(p, k)
      PROVE  ProposalInv'
  BY <1>1, <1>i, RunTaskEffect, ProposalKept DEF Worked, Follows
<1>2. CASE SyncAll
  BY <1>2, <1>i, SyncAllEffect, ProposalKept DEF Follows, SyncAll
<1>3. ASSUME NEW e \in Execs, Work(e) PROVE ProposalInv'
  <2>1. exec[e] # Idle /\ exec[e].plan \in Plans
    BY <1>3, <1>t, WorkEffect, ExecTyped
  <2>2. PICK k \in DOMAIN tasks[exec[e].plan], outcome \in Statuses,
             s \in Records, a \in Copies :
          /\ Worked(exec[e].plan, k, outcome) /\ Follows(exec[e].plan, s)
          /\ stored' = [stored EXCEPT ![exec[e].plan] = s]
          /\ exec' = [exec EXCEPT ![e] = a] /\ Advances(e, a)
    BY <1>3, WorkEffect
  <2>3. a.proposal => a.plan \in proposals'
    BY <1>i, <2>1, <2>2 DEF Worked, Advances
  <2> QED
    BY <1>i, <2>1, <2>2, <2>3, ProposalKept DEF Worked, Follows
<1>4. ASSUME NEW e \in Execs, Finish(e) \/ Fail(e) \/ CrashInFinish(e)
      PROVE  ProposalInv'
  <2>1. /\ exec[e] # Idle
        /\ \E r \in Records :
             Reports(e, r) /\ stored' = [stored EXCEPT ![exec[e].plan] = r]
        /\ exec' = [exec EXCEPT ![e] = Idle] \/ exec' = [f \in Execs |-> Idle]
        /\ UNCHANGED <<kind, attached, proposals>>
    BY <1>4, EndEffect, CrashInFinishEffect
  <2>2. exec[e].plan \in Plans
    BY <1>t, <2>1, ExecTyped
  <2>3. PICK r \in Records :
          Reports(e, r) /\ stored' = [stored EXCEPT ![exec[e].plan] = r]
    BY <2>1
  <2>4. r.proposal => exec[e].plan \in proposals
    BY <1>i, <2>1, <2>3 DEF Reports
  <2>5. r.status = "plan_finished" /\ kind[exec[e].plan].template = "agent" => r.proposal
    BY <2>3 DEF Reports
  <2>6. \A f \in Execs : exec'[f] # Idle => exec'[f] = exec[f]
    BY <1>i, <2>1
  <2> QED
    BY <1>i, <2>1, <2>2, <2>3, <2>4, <2>5, <2>6, ProposalKept
<1>5. ASSUME NEW p \in Plans, RunGoal(p) \/ ExecuteApproved(p) \/ ExecuteCommand(p)
      PROVE  ProposalInv'
  <2>1. PICK t \in Kinds, r \in Records :
          /\ MakesKind(p, t) /\ CreateTasks(p, t) /\ Accepts(p, r) /\ GoalTaken
          /\ UNCHANGED <<attached, proposals, finished, crashes>>
    BY <1>5, AcceptEffect
  <2>2. \A e \in Execs : exec'[e] # Idle =>
           exec'[e] = exec[e] \/ (exec'[e].proposal => exec'[e].plan \in proposals')
    BY <1>i, <2>1 DEF Accepts, Copy
  <2> QED
    BY <1>i, <2>1, <2>2, ProposalKept DEF MakesKind, Accepts
<1>6. ASSUME NEW p \in Plans, CreatePlan(p) PROVE ProposalInv'
  BY <1>6, <1>i, CreatePlanEffect, ProposalKept DEF MakesKind
<1>7. ASSUME NEW p \in Plans, Approve(p) \/ Refuse(p) \/ ExecuteRoute(p)
      PROVE  ProposalInv'
  <2>1. PICK s \in Records : Decides(p, s)
    BY <1>7, DecideEffect
  <2>2. /\ proposals \subseteq proposals'
        /\ UNCHANGED <<kind, attached, exec>>
    BY <1>7, DecideEffect
  <2> QED
    BY <1>i, <2>1, <2>2, ProposalKept DEF Decides
<1>8. ASSUME NEW p \in Plans, CrashInRunGoal(p) PROVE ProposalInv'
  BY <1>8, <1>i, CrashInRunGoalEffect, ProposalKept DEF MakesKind
<1>9. ASSUME NEW p \in Plans, CrashInTask(p) PROVE ProposalInv'
  BY <1>9, <1>i, CrashInTaskEffect, ProposalKept
<1>10. ASSUME NEW p \in Plans, GenerateTasks(p) PROVE ProposalInv'
  BY <1>10, <1>i, ProposalKept DEF GenerateTasks
<1>11. CASE Mark \/ Crash \/ UNCHANGED vars
  BY <1>11, <1>i, ProposalKept DEF Mark, Crash, Dies, vars
<1> QED
  BY <1>1, <1>2, <1>3, <1>4, <1>5, <1>6, <1>7, <1>8, <1>9, <1>10, <1>11, WhichTask
  DEF Next, Request, TaskRequest

(* A plan for an agent is only shown as finished once an agent was         *)
(* requested, whichever executor reports it and whatever crashes between.  *)
THEOREM FinishedAgentHasProposalCorrect == Spec => []FinishedAgentHasProposal
<1>1. Init => Typed /\ ProposalInv
  BY TypedInit, ProposalInit
<1>2. (Typed /\ ProposalInv) /\ [Next]_vars => (Typed /\ ProposalInv)'
  BY TypedStep, ProposalStep
<1>3. ProposalInv => FinishedAgentHasProposal
  BY DEF ProposalInv
<1> QED
  BY <1>1, <1>2, <1>3, PTL DEF Spec

-----------------------------------------------------------------------------
(* Goals and the work done for them. *)

FinishInv == PassedIsFinished /\ GoalCompletedByWork

LEMMA FinishInit == Init => FinishInv
BY DEF Init, FinishInv, PassedIsFinished, GoalCompletedByWork

(* Every task of plan p was completed at some time.                        *)
AllFinished(p) == tasks[p] # << >> /\ \A k \in DOMAIN tasks[p] : <<p, k>> \in finished

(* What the tasks and the history may become.                              *)
TasksKept ==
  /\ finished \subseteq finished'
  /\ \A p \in Plans : \A k \in DOMAIN tasks'[p] :
       tasks'[p][k] = "completed" =>
         <<p, k>> \in finished' \/ (k \in DOMAIN tasks[p] /\ tasks[p][k] = "completed")
  /\ \A p \in Plans : tasks[p] # << >> =>
       tasks'[p] # << >> /\ DOMAIN tasks'[p] = DOMAIN tasks[p]

LEMMA UnchangedTasksKept ==
  ASSUME UNCHANGED <<tasks, finished>> PROVE TasksKept
BY DEF TasksKept

LEMMA CreatedTasksKept ==
  ASSUME Typed, NEW p \in Plans, NEW t \in Kinds, CreateTasks(p, t), UNCHANGED finished
  PROVE  TasksKept
<1>1. /\ \A q \in Plans : tasks[q] # << >> => tasks'[q] = tasks[q]
      /\ \A q \in Plans : q # p => tasks'[q] = tasks[q]
      /\ tasks[p] = << >> => \A k \in DOMAIN tasks'[p] : tasks'[p][k] = "active"
  BY CreateTasksEffect DEF Typed
<1> QED
  BY <1>1 DEF TasksKept

LEMMA StatusTasksKept ==
  ASSUME Typed, NEW p \in Plans, NEW k \in DOMAIN tasks[p], NEW s \in Statuses,
         tasks' = [tasks EXCEPT ![p][k] = s],
         finished' = IF s = "completed" THEN finished \union {<<p, k>>} ELSE finished
  PROVE  TasksKept
<1>1. \A q \in Plans :
        /\ q # p => tasks'[q] = tasks[q]
        /\ DOMAIN tasks'[q] = DOMAIN tasks[q]
        /\ tasks'[q] = << >> <=> tasks[q] = << >>
  BY SetStatusEffect DEF Typed
<1>2. \A j \in DOMAIN tasks[p] :
        tasks'[p][j] = IF j = k THEN s ELSE tasks[p][j]
  BY SetStatusEffect DEF Typed
<1> QED
  BY <1>1, <1>2 DEF TasksKept

LEMMA FinishKept ==
  ASSUME Typed, FinishInv, TasksKept,
         \A p \in Plans :
           stored[p].status # "absent" => stored'[p].goal = stored[p].goal,
         \A e \in Execs : exec'[e] # Idle =>
           \/ exec'[e] = exec[e]
           \/ exec'[e].idx = 1
           \/ /\ exec[e] # Idle /\ exec'[e].plan = exec[e].plan
              /\ ~exec'[e].skipped =>
                   /\ ~exec[e].skipped
                   /\ \A j \in exec[e].idx..(exec'[e].idx - 1) :
                        <<exec[e].plan, j>> \in finished',
         \A g \in Goals : goals'[g] = "completed" =>
           \/ goals[g] = "completed"
           \/ \E p \in Plans : stored'[p].goal = g /\ AllFinished(p)'
  PROVE  FinishInv'
<1>1. \A p \in Plans : \A k \in DOMAIN tasks'[p] :
        tasks'[p][k] = "completed" => <<p, k>> \in finished'
  BY DEF FinishInv, PassedIsFinished, TasksKept
<1>2. ASSUME NEW e \in Execs, exec'[e] # Idle, ~exec'[e].skipped,
             NEW k \in 1..(exec'[e].idx - 1)
      PROVE  <<exec'[e].plan, k>> \in finished'
  <2>1. CASE exec'[e] = exec[e]
    BY <1>2, <2>1 DEF FinishInv, PassedIsFinished, TasksKept
  <2>2. CASE exec'[e].idx = 1
    BY <1>2, <2>2
  <2>3. CASE /\ exec[e] # Idle /\ exec'[e].plan = exec[e].plan
             /\ ~exec[e].skipped
             /\ \A j \in exec[e].idx..(exec'[e].idx - 1) :
                  <<exec[e].plan, j>> \in finished'
    <3>1. exec[e].idx \in Nat \ {0}
      BY <2>3 DEF Typed, TypeOK, Copies
    <3>2. CASE k < exec[e].idx
      <4>1. k \in 1..(exec[e].idx - 1)
        BY <3>1, <3>2
      <4> QED
        BY <2>3, <4>1 DEF FinishInv, PassedIsFinished, TasksKept
    <3>3. CASE ~(k < exec[e].idx)
      <4>1. k \in exec[e].idx..(exec'[e].idx - 1)
        BY <3>1, <3>3
      <4> QED
        BY <2>3, <4>1
    <3> QED
      BY <3>2, <3>3
  <2> QED
    BY <1>2, <2>1, <2>2, <2>3
<1>3. ASSUME NEW g \in Goals, goals'[g] = "completed"
      PROVE  \E p \in Plans : stored'[p].goal = g /\ AllFinished(p)'
  <2>1. CASE goals[g] = "completed"
    <3>1. PICK p \in Plans : stored[p].goal = g /\ AllFinished(p)
      BY <2>1 DEF FinishInv, GoalCompletedByWork, AllFinished
    <3>2. stored[p].status # "absent"
      BY <3>1, GoalAssumption DEF Typed, Consistent, Absent
    <3>3. AllFinished(p)'
      BY <3>1 DEF AllFinished, TasksKept
    <3> QED
      BY <3>1, <3>2, <3>3
  <2> QED
    BY <1>3, <2>1
<1> QED
  BY <1>1, <1>2, <1>3 DEF FinishInv, PassedIsFinished, GoalCompletedByWork, AllFinished

LEMMA FinishStep == Typed /\ FinishInv /\ [Next]_vars => FinishInv'
<1> SUFFICES ASSUME Typed, FinishInv, [Next]_vars PROVE FinishInv'
  OBVIOUS
<1>t. TypeOK /\ Consistent
  BY DEF Typed
<1>i. /\ exec \in [Execs -> {Idle} \union Copies] /\ stored \in [Plans -> Records]
      /\ goals \in [Goals -> {"absent", "active", "completed"}]
  BY <1>t DEF TypeOK
<1>1. ASSUME NEW p \in Plans, NEW k \in DOMAIN tasks[p], RunTask(p, k)
      PROVE  FinishInv'
  <2>1. PICK outcome \in Statuses, s \in Records :
           /\ Worked(p, k, outcome) /\ Follows(p, s)
           /\ stored' = [stored EXCEPT ![p] = s]
           /\ UNCHANGED exec
    BY <1>1, RunTaskEffect
  <2>2. TasksKept
    BY <2>1, StatusTasksKept DEF Worked
  <2>3. UNCHANGED goals
    BY <2>1 DEF Worked
  <2> QED
    BY <1>i, <2>1, <2>2, <2>3, FinishKept DEF Follows
<1>2. CASE SyncAll
  <2>1. TasksKept /\ UNCHANGED <<goals, exec>>
    BY <1>2, UnchangedTasksKept DEF SyncAll
  <2> QED
    BY <1>2, <2>1, SyncAllEffect, FinishKept DEF Follows
<1>3. ASSUME NEW e \in Execs, Work(e) PROVE FinishInv'
  <2> DEFINE p == exec[e].plan
  <2>1. exec[e] # Idle /\ p \in Plans /\ exec[e] \in Copies
        /\ DOMAIN tasks[p] = 1..Len(tasks[p])
    BY <1>3, <1>t, WorkEffect, ExecTyped
  <2>2. PICK k \in DOMAIN tasks[p], outcome \in Statuses, s \in Records, a \in Copies :
          /\ Worked(p, k, outcome) /\ Follows(p, s)
          /\ stored' = [stored EXCEPT ![p] = s]
          /\ exec' = [exec EXCEPT ![e] = a] /\ Advances(e, a)
    BY <1>3, WorkEffect
  <2>3. TasksKept /\ UNCHANGED goals
    BY <2>1, <2>2, StatusTasksKept DEF Worked
  <2>4. exec'[e] = a /\ \A f \in Execs : f # e => exec'[f] = exec[f]
    BY <1>i, <2>2
  <2>5. exec'[e].idx <= Len(tasks'[p]) + 1 /\ Len(tasks'[p]) \in Nat
        /\ DOMAIN tasks'[p] = 1..Len(tasks'[p])
    <3>1. TypeOK'
      BY TypedStep DEF Typed
    <3>2. exec'[e] # Idle /\ a.plan = p
      BY <2>2, <2>4 DEF Copies, Idle, Advances
    <3>3. tasks'[p] \in Seq(Statuses)
      BY <2>1, <3>1 DEF TypeOK
    <3> QED
      BY <2>4, <3>1, <3>2, <3>3, LenProperties DEF TypeOK
  <2>6. ASSUME ~a.skipped, NEW j \in exec[e].idx..(a.idx - 1)
        PROVE  <<p, j>> \in finished'
    <3>1. exec[e].idx \in Nat \ {0} /\ a.idx \in Nat
      BY <2>1 DEF Copies
    <3>2. j \in DOMAIN tasks'[p]
      BY <2>4, <2>5, <2>6, <3>1
    <3>3. tasks'[p][j] = "completed"
      BY <2>2, <2>6 DEF Advances
    <3> QED
      BY <2>1, <2>3, <3>2, <3>3 DEF FinishInv, PassedIsFinished, TasksKept
  <2>7. a.plan = p /\ (~a.skipped => ~exec[e].skipped)
    BY <2>2 DEF Advances
  <2>8. \A q \in Plans :
          stored[q].status # "absent" => stored'[q].goal = stored[q].goal
    BY <1>i, <2>2 DEF Follows
  <2> HIDE DEF p
  <2>9. \A f \in Execs : exec'[f] # Idle =>
           \/ exec'[f] = exec[f]
           \/ exec'[f].idx = 1
           \/ /\ exec[f] # Idle /\ exec'[f].plan = exec[f].plan
              /\ ~exec'[f].skipped =>
                   /\ ~exec[f].skipped
                   /\ \A j \in exec[f].idx..(exec'[f].idx - 1) :
                        <<exec[f].plan, j>> \in finished'
    BY <2>1, <2>4, <2>6, <2>7 DEF p
  <2> QED
    BY <2>3, <2>8, <2>9, FinishKept
<1>4. ASSUME NEW e \in Execs, Finish(e) \/ Fail(e) \/ CrashInFinish(e)
      PROVE  FinishInv'
  <2>1. exec[e] # Idle /\ exec[e].plan \in Plans /\ exec[e] \in Copies
        /\ tasks[exec[e].plan] # << >>
        /\ DOMAIN tasks[exec[e].plan] = 1..Len(tasks[exec[e].plan])
        /\ Len(tasks[exec[e].plan]) \in Nat
        /\ exec[e].goal = stored[exec[e].plan].goal
    BY <1>4, <1>t, EndEffect, CrashInFinishEffect, ExecTyped DEF Consistent
  <2>2. PICK r \in Records :
          /\ Reports(e, r) /\ stored' = [stored EXCEPT ![exec[e].plan] = r]
          /\ \/ goals' = goals
             \/ /\ r.status = "plan_finished" /\ r.goal # NoGoal
                /\ goals' = [goals EXCEPT ![r.goal] = "completed"]
    BY <1>4, EndEffect, CrashInFinishEffect
  <2>3. /\ UNCHANGED <<tasks, finished>>
        /\ \A f \in Execs : exec'[f] # Idle => exec'[f] = exec[f]
    BY <1>4, <1>i, EndEffect, CrashInFinishEffect
  <2>4. TasksKept
    BY <2>3, UnchangedTasksKept
  <2>5. r.status = "plan_finished" => AllFinished(exec[e].plan)
    <3> SUFFICES ASSUME r.status = "plan_finished",
                        NEW k \in DOMAIN tasks[exec[e].plan]
                 PROVE  <<exec[e].plan, k>> \in finished
      BY <2>1 DEF AllFinished
    <3>1. /\ ~exec[e].skipped
          /\ \A j \in exec[e].idx..Len(tasks[exec[e].plan]) :
               tasks[exec[e].plan][j] = "completed"
      BY <2>2 DEF Reports
    <3>2. exec[e].idx \in Nat \ {0} /\ k \in 1..Len(tasks[exec[e].plan])
      BY <2>1 DEF Copies
    <3>3. k \in 1..(exec[e].idx - 1) \/ k \in exec[e].idx..Len(tasks[exec[e].plan])
      BY <2>1, <3>2
    <3> QED
      BY <2>1, <3>1, <3>3 DEF FinishInv, PassedIsFinished
  <2>6. \A g \in Goals : goals'[g] = "completed" =>
           \/ goals[g] = "completed"
           \/ \E p \in Plans : stored'[p].goal = g /\ AllFinished(p)'
    <3>1. ASSUME r.status = "plan_finished"
          PROVE  /\ tasks'[exec[e].plan] # << >>
                 /\ \A k \in DOMAIN tasks'[exec[e].plan] : <<exec[e].plan, k>> \in finished'
      BY <2>3, <2>5, <3>1 DEF AllFinished
    <3>2. stored'[exec[e].plan] = r
      BY <1>i, <2>1, <2>2
    <3>3. r.status = "plan_finished" =>
            \E p \in Plans : stored'[p].goal = r.goal /\ AllFinished(p)'
      BY <2>1, <3>1, <3>2 DEF AllFinished
    <3>4. r.goal \in Goals \union {NoGoal}
      BY DEF Records
    <3> QED
      BY <1>i, <2>2, <3>3, <3>4 DEF AllFinished
  <2>7. \A p \in Plans :
           stored[p].status # "absent" => stored'[p].goal = stored[p].goal
    BY <1>i, <2>1, <2>2 DEF Reports
  <2> QED
    BY <2>3, <2>4, <2>6, <2>7, FinishKept
<1>5. ASSUME NEW p \in Plans, RunGoal(p) \/ ExecuteApproved(p) \/ ExecuteCommand(p)
      PROVE  FinishInv'
  <2>1. PICK t \in Kinds, r \in Records :
          /\ MakesKind(p, t) /\ CreateTasks(p, t) /\ Accepts(p, r) /\ GoalTaken
          /\ UNCHANGED <<attached, proposals, finished, crashes>>
    BY <1>5, AcceptEffect
  <2>2. \A e \in Execs : exec'[e] # Idle => exec'[e] = exec[e] \/ exec'[e].idx = 1
    BY <1>i, <2>1 DEF Accepts, Copy
  <2>3. TasksKept
    BY <2>1, CreatedTasksKept
  <2>4. \A q \in Plans :
           stored[q].status # "absent" => stored'[q].goal = stored[q].goal
    BY <1>i, <2>1 DEF Accepts
  <2>5. \A g \in Goals : goals'[g] = "completed" => goals[g] = "completed"
    BY <1>i, <2>1 DEF GoalTaken
  <2> QED
    BY <2>2, <2>3, <2>4, <2>5, FinishKept
<1>6. ASSUME NEW p \in Plans, CreatePlan(p) PROVE FinishInv'
  <2>1. TasksKept /\ UNCHANGED <<goals, exec>>
    BY <1>6, CreatePlanEffect, UnchangedTasksKept
  <2>2. \A q \in Plans :
           stored[q].status # "absent" => stored'[q].goal = stored[q].goal
    BY <1>6, <1>i, CreatePlanEffect
  <2> QED
    BY <2>1, <2>2, FinishKept
<1>7. ASSUME NEW p \in Plans, Approve(p) \/ Refuse(p) \/ ExecuteRoute(p)
      PROVE  FinishInv'
  <2>1. TasksKept /\ UNCHANGED <<goals, exec>>
    BY <1>7, DecideEffect, UnchangedTasksKept
  <2>2. \A q \in Plans :
           stored[q].status # "absent" => stored'[q].goal = stored[q].goal
    BY <1>7, <1>i, DecideEffect DEF Decides
  <2> QED
    BY <2>1, <2>2, FinishKept
<1>8. ASSUME NEW p \in Plans, CrashInRunGoal(p) PROVE FinishInv'
  <2>1. PICK t \in Kinds : CreateTasks(p, t)
    BY <1>8, CrashInRunGoalEffect
  <2>2. TasksKept
    BY <1>8, <2>1, CrashInRunGoalEffect, CreatedTasksKept
  <2>3. \A g \in Goals : goals'[g] = "completed" => goals[g] = "completed"
    BY <1>8, <1>i, CrashInRunGoalEffect DEF GoalTaken
  <2> QED
    BY <1>8, <2>2, <2>3, CrashInRunGoalEffect, FinishKept
<1>9. ASSUME NEW p \in Plans, CrashInTask(p) PROVE FinishInv'
  <2>1. PICK k \in DOMAIN tasks[p] : tasks' = [tasks EXCEPT ![p][k] = "in_progress"]
    BY <1>9, CrashInTaskEffect
  <2>2. "in_progress" \in Statuses /\ UNCHANGED <<goals, stored, finished>>
    BY <1>9, CrashInTaskEffect DEF Statuses
  <2>3. TasksKept
    BY <2>1, <2>2, StatusTasksKept
  <2> QED
    BY <1>9, <2>2, <2>3, CrashInTaskEffect, FinishKept
<1>10. ASSUME NEW p \in Plans, GenerateTasks(p) PROVE FinishInv'
  <2>1. kind[p].template \in Kinds
    BY <1>10, <1>t, KindOfPlan DEF GenerateTasks, Consistent
  <2>2. TasksKept
    BY <1>10, <2>1, CreatedTasksKept DEF GenerateTasks
  <2> QED
    BY <1>10, <2>2, FinishKept DEF GenerateTasks
<1>11. CASE Mark
  <2>0. PICK p \in Plans, s \in Manual : \E k \in DOMAIN tasks[p] :
          /\ tasks' = [tasks EXCEPT ![p][k] = s]
          /\ finished' = IF s = "completed" THEN finished \union {<<p, k>>} ELSE finished
    BY <1>11 DEF Mark
  <2>1. PICK k \in DOMAIN tasks[p] :
          /\ tasks' = [tasks EXCEPT ![p][k] = s]
          /\ finished' = IF s = "completed" THEN finished \union {<<p, k>>} ELSE finished
    BY <2>0
  <2>2. s \in Statuses /\ UNCHANGED <<goals, stored, exec>>
    BY <1>11, GoalAssumption DEF Mark
  <2>3. TasksKept
    BY <2>1, <2>2, StatusTasksKept
  <2> QED
    BY <2>2, <2>3, FinishKept
<1>12. CASE Crash \/ UNCHANGED vars
  <2>1. TasksKept
    BY <1>12, UnchangedTasksKept DEF Crash, vars
  <2> QED
    BY <1>12, <2>1, FinishKept DEF Crash, Dies, vars
<1> QED
  BY <1>1, <1>2, <1>3, <1>4, <1>5, <1>6, <1>7, <1>8, <1>9, <1>10, <1>11, <1>12,
     WhichTask
  DEF Next, Request, TaskRequest

(* A goal is only completed by a plan made for it each of whose tasks was  *)
(* completed at some time, whoever else works on them or crashes between.  *)
THEOREM GoalCompletedByWorkCorrect == Spec => []GoalCompletedByWork
<1>1. Init => Typed /\ FinishInv
  BY TypedInit, FinishInit
<1>2. (Typed /\ FinishInv) /\ [Next]_vars => (Typed /\ FinishInv)'
  BY TypedStep, FinishStep
<1>3. FinishInv => GoalCompletedByWork
  BY DEF FinishInv
<1> QED
  BY <1>1, <1>2, <1>3, PTL DEF Spec
-----------------------------------------------------------------------------
(* Goals of finished plans. *)

LEMMA GoalKept ==
  ASSUME FinishedPlanHasGoal,
         crashes' = 0 /\ "execute" \notin Calls =>
           /\ crashes = 0
           /\ \A g \in Goals :
                goals[g] = "completed" => goals'[g] = "completed"
           /\ \A p \in Plans : stored'[p].status = "plan_finished" =>
                \/ /\ stored[p].status = "plan_finished"
                   /\ stored'[p].goal = stored[p].goal
                   /\ stored[p].goal \in Goals \union {NoGoal}
                \/ stored'[p].goal # NoGoal => goals'[stored'[p].goal] = "completed"
  PROVE  FinishedPlanHasGoal'
BY DEF FinishedPlanHasGoal

LEMMA GoalStep == Typed /\ FinishedPlanHasGoal /\ [Next]_vars => FinishedPlanHasGoal'
<1> SUFFICES ASSUME Typed, FinishedPlanHasGoal, [Next]_vars PROVE FinishedPlanHasGoal'
  OBVIOUS
<1>t. TypeOK /\ Consistent
  BY DEF Typed
<1>i. /\ exec \in [Execs -> {Idle} \union Copies] /\ stored \in [Plans -> Records]
      /\ goals \in [Goals -> {"absent", "active", "completed"}] /\ crashes \in Nat
      /\ \A p \in Plans : stored[p].goal \in Goals \union {NoGoal}
  BY <1>t, GoalAssumption DEF TypeOK, Records
<1>1. ASSUME NEW p \in Plans, NEW k \in DOMAIN tasks[p], RunTask(p, k)
      PROVE  FinishedPlanHasGoal'
  BY <1>1, <1>i, RunTaskEffect, GoalKept DEF Worked, Follows
<1>2. CASE SyncAll
  <2>1. UNCHANGED <<goals, crashes>>
    BY <1>2 DEF SyncAll
  <2> QED
    BY <1>2, <1>i, <2>1, SyncAllEffect, GoalKept DEF Follows
<1>3. ASSUME NEW e \in Execs, Work(e) PROVE FinishedPlanHasGoal'
  <2>1. exec[e].plan \in Plans
    BY <1>3, <1>t, WorkEffect, ExecTyped
  <2>2. PICK k \in DOMAIN tasks[exec[e].plan], outcome \in Statuses, s \in Records :
          /\ Worked(exec[e].plan, k, outcome) /\ Follows(exec[e].plan, s)
          /\ stored' = [stored EXCEPT ![exec[e].plan] = s]
    BY <1>3, WorkEffect
  <2> QED
    BY <1>i, <2>1, <2>2, GoalKept DEF Worked, Follows
<1>4. ASSUME NEW e \in Execs, Finish(e) \/ Fail(e) PROVE FinishedPlanHasGoal'
  <2>1. exec[e] # Idle /\ UNCHANGED crashes /\ exec[e].plan \in Plans
    BY <1>4, <1>t, EndEffect, ExecTyped
  <2>2. PICK r \in Records :
          /\ stored' = [stored EXCEPT ![exec[e].plan] = r]
          /\ goals' = IF r.status = "plan_finished" /\ r.goal # NoGoal
                      THEN [goals EXCEPT ![r.goal] = "completed"] ELSE goals
    BY <1>4, EndEffect
  <2>3. r.goal \in Goals \union {NoGoal}
    BY DEF Records
  <2>4. \A g \in Goals : goals[g] = "completed" => goals'[g] = "completed"
    BY <1>i, <2>2, <2>3
  <2>5. r.status = "plan_finished" /\ r.goal # NoGoal => goals'[r.goal] = "completed"
    BY <1>i, <2>2, <2>3
  <2> QED
    BY <1>i, <2>1, <2>2, <2>4, <2>5, GoalKept
<1>5. ASSUME NEW p \in Plans, RunGoal(p) \/ ExecuteApproved(p) \/ ExecuteCommand(p)
      PROVE  FinishedPlanHasGoal'
  <2>1. PICK t \in Kinds, r \in Records :
          Accepts(p, r) /\ GoalTaken /\ UNCHANGED crashes
    BY <1>5, AcceptEffect
  <2>2. r.status # "plan_finished" /\ stored' = [stored EXCEPT ![p] = r]
    BY <2>1 DEF Accepts
  <2>3. \A g \in Goals : goals[g] = "completed" => goals'[g] = "completed"
    BY <1>i, <2>1 DEF GoalTaken
  <2> QED
    BY <1>i, <2>1, <2>2, <2>3, GoalKept
<1>6. ASSUME NEW p \in Plans, CreatePlan(p) PROVE FinishedPlanHasGoal'
  BY <1>6, <1>i, CreatePlanEffect, GoalKept
<1>7. ASSUME NEW p \in Plans,
             Approve(p) \/ Refuse(p) \/ ("execute" \in Calls /\ ExecuteRoute(p))
      PROVE  FinishedPlanHasGoal'
  <2>1. CASE "execute" \in Calls
    BY <2>1, GoalKept
  <2>2. CASE Approve(p) \/ Refuse(p)
    <3>1. UNCHANGED <<goals, crashes>>
      BY <2>2 DEF Approve, Refuse
    <3>2. PICK s \in {"approved", "refused"} :
            \E b \in BOOLEAN : stored' = [stored EXCEPT ![p].approved = b, ![p].status = s]
      BY <2>2 DEF Approve, Refuse
    <3>3. stored'[p].status = s /\ \A q \in Plans : q # p => stored'[q] = stored[q]
      BY <1>i, <3>2 DEF Records
    <3> QED
      BY <1>i, <3>1, <3>3, GoalKept
  <2> QED
    BY <1>7, <2>1, <2>2
<1>8. ASSUME crashes' = crashes + 1 PROVE FinishedPlanHasGoal'
  BY <1>8, <1>i, GoalKept
<1>9. ASSUME UNCHANGED <<goals, stored, crashes>> PROVE FinishedPlanHasGoal'
  BY <1>9, <1>i, GoalKept
<1>10. \A p \in Plans : GenerateTasks(p) => FinishedPlanHasGoal'
  BY <1>9 DEF GenerateTasks
<1>11. Mark \/ UNCHANGED vars => FinishedPlanHasGoal'
  BY <1>9 DEF Mark, vars
<1>12. ASSUME NEW e \in Execs, CrashInFinish(e) PROVE FinishedPlanHasGoal'
  BY <1>8, <1>12 DEF CrashInFinish, Dies
<1>13. ASSUME NEW p \in Plans, CrashInRunGoal(p) \/ CrashInTask(p)
       PROVE  FinishedPlanHasGoal'
  BY <1>8, <1>13 DEF CrashInRunGoal, CrashInTask, Dies
<1>14. Crash => FinishedPlanHasGoal'
  BY <1>8 DEF Crash, Dies
<1> QED
  BY <1>1, <1>2, <1>3, <1>4, <1>5, <1>6, <1>7, <1>10, <1>11, <1>12, <1>13, <1>14,
     WhichTask
  DEF Next, Request, TaskRequest

(* While the server lives, and without POST /planner/execute, the goal of  *)
(* a plan that is reported finished is completed and is not reopened by    *)
(* further requests for the same objective.                                *)
THEOREM FinishedPlanHasGoalCorrect == Spec => []FinishedPlanHasGoal
<1>1. Init => Typed /\ FinishedPlanHasGoal
  <2>1. Init => FinishedPlanHasGoal
    BY DEF Init, FinishedPlanHasGoal, Absent
  <2> QED
    BY <2>1, TypedInit
<1>2. (Typed /\ FinishedPlanHasGoal) /\ [Next]_vars => (Typed /\ FinishedPlanHasGoal)'
  BY TypedStep, GoalStep
<1> QED
  BY <1>1, <1>2, PTL DEF Spec
-----------------------------------------------------------------------------
(* Approvals. *)

ApprovalInv == Recorded0 /\ SomeoneApproved

LEMMA ApprovalKept ==
  ASSUME ApprovalInv,
         \A p \in Plans : stored[p].approved \in BOOLEAN,
         crashes' = 0 =>
           /\ crashes = 0
           /\ \A p \in Plans :
                /\ tasks'[p] # << >> => tasks[p] # << >> \/ stored'[p].status # "absent"
                /\ stored'[p].status = "absent" => stored[p].status = "absent"
                /\ approval'[p] = "none" => approval[p] = "none"
                /\ stored'[p].approved => stored[p].approved \/ approval'[p] # "none"
           /\ \A e \in Execs : exec'[e] # Idle =>
                \/ exec[e] # Idle /\ exec'[e].plan = exec[e].plan /\ exec[e].plan \in Plans
                \/ approval'[exec'[e].plan] # "none"
  PROVE  ApprovalInv'
<1> SUFFICES ASSUME crashes' = 0 PROVE ApprovalInv'
  BY DEF ApprovalInv, Recorded0, SomeoneApproved
<1>1. Recorded0'
  BY DEF ApprovalInv, Recorded0
<1>2. ASSUME NEW p \in Plans, stored'[p].approved PROVE approval'[p] # "none"
  BY <1>2 DEF ApprovalInv, SomeoneApproved
<1>3. ASSUME NEW e \in Execs, exec'[e] # Idle PROVE approval'[exec'[e].plan] # "none"
  BY <1>3 DEF ApprovalInv, SomeoneApproved
<1> QED
  BY <1>1, <1>2, <1>3 DEF ApprovalInv, SomeoneApproved

LEMMA ApprovalStep == Typed /\ ApprovalInv /\ [Next]_vars => ApprovalInv'
<1> SUFFICES ASSUME Typed, ApprovalInv, [Next]_vars PROVE ApprovalInv'
  OBVIOUS
<1>t. TypeOK /\ Consistent /\ Consistent'
  BY TypedStep DEF Typed
<1>i. /\ exec \in [Execs -> {Idle} \union Copies] /\ stored \in [Plans -> Records]
      /\ approval \in [Plans -> {"none", "given", "withdrawn"}] /\ crashes \in Nat
      /\ \A p \in Plans : stored[p].approved \in BOOLEAN
  BY <1>t, GoalAssumption DEF TypeOK, Records
<1>a. \A e \in Execs : exec[e] # Idle => exec[e].plan \in Plans
  BY <1>t, ExecTyped
<1>1. ASSUME NEW p \in Plans, NEW k \in DOMAIN tasks[p], RunTask(p, k)
      PROVE  ApprovalInv'
  <2>1. PICK outcome \in Statuses, s \in Records :
           /\ Worked(p, k, outcome) /\ Follows(p, s)
           /\ stored' = [stored EXCEPT ![p] = s]
           /\ UNCHANGED exec
    BY <1>1, RunTaskEffect
  <2>2. \A q \in Plans : tasks'[q] = << >> <=> tasks[q] = << >>
    BY <2>1, SetStatusEffect DEF Worked, Typed
  <2>3. tasks[p] # << >>
    OBVIOUS
  <2>4. crashes = 0 => stored[p].status # "absent"
    BY <2>3 DEF ApprovalInv, Recorded0
  <2> QED
    BY <1>i, <1>a, <2>1, <2>2, <2>4, ApprovalKept DEF Worked, Follows
<1>2. CASE SyncAll
  <2>1. UNCHANGED <<tasks, exec, approval, crashes>>
    BY <1>2 DEF SyncAll
  <2>2. ASSUME crashes = 0, NEW p \in Plans, stored'[p].approved
        PROVE  stored[p].approved
    <3>1. CASE stored[p].status # "absent"
      BY <1>2, <2>2, <3>1, SyncAllEffect DEF Follows
    <3>2. CASE stored[p].status = "absent"
      <4>1. tasks[p] = << >>
        BY <2>2, <3>2 DEF ApprovalInv, Recorded0
      <4>2. stored'[p].status = "absent"
        BY <1>2, <3>2, <4>1, SyncAllEffect DEF Follows
      <4> QED
        BY <1>t, <2>2, <4>2 DEF Consistent, Absent
    <3> QED
      BY <3>1, <3>2
  <2>3. \A p \in Plans : stored'[p].status = "absent" => stored[p].status = "absent"
    BY <1>2, SyncAllEffect DEF Follows
  <2> QED
    BY <1>i, <1>a, <2>1, <2>2, <2>3, ApprovalKept
<1>3. ASSUME NEW e \in Execs, Work(e) PROVE ApprovalInv'
  <2>1. exec[e] # Idle /\ exec[e].plan \in Plans
    BY <1>3, <1>t, WorkEffect, ExecTyped
  <2>2. PICK k \in DOMAIN tasks[exec[e].plan], outcome \in Statuses,
             s \in Records, a \in Copies :
          /\ Worked(exec[e].plan, k, outcome) /\ Follows(exec[e].plan, s)
          /\ stored' = [stored EXCEPT ![exec[e].plan] = s]
          /\ exec' = [exec EXCEPT ![e] = a] /\ Advances(e, a)
    BY <1>3, WorkEffect
  <2>3. \A q \in Plans : tasks'[q] = << >> <=> tasks[q] = << >>
    BY <2>1, <2>2, SetStatusEffect DEF Worked, Typed
  <2>4. stored[exec[e].plan].status # "absent"
    BY <1>t, <2>1 DEF Consistent
  <2>5. \A f \in Execs : exec'[f] # Idle =>
          exec[f] # Idle /\ exec'[f].plan = exec[f].plan
    BY <1>i, <2>1, <2>2 DEF Advances
  <2>6. /\ UNCHANGED <<approval, crashes>>
        /\ \A q \in Plans : stored'[q].status = "absent" => stored[q].status = "absent"
        /\ \A q \in Plans : stored'[q].approved => stored[q].approved
    BY <1>i, <2>1, <2>2, <2>4 DEF Worked, Follows
  <2> QED
    BY <1>i, <1>a, <2>3, <2>5, <2>6, ApprovalKept
<1>4. ASSUME NEW e \in Execs, Finish(e) \/ Fail(e) PROVE ApprovalInv'
  <2>1. /\ exec[e] # Idle /\ exec[e].plan \in Plans
        /\ exec' = [exec EXCEPT ![e] = Idle]
        /\ UNCHANGED <<tasks, approval, crashes>>
    BY <1>4, <1>t, EndEffect, ExecTyped
  <2>2. PICK r \in Records :
          Reports(e, r) /\ stored' = [stored EXCEPT ![exec[e].plan] = r]
    BY <1>4, EndEffect
  <2>3. crashes = 0 => approval[exec[e].plan] # "none"
    BY <2>1 DEF ApprovalInv, SomeoneApproved
  <2>4. r.status # "absent"
    BY <2>2 DEF Reports
  <2> QED
    BY <1>i, <1>a, <2>1, <2>2, <2>3, <2>4, ApprovalKept
<1>5. ASSUME NEW p \in Plans, RunGoal(p) \/ ExecuteApproved(p) \/ ExecuteCommand(p)
      PROVE  ApprovalInv'
  <2>1. PICK t \in Kinds, r \in Records :
          MakesKind(p, t) /\ CreateTasks(p, t) /\ Accepts(p, r) /\ UNCHANGED crashes
    BY <1>5, AcceptEffect
  <2>2. \A q \in Plans : q # p => tasks'[q] = tasks[q]
    BY <2>1, CreateTasksEffect DEF Typed
  <2>3. r.status # "absent" /\ r.approved \in BOOLEAN
        /\ stored'[p] = r /\ \A q \in Plans : q # p => stored'[q] = stored[q]
    BY <1>i, <2>1 DEF Accepts, Records
  <2>4. \A q \in Plans : approval'[q] = "none" => approval[q] = "none"
    BY <2>1 DEF Accepts
  <2>5. crashes = 0 /\ r.approved => approval'[p] # "none"
    BY <2>1, <2>4 DEF Accepts, ApprovalInv, SomeoneApproved
  <2>6. \A e \in Execs : exec'[e] # Idle =>
          exec'[e] = exec[e] \/ (exec'[e].plan = p /\ r.approved)
    BY <1>i, <2>1 DEF Accepts, Copy
  <2> QED
    BY <1>i, <1>a, <2>1, <2>2, <2>3, <2>4, <2>5, <2>6, ApprovalKept
<1>6. ASSUME NEW p \in Plans, CreatePlan(p) PROVE ApprovalInv'
  BY <1>6, <1>i, <1>a, CreatePlanEffect, ApprovalKept
<1>7. ASSUME NEW p \in Plans, Approve(p) \/ Refuse(p) \/ ExecuteRoute(p)
      PROVE  ApprovalInv'
  <2>1. PICK s \in Records : Decides(p, s)
    BY <1>7, DecideEffect
  <2>2. /\ \A q \in Plans : approval'[q] = "none" => approval[q] = "none"
        /\ UNCHANGED <<tasks, exec, crashes>>
    BY <1>7, DecideEffect
  <2>3. s.status # "absent"
    BY <2>1 DEF Decides
  <2>4. s.approved => stored[p].approved \/ approval'[p] # "none"
    BY <2>1 DEF Decides
  <2>5. stored' = [stored EXCEPT ![p] = s]
    BY <2>1 DEF Decides
  <2> QED
    BY <1>i, <1>a, <2>2, <2>3, <2>4, <2>5, ApprovalKept
<1>8. ASSUME crashes' = crashes + 1 PROVE ApprovalInv'
  BY <1>8, <1>i, ApprovalKept
<1>9. ASSUME UNCHANGED <<stored, exec, approval, crashes>>,
             \A p \in Plans : tasks'[p] # << >> =>
                                tasks[p] # << >> \/ stored[p].status # "absent"
      PROVE  ApprovalInv'
  BY <1>9, <1>i, <1>a, ApprovalKept
<1>10. ASSUME NEW p \in Plans, GenerateTasks(p) PROVE ApprovalInv'
  <2>1. kind[p].template \in Kinds
    BY <1>10, <1>t, KindOfPlan DEF GenerateTasks, Consistent
  <2>2. \A q \in Plans : q # p => tasks'[q] = tasks[q]
    BY <1>10, <2>1, CreateTasksEffect DEF Typed, GenerateTasks
  <2> QED
    BY <1>9, <1>10, <2>2 DEF GenerateTasks
<1>11. CASE Mark
  <2>1. PICK p \in Plans, s \in Manual : \E k \in DOMAIN tasks[p] :
          tasks' = [tasks EXCEPT ![p][k] = s]
    BY <1>11 DEF Mark
  <2>2. PICK k \in DOMAIN tasks[p] : tasks' = [tasks EXCEPT ![p][k] = s]
    BY <2>1
  <2>3. \A q \in Plans : tasks'[q] = << >> <=> tasks[q] = << >>
    BY <2>2, GoalAssumption, SetStatusEffect DEF Typed
  <2> QED
    BY <1>9, <1>11, <2>3 DEF Mark
<1>12. UNCHANGED vars => ApprovalInv'
  BY <1>9 DEF vars
<1>13. ASSUME NEW e \in Execs, CrashInFinish(e) PROVE ApprovalInv'
  BY <1>8, <1>13 DEF CrashInFinish, Dies
<1>14. ASSUME NEW p \in Plans, CrashInRunGoal(p) \/ CrashInTask(p)
       PROVE  ApprovalInv'
  BY <1>8, <1>14 DEF CrashInRunGoal, CrashInTask, Dies
<1>15. Crash => ApprovalInv'
  BY <1>8 DEF Crash, Dies
<1> QED
  BY <1>1, <1>2, <1>3, <1>4, <1>5, <1>6, <1>7, <1>10, <1>11, <1>12, <1>13, <1>14,
     <1>15, WhichTask
  DEF Next, Request, TaskRequest

(* Nothing is approved or executed that neither the policy nor a person    *)
(* approved at some time, as long as the server lives.                     *)
THEOREM SomeoneApprovedCorrect == Spec => []SomeoneApproved
<1>1. Init => Typed /\ ApprovalInv
  <2>1. Init => ApprovalInv
    BY DEF Init, ApprovalInv, Recorded0, SomeoneApproved, Absent
  <2> QED
    BY <2>1, TypedInit
<1>2. (Typed /\ ApprovalInv) /\ [Next]_vars => (Typed /\ ApprovalInv)'
  BY TypedStep, ApprovalStep
<1>3. ApprovalInv => SomeoneApproved
  BY DEF ApprovalInv
<1> QED
  BY <1>1, <1>2, <1>3, PTL DEF Spec
-----------------------------------------------------------------------------
(* Running plans. *)

RunningInv == NoneInProgress /\ RunningIsReal

(* What a step may do to tasks in progress, running plans and executions.  *)
StillReal ==
  /\ crashes = 0
  /\ \A p \in Plans : \A k \in DOMAIN tasks'[p] :
       tasks'[p][k] = "in_progress" =>
         k \in DOMAIN tasks[p] /\ tasks[p][k] = "in_progress"
  /\ \A p \in Plans : stored'[p].status = "running" =>
       \/ stored[p].status = "running"
       \/ \E e \in Execs : exec'[e] # Idle /\ exec'[e].plan = p
       \/ \E k \in DOMAIN tasks'[p] : tasks'[p][k] = "in_progress"
  /\ \A e \in Execs : exec[e] # Idle =>
       \/ exec'[e] # Idle /\ exec'[e].plan = exec[e].plan
       \/ stored'[exec[e].plan].status # "running"

LEMMA RunningKept ==
  ASSUME RunningInv, crashes' = 0 /\ "in_progress" \notin Manual => StillReal
  PROVE  RunningInv'
<1> SUFFICES ASSUME crashes' = 0, "in_progress" \notin Manual PROVE RunningInv'
  BY DEF RunningInv, NoneInProgress, RunningIsReal
<1>1. StillReal
  OBVIOUS
<1>2. \A p \in Plans : \A k \in DOMAIN tasks'[p] : tasks'[p][k] # "in_progress"
  BY <1>1 DEF RunningInv, NoneInProgress, StillReal
<1>3. ASSUME NEW p \in Plans, stored'[p].status = "running"
      PROVE  \E e \in Execs : exec'[e] # Idle /\ exec'[e].plan = p
  <2>1. CASE stored[p].status = "running"
    <3>1. PICK e \in Execs : exec[e] # Idle /\ exec[e].plan = p
      BY <1>1, <2>1 DEF RunningInv, RunningIsReal, StillReal
    <3> QED
      BY <1>1, <1>3, <3>1 DEF StillReal
  <2>2. CASE stored[p].status # "running"
    BY <1>1, <1>2, <1>3, <2>2 DEF StillReal
  <2> QED
    BY <2>1, <2>2
<1> QED
  BY <1>2, <1>3 DEF RunningInv, NoneInProgress, RunningIsReal

(* No status but the new one is given to a task.                           *)
LEMMA OneStatus ==
  ASSUME Typed, NEW p \in Plans, NEW k \in DOMAIN tasks[p], NEW s \in Statuses,
         tasks' = [tasks EXCEPT ![p][k] = s]
  PROVE  \A q \in Plans : \A j \in DOMAIN tasks'[q] :
           /\ j \in DOMAIN tasks[q]
           /\ (q = p /\ j = k /\ tasks'[q][j] = s) \/ tasks'[q][j] = tasks[q][j]
<1>1. \A q \in Plans :
        /\ q # p => tasks'[q] = tasks[q]
        /\ DOMAIN tasks'[q] = DOMAIN tasks[q]
  BY SetStatusEffect DEF Typed
<1>2. \A j \in DOMAIN tasks[p] :
        tasks'[p][j] = IF j = k THEN s ELSE tasks[p][j]
  BY SetStatusEffect DEF Typed
<1> QED
  BY <1>1, <1>2

LEMMA RunningStep == Typed /\ RunningInv /\ [Next]_vars => RunningInv'
<1> SUFFICES ASSUME Typed, RunningInv, [Next]_vars PROVE RunningInv'
  OBVIOUS
<1>t. TypeOK /\ Consistent
  BY DEF Typed
<1>i. /\ exec \in [Execs -> {Idle} \union Copies] /\ stored \in [Plans -> Records]
      /\ crashes \in Nat
      /\ \A a \in Copies : a # Idle
  BY <1>t, GoalAssumption DEF TypeOK, Copies, Idle
<1>1. ASSUME NEW p \in Plans, NEW k \in DOMAIN tasks[p], RunTask(p, k)
      PROVE  RunningInv'
  <2>1. PICK outcome \in Statuses, s \in Records :
           /\ Worked(p, k, outcome) /\ Follows(p, s)
           /\ stored' = [stored EXCEPT ![p] = s]
           /\ UNCHANGED exec
    BY <1>1, RunTaskEffect
  <2>2. \A q \in Plans : \A j \in DOMAIN tasks'[q] :
           j \in DOMAIN tasks[q] /\ tasks'[q][j] \in {outcome, tasks[q][j]}
    BY <2>1, OneStatus DEF Worked
  <2>3. \A q \in Plans : stored'[q].status = "running" =>
          \/ stored[q].status = "running"
          \/ \E j \in DOMAIN tasks'[q] : tasks'[q][j] = "in_progress"
    BY <1>i, <2>1 DEF Follows
  <2>4. outcome # "in_progress" /\ UNCHANGED crashes
    BY <2>1 DEF Worked
  <2> QED
    BY <2>1, <2>2, <2>3, <2>4, RunningKept DEF StillReal
<1>2. CASE SyncAll
  <2>1. UNCHANGED <<tasks, exec, crashes>>
    BY <1>2 DEF SyncAll
  <2>2. \A q \in Plans : stored'[q].status = "running" =>
          \/ stored[q].status = "running"
          \/ \E j \in DOMAIN tasks'[q] : tasks'[q][j] = "in_progress"
    BY <1>2, SyncAllEffect DEF Follows
  <2> QED
    BY <2>1, <2>2, RunningKept DEF StillReal
<1>3. ASSUME NEW e \in Execs, Work(e) PROVE RunningInv'
  <2>1. exec[e] # Idle /\ exec[e].plan \in Plans
    BY <1>3, <1>t, WorkEffect, ExecTyped
  <2>2. PICK k \in DOMAIN tasks[exec[e].plan], outcome \in Statuses,
             s \in Records, a \in Copies :
          /\ Worked(exec[e].plan, k, outcome) /\ Follows(exec[e].plan, s)
          /\ stored' = [stored EXCEPT ![exec[e].plan] = s]
          /\ exec' = [exec EXCEPT ![e] = a] /\ Advances(e, a)
    BY <1>3, WorkEffect
  <2>3. \A q \in Plans : \A j \in DOMAIN tasks'[q] :
           j \in DOMAIN tasks[q] /\ tasks'[q][j] \in {outcome, tasks[q][j]}
    BY <2>1, <2>2, OneStatus DEF Worked
  <2>4. \A q \in Plans : stored'[q].status = "running" =>
          \/ stored[q].status = "running"
          \/ \E j \in DOMAIN tasks'[q] : tasks'[q][j] = "in_progress"
    BY <1>i, <2>1, <2>2 DEF Follows
  <2>5. \A f \in Execs : exec[f] # Idle =>
          exec'[f] # Idle /\ exec'[f].plan = exec[f].plan
    BY <1>i, <2>1, <2>2 DEF Advances
  <2>6. outcome # "in_progress" /\ UNCHANGED crashes
    BY <2>2 DEF Worked
  <2> QED
    BY <2>3, <2>4, <2>5, <2>6, RunningKept DEF StillReal
<1>4. ASSUME NEW e \in Execs, Finish(e) \/ Fail(e) PROVE RunningInv'
  <2>1. /\ exec[e] # Idle /\ exec[e].plan \in Plans
        /\ exec' = [exec EXCEPT ![e] = Idle]
        /\ UNCHANGED <<tasks, crashes>>
    BY <1>4, <1>t, EndEffect, ExecTyped
  <2>2. PICK r \in Records :
          Reports(e, r) /\ stored' = [stored EXCEPT ![exec[e].plan] = r]
    BY <1>4, EndEffect
  <2>3. r.status # "running"
    BY <2>2 DEF Reports
  <2>4. \A q \in Plans : stored'[q].status = "running" => stored[q].status = "running"
    BY <1>i, <2>1, <2>2, <2>3
  <2>5. stored'[exec[e].plan].status # "running"
    BY <1>i, <2>1, <2>2, <2>3
  <2>6. \A f \in Execs : f # e => exec'[f] = exec[f]
    BY <1>i, <2>1
  <2> QED
    BY <2>1, <2>4, <2>5, <2>6, RunningKept DEF StillReal
<1>5. ASSUME NEW p \in Plans, RunGoal(p) \/ ExecuteApproved(p) \/ ExecuteCommand(p)
      PROVE  RunningInv'
  <2>1. PICK t \in Kinds, r \in Records :
          MakesKind(p, t) /\ CreateTasks(p, t) /\ Accepts(p, r) /\ UNCHANGED crashes
    BY <1>5, AcceptEffect
  <2>2. \A q \in Plans : \A k \in DOMAIN tasks'[q] :
          tasks'[q][k] = "in_progress" => tasks'[q] = tasks[q]
    BY <2>1, CreateTasksEffect DEF Typed
  <2>3. \A q \in Plans : stored'[q].status = "running" =>
          \/ stored[q].status = "running"
          \/ \E e \in Execs : exec'[e] # Idle /\ exec'[e].plan = q
    <3>1. \A e \in Execs : Copy(p, r).plan = p /\ Copy(p, r) # Idle
      BY DEF Copy, Idle
    <3> QED
      BY <1>i, <2>1, <3>1 DEF Accepts
  <2>4. \A e \in Execs : exec[e] # Idle => exec'[e] = exec[e]
    BY <1>i, <2>1 DEF Accepts
  <2> QED
    BY <2>1, <2>2, <2>3, <2>4, RunningKept DEF StillReal
<1>6. ASSUME NEW p \in Plans, CreatePlan(p) PROVE RunningInv'
  <2>1. UNCHANGED <<tasks, exec, crashes>>
        /\ \A q \in Plans : stored'[q].status = "running" => stored[q].status = "running"
    BY <1>6, <1>i, CreatePlanEffect
  <2> QED
    BY <2>1, RunningKept DEF StillReal
<1>7. ASSUME NEW p \in Plans, Approve(p) \/ Refuse(p) \/ ExecuteRoute(p)
      PROVE  RunningInv'
  <2>1. PICK s \in Records :
          s.status # "running" /\ stored' = [stored EXCEPT ![p] = s]
    BY <1>7, DecideEffect DEF Decides
  <2>2. UNCHANGED <<tasks, exec, crashes>>
    BY <1>7, DecideEffect
  <2>3. \A q \in Plans : stored'[q].status = "running" => stored[q].status = "running"
    BY <1>i, <2>1
  <2> QED
    BY <2>2, <2>3, RunningKept DEF StillReal
<1>8. ASSUME crashes' = crashes + 1 PROVE RunningInv'
  BY <1>8, <1>i, RunningKept
<1>9. ASSUME NEW p \in Plans, GenerateTasks(p) PROVE RunningInv'
  <2>1. kind[p].template \in Kinds
    BY <1>9, <1>t, KindOfPlan DEF GenerateTasks, Consistent
  <2>2. \A q \in Plans : \A k \in DOMAIN tasks'[q] :
          tasks'[q][k] = "in_progress" => tasks'[q] = tasks[q]
    BY <1>9, <2>1, CreateTasksEffect DEF Typed, GenerateTasks
  <2> QED
    BY <1>9, <2>2, RunningKept DEF GenerateTasks, StillReal
<1>10. CASE Mark
  <2>1. PICK p \in Plans, s \in Manual : \E k \in DOMAIN tasks[p] :
          tasks' = [tasks EXCEPT ![p][k] = s]
    BY <1>10 DEF Mark
  <2>2. PICK k \in DOMAIN tasks[p] : tasks' = [tasks EXCEPT ![p][k] = s]
    BY <2>1
  <2>3. \A q \in Plans : \A j \in DOMAIN tasks'[q] :
           j \in DOMAIN tasks[q] /\ tasks'[q][j] \in {s, tasks[q][j]}
    BY <2>2, GoalAssumption, OneStatus
  <2> QED
    BY <1>10, <2>3, RunningKept DEF Mark, StillReal
<1>11. UNCHANGED vars => RunningInv'
  BY RunningKept DEF vars, StillReal
<1>12. ASSUME NEW e \in Execs, CrashInFinish(e) PROVE RunningInv'
  BY <1>8, <1>12 DEF CrashInFinish, Dies
<1>13. ASSUME NEW p \in Plans, CrashInRunGoal(p) \/ CrashInTask(p)
       PROVE  RunningInv'
  BY <1>8, <1>13 DEF CrashInRunGoal, CrashInTask, Dies
<1>14. Crash => RunningInv'
  BY <1>8 DEF Crash, Dies
<1> QED
  BY <1>1, <1>2, <1>3, <1>4, <1>5, <1>6, <1>7, <1>9, <1>10, <1>11, <1>12, <1>13,
     <1>14, WhichTask
  DEF Next, Request, TaskRequest

(* While the server lives, and nobody sets a task in progress by hand, a   *)
(* plan that is shown as running has an execution that will report on it.  *)
THEOREM RunningIsRealCorrect == Spec => []RunningIsReal
<1>1. Init => Typed /\ RunningInv
  <2>1. Init => RunningInv
    BY DEF Init, RunningInv, NoneInProgress, RunningIsReal, Absent
  <2> QED
    BY <2>1, TypedInit
<1>2. (Typed /\ RunningInv) /\ [Next]_vars => (Typed /\ RunningInv)'
  BY TypedStep, RunningStep
<1>3. RunningInv => RunningIsReal
  BY DEF RunningInv
<1> QED
  BY <1>1, <1>2, <1>3, PTL DEF Spec
-----------------------------------------------------------------------------
(* Completed tasks. *)

(* A step that takes the completion of a task back is none of an execution.*)
KeepsCompleted ==
  \A p \in Plans : \A k \in DOMAIN tasks[p] :
    tasks[p][k] = "completed" /\ tasks'[p][k] # "completed"
      => exec' = exec \/ crashes' # crashes

LEMMA CreatedKeepsCompleted ==
  ASSUME Typed, NEW p \in Plans, NEW t \in Kinds, CreateTasks(p, t)
  PROVE  KeepsCompleted
<1>1. \A q \in Plans : tasks[q] # << >> => tasks'[q] = tasks[q]
  BY CreateTasksEffect DEF Typed
<1> QED
  BY <1>1 DEF KeepsCompleted

LEMMA KeepsCompletedStep == Typed /\ [Next]_vars => KeepsCompleted
<1> SUFFICES ASSUME Typed, [Next]_vars PROVE KeepsCompleted
  OBVIOUS
<1>t. TypeOK /\ crashes \in Nat
  <2>1. TypeOK
    BY DEF Typed
  <2>2. MaxCrashes \in Nat /\ crashes \in 0..MaxCrashes
    BY <2>1, GoalAssumption DEF TypeOK
  <2> QED
    BY <2>1, <2>2
<1>1. ASSUME NEW p \in Plans, NEW k \in DOMAIN tasks[p], RunTask(p, k)
      PROVE  KeepsCompleted
  <2>1. UNCHANGED exec
    BY <1>1, RunTaskEffect
  <2> QED
    BY <2>1 DEF KeepsCompleted
<1>2. SyncAll => KeepsCompleted
  BY DEF SyncAll, KeepsCompleted
<1>3. ASSUME NEW e \in Execs, Work(e) PROVE KeepsCompleted
  <2>1. exec[e] # Idle /\ exec[e].plan \in Plans
    BY <1>3, <1>t, WorkEffect, ExecTyped
  <2>2. PICK k \in DOMAIN tasks[exec[e].plan], outcome \in Statuses :
          /\ tasks[exec[e].plan][k] \notin {"completed", "skipped"}
          /\ tasks' = [tasks EXCEPT ![exec[e].plan][k] = outcome]
    <3>1. PICK k \in DOMAIN tasks[exec[e].plan], outcome \in Statuses,
               s \in Records, a \in Copies :
            /\ tasks[exec[e].plan][k] \notin {"completed", "skipped"}
            /\ Worked(exec[e].plan, k, outcome)
      BY <1>3, WorkEffect
    <3> QED
      BY <3>1 DEF Worked
  <2>3. \A q \in Plans : \A j \in DOMAIN tasks'[q] :
           \/ q = exec[e].plan /\ j = k
           \/ tasks'[q][j] = tasks[q][j]
    BY <2>1, <2>2, OneStatus
  <2>4. \A q \in Plans : DOMAIN tasks'[q] = DOMAIN tasks[q]
    BY <2>1, <2>2, SetStatusEffect DEF Typed
  <2> QED
    BY <2>2, <2>3, <2>4 DEF KeepsCompleted
<1>4. ASSUME NEW e \in Execs, Finish(e) \/ Fail(e) \/ CrashInFinish(e)
      PROVE  KeepsCompleted
  BY <1>4, EndEffect, CrashInFinishEffect DEF KeepsCompleted
<1>5. ASSUME NEW p \in Plans, RunGoal(p) \/ ExecuteApproved(p) \/ ExecuteCommand(p)
      PROVE  KeepsCompleted
  BY <1>5, AcceptEffect, CreatedKeepsCompleted
<1>6. ASSUME NEW p \in Plans,
             CreatePlan(p) \/ Approve(p) \/ Refuse(p) \/ ExecuteRoute(p)
      PROVE  KeepsCompleted
  BY <1>6 DEF CreatePlan, Approve, Refuse, ExecuteRoute, KeepsCompleted
<1>7. ASSUME NEW p \in Plans, GenerateTasks(p) PROVE KeepsCompleted
  BY <1>7 DEF GenerateTasks, KeepsCompleted
<1>8. Mark \/ UNCHANGED vars => KeepsCompleted
  BY DEF Mark, vars, KeepsCompleted
<1>9. ASSUME crashes' = crashes + 1 PROVE KeepsCompleted
  BY <1>t, <1>9 DEF KeepsCompleted
<1>10. \A p \in Plans : CrashInRunGoal(p) \/ CrashInTask(p) => KeepsCompleted
  BY <1>9 DEF CrashInRunGoal, CrashInTask, Dies
<1>11. Crash => KeepsCompleted
  BY <1>9 DEF Crash, Dies
<1> QED
  BY <1>1, <1>2, <1>3, <1>4, <1>5, <1>6, <1>7, <1>8, <1>10, <1>11, WhichTask
  DEF Next, Request, TaskRequest

(* No step of an execution works on a task that is completed, whoever      *)
(* completed it since the last step of that execution.                     *)
THEOREM CompletedTaskIsKeptCorrect == Spec => CompletedTaskIsKept
<1>1. Typed /\ [Next]_vars =>
        [\A p \in Plans : \A k \in DOMAIN tasks[p] :
           tasks[p][k] = "completed" /\ tasks'[p][k] # "completed"
             => exec' = exec \/ crashes' # crashes]_vars
  BY KeepsCompletedStep DEF KeepsCompleted
<1> QED
  BY TypedInit, TypedStep, <1>1, PTL DEF Spec, CompletedTaskIsKept
=============================================================================
