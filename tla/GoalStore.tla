------------------------------ MODULE GoalStore ------------------------------
(***************************************************************************)
(* The goal system (core/goals/goal_manager.py, persistence.py and the     *)
(* routes of core/goals/routes.py): goals_state.json, read and replaced as *)
(* a whole by the server in every operation, and read by the cognitive     *)
(* loop, another process.  Only the last 50 goals are kept.                *)
(***************************************************************************)
EXTENDS Naturals, Sequences

CONSTANTS
  GoalTitles,   \* titles of goals
  CoreTitles,   \* the titles of ensure_core_goals, in order
  HighTitles,   \* titles of goals of high priority
  Keep,         \* the 50 goals _save_goals keeps
  MaxGoals      \* bound: goals made

ASSUME GoalStoreAssumption ==
  /\ CoreTitles \in Seq(GoalTitles) /\ HighTitles \subseteq GoalTitles
  /\ Keep \in Nat \ {0} /\ MaxGoals \in Nat

VARIABLES
  goals,      \* the goals of the file, in its order
  activeId,   \* active_goal_id of the file, 0 for none
  goalsMade   \* created_at of the newest goal, and its id

goalVars == <<goals, activeId, goalsMade>>

OpenGoal == {"pending", "active"}
GoalStatuses == OpenGoal \cup {"completed", "failed"}
Goal == [id : 1..MaxGoals, title : GoalTitles, status : GoalStatuses]

GoalStoreTypeOK ==
  /\ goals \in Seq(Goal) /\ Len(goals) <= Keep
  /\ activeId \in 0..MaxGoals /\ goalsMade \in 0..MaxGoals

GoalStoreInit == goals = <<>> /\ activeId = 0 /\ goalsMade = 0

Open(s) == {i \in DOMAIN s : s[i].status \in OpenGoal}
High(g) == g.title \in HighTitles

(* _select_active_goal: the highest priority, then the newest.             *)
Before(a, b) == IF High(a) # High(b) THEN High(a) ELSE a.id > b.id
Selected(s) ==
  IF Open(s) = {} THEN 0
  ELSE s[CHOOSE i \in Open(s) : \A j \in Open(s) \ {i} : Before(s[i], s[j])].id

(* Mutant: one goal more than the limit stays.                             *)
KeptOneMore(s) ==
  IF Len(s) > Keep THEN SubSeq(s, Len(s) - Keep, Len(s)) ELSE s

Kept(s) == IF Len(s) > Keep THEN SubSeq(s, Len(s) - Keep + 1, Len(s)) ELSE s

(* Mutant: a save keeps the active goal it finds in the file.              *)
SaveGoalsOnly(s) ==
  /\ goals' = Kept(s)
  /\ activeId' = IF activeId = 0 THEN Selected(s) ELSE activeId

(* _save_goals: the active goal is chosen before the oldest are dropped.   *)
SaveGoals(s) == goals' = Kept(s) /\ activeId' = Selected(s)

(* What create_goal leaves: an open goal of that title is kept as it is.   *)
Added(store, title) ==
  LET s == store.goals
  IN IF \E i \in Open(s) : s[i].title = title THEN store
     ELSE LET n == store.made + 1
              all == Append(s, [id |-> n, title |-> title, status |-> "pending"])
          IN [goals |-> Kept(all), active |-> Selected(all), made |-> n]

Write(store) ==
  /\ store.made <= MaxGoals /\ store.made # goalsMade
  /\ goals' = store.goals /\ activeId' = store.active /\ goalsMade' = store.made

Store == [goals |-> goals, active |-> activeId, made |-> goalsMade]

CreateGoal == \E t \in GoalTitles : Write(Added(Store, t))

(* What the server finds after the first n of the core goals.              *)
Ensured[n \in 0 .. Len(CoreTitles)] ==
  IF n = 0 THEN Store ELSE Added(Ensured[n - 1], CoreTitles[n])

(* The server starts.                                                      *)
EnsureCoreGoals == Write(Ensured[Len(CoreTitles)])

GetActiveGoal ==
  \E i \in DOMAIN goals :
    /\ goals[i].id = Selected(goals) /\ goals[i].status = "pending"
    /\ goals' = Kept([goals EXCEPT ![i].status = "active"])
    /\ activeId' = goals[i].id
    /\ UNCHANGED goalsMade

(* The routes complete and fail, and the orchestrator.                     *)
UpdateStatus ==
  \E i \in DOMAIN goals, st \in GoalStatuses \ {"pending"} :
    /\ SaveGoals([goals EXCEPT ![i].status = st])
    /\ UNCHANGED goalsMade

UpdateProgress == goals # <<>> /\ SaveGoals(goals) /\ UNCHANGED goalsMade

GoalStoreNext ==
  CreateGoal \/ EnsureCoreGoals \/ GetActiveGoal \/ UpdateStatus \/ UpdateProgress

GoalStoreSpec == GoalStoreInit /\ [][GoalStoreNext]_goalVars

-----------------------------------------------------------------------------
(* The goal the loop reads from the file: the one of active_goal_id, or    *)
(* the first whose status is active.                                       *)
LoopGoal ==
  LET named == {i \in DOMAIN goals : goals[i].id = activeId}
      first == {i \in DOMAIN goals : /\ goals[i].status = "active"
                  /\ \A j \in 1..(i - 1) : goals[j].status # "active"}
      chosen == IF named # {} THEN named ELSE first
  IN IF chosen = {} THEN 0 ELSE goals[CHOOSE i \in chosen : TRUE].id

(* Two processes choose the goal to work for by different rules: the loop  *)
(* never works for a goal that is completed or failed, and, as long as no  *)
(* goal can have been dropped, works for the one the server would choose.  *)
LoopFollowsServer ==
  /\ LoopGoal # 0 => \E i \in Open(goals) : goals[i].id = LoopGoal
  /\ goalsMade <= Keep => LoopGoal = Selected(goals)
=============================================================================
