---------------------------- MODULE Goals_proofs ----------------------------
(***************************************************************************)
(* Proofs about how it is decided what is worked on: the arithmetic of the *)
(* risk policy for plans of any length (PlanReview), and the goals, of     *)
(* which the server and the cognitive loop choose one each (GoalStore).    *)
(***************************************************************************)
EXTENDS PlanReview, GoalStore, Lists_proofs, SequenceTheorems

-----------------------------------------------------------------------------
(* The review of a plan (PlanReview).                                      *)

LEMMA ProfileFields ==
  ASSUME NEW n \in Nat, NEW p \in Profiles(n)
  PROVE  /\ p.steps \in Nat /\ p.sensitive \in Nat
         /\ p.code \in Nat /\ p.tests \in Nat
         /\ p.keyword \in BOOLEAN /\ p.flagged \in BOOLEAN
         /\ p.sensitive <= p.steps /\ p.code <= p.steps
BY DEF Profiles

(* The decision in terms of the score before it is cut at 100.             *)
LEMMA DecisionByScore ==
  ASSUME NEW n \in Nat, NEW p \in Profiles(n), NEW a \in BOOLEAN
  PROVE  /\ FullScore(p, a) \in Nat
         /\ Decision(p, a) = "blocked" <=> FullScore(p, a) > 95
         /\ Decision(p, a) = "auto_execute"
              <=> ~Sensitive(p) /\ ~p.flagged /\ FullScore(p, a) <= 50
<1>1. FullScore(p, a) \in Nat
  BY ProfileFields DEF FullScore, StepScore, MaxOf
<1>2. OrchestratorScore(p, a) \in Nat
      /\ (OrchestratorScore(p, a) > 95 <=> FullScore(p, a) > 95)
  BY <1>1, ProfileFields DEF OrchestratorScore, RiskScore, MaxOf, MinOf
<1>3. ~p.flagged => (OrchestratorScore(p, a) <= 50 <=> FullScore(p, a) <= 50)
  BY <1>1, ProfileFields DEF OrchestratorScore, RiskScore, MinOf
<1>4. FullScore(p, a) <= 50
        => (OrchestratorAllowed(p, a) <=> ~p.flagged /\ ~Sensitive(p))
  BY <1>1, ProfileFields DEF OrchestratorAllowed, Allowed
<1>5. Decision(p, a) = "blocked" <=> OrchestratorScore(p, a) > 95
  BY DEF Decision, Decide
<1>6. Decision(p, a) = "auto_execute"
        <=> /\ OrchestratorScore(p, a) <= 50
            /\ ~p.flagged /\ OrchestratorAllowed(p, a)
  BY <1>2 DEF Decision, Decide
<1> QED
  BY <1>1, <1>2, <1>3, <1>4, <1>5, <1>6

(* A missing approval adds 20, before the score is cut at 100.             *)
LEMMA ApprovalLowersScore ==
  ASSUME NEW n \in Nat, NEW p \in Profiles(n)
  PROVE  /\ FullScore(p, FALSE) = FullScore(p, TRUE) + 20
         /\ Sensitive(p) => FullScore(p, FALSE) >= 110
BY ProfileFields DEF FullScore, StepScore, MaxOf

(* Decisions about the same plan, without an approval and with it.         *)
LEMMA DecisionsCompare ==
  ASSUME NEW n \in Nat, NEW p \in Profiles(n)
  PROVE  /\ Sensitive(p) => Decision(p, FALSE) = "blocked"
         /\ Decision(p, TRUE) = "blocked" => Decision(p, FALSE) = "blocked"
         /\ Decision(p, FALSE) = "auto_execute"
              => Decision(p, TRUE) = "auto_execute"
<1> DEFINE unapproved == FullScore(p, FALSE)
           approved_  == FullScore(p, TRUE)
<1>1. /\ unapproved \in Nat
      /\ Decision(p, FALSE) = "blocked" <=> unapproved > 95
      /\ Decision(p, FALSE) = "auto_execute"
           <=> ~Sensitive(p) /\ ~p.flagged /\ unapproved <= 50
  BY DecisionByScore
<1>2. /\ approved_ \in Nat
      /\ Decision(p, TRUE) = "blocked" <=> approved_ > 95
      /\ Decision(p, TRUE) = "auto_execute"
           <=> ~Sensitive(p) /\ ~p.flagged /\ approved_ <= 50
  BY DecisionByScore
<1>3. /\ unapproved = approved_ + 20
      /\ Sensitive(p) => unapproved >= 110
  BY ApprovalLowersScore
<1> HIDE DEF unapproved, approved_
<1>4. unapproved > 95 \/ ~Sensitive(p)
  BY <1>1, <1>3
<1>5. approved_ > 95 => unapproved > 95
  BY <1>1, <1>2, <1>3
<1>6. unapproved <= 50 => approved_ <= 50
  BY <1>1, <1>2, <1>3
<1> QED
  BY <1>1, <1>2, <1>4, <1>5, <1>6, Zenon

(* The permission of the critic needs a lower score than the decision.     *)
LEMMA AllowedIsNotBlocked ==
  ASSUME NEW n \in Nat, NEW p \in Profiles(n), NEW a \in BOOLEAN, Allowed(p, a)
  PROVE  Decision(p, a) # "blocked"
<1>1. FullScore(p, a) <= 80
  BY DEF Allowed
<1>2. FullScore(p, a) \in Nat
      /\ (Decision(p, a) = "blocked" <=> FullScore(p, a) > 95)
  BY DecisionByScore
<1> QED
  BY <1>1, <1>2

-----------------------------------------------------------------------------
LEMMA DecisionType ==
  ASSUME NEW p, NEW a
  PROVE  Decision(p, a) \in {"blocked", "approval_required", "auto_execute"}
BY DEF Decision, Decide

(* The variables of the review always have their types.                    *)
THEOREM ReviewTypeCorrect == Spec => []TypeOK
<1>1. Init => TypeOK
  BY DEF Init, TypeOK
<1>2. TypeOK /\ [Next]_vars => TypeOK'
  <2> SUFFICES ASSUME TypeOK, [Next]_vars PROVE TypeOK'
    OBVIOUS
  <2> USE DEF TypeOK
  <2>1. CASE RunGoal BY <2>1, DecisionType DEF RunGoal
  <2>2. CASE ExecuteApproved BY <2>2 DEF ExecuteApproved
  <2>3. CASE ExecuteCommand BY <2>3 DEF ExecuteCommand
  <2>4. CASE ExecuteRoute BY <2>4 DEF ExecuteRoute
  <2>5. CASE Approve BY <2>5 DEF Approve
  <2>6. CASE Refuse BY <2>6 DEF Refuse
  <2>7. CASE UNCHANGED vars BY <2>7 DEF vars
  <2> QED BY <2>1, <2>2, <2>3, <2>4, <2>5, <2>6, <2>7 DEF Next
<1> QED
  BY <1>1, <1>2, PTL DEF Spec

LEMMA PlanIsProfile ==
  ASSUME TypeOK
  PROVE  MaxSteps \in Nat /\ plan \in Profiles(MaxSteps)
BY MaxStepsAssumption DEF TypeOK

(* Plans the orchestrator runs without a human match no sensitive word or  *)
(* action and have at most two steps by agents that produce code.          *)
THEOREM AutoIsHarmlessCorrect == Spec => []AutoIsHarmless
<1>1. Init => AutoIsHarmless
  BY DEF Init, AutoIsHarmless
<1>2. TypeOK /\ AutoIsHarmless /\ [Next]_vars => AutoIsHarmless'
  <2> SUFFICES ASSUME TypeOK, AutoIsHarmless, [Next]_vars,
                      verdict' = "auto_execute"
               PROVE  AutoIsHarmless'
    BY DEF AutoIsHarmless
  <2>1. plan' = plan
    BY DEF Next, RunGoal, ExecuteApproved, ExecuteCommand, ExecuteRoute,
           Approve, Refuse, vars
  <2>2. CASE verdict = "auto_execute"
    BY <2>1, <2>2 DEF AutoIsHarmless, Sensitive
  <2>3. CASE RunGoal
    <3>1. Decision(plan, FALSE) = "auto_execute"
      BY <2>3 DEF RunGoal
    <3>2. /\ ~Sensitive(plan) /\ ~plan.flagged
          /\ FullScore(plan, FALSE) <= 50
      BY <3>1, DecisionByScore, PlanIsProfile
    <3>3. /\ plan.steps \in Nat /\ plan.sensitive \in Nat
          /\ plan.code \in Nat /\ plan.tests \in Nat
      BY ProfileFields, PlanIsProfile
    <3>4. plan.steps > 0 /\ 15 * plan.code + 5 * plan.tests <= 30
      BY <3>2, <3>3 DEF FullScore, StepScore
    <3> QED
      BY <2>1, <3>2, <3>3, <3>4 DEF AutoIsHarmless, Sensitive
  <2> QED
    BY <2>2, <2>3 DEF Next, ExecuteApproved, ExecuteCommand, ExecuteRoute,
                      Approve, Refuse, vars
<1> QED
  BY <1>1, <1>2, ReviewTypeCorrect, PTL DEF Spec

(* A plan the critic finds sensitive neither waits for approval nor runs   *)
(* at once.                                                                *)
THEOREM SensitiveIsBlockedCorrect == Spec => []SensitiveIsBlocked
<1>1. Init => SensitiveIsBlocked
  BY DEF Init, SensitiveIsBlocked
<1>2. TypeOK /\ SensitiveIsBlocked /\ [Next]_vars => SensitiveIsBlocked'
  <2> SUFFICES ASSUME TypeOK, SensitiveIsBlocked, [Next]_vars
               PROVE  SensitiveIsBlocked'
    OBVIOUS
  <2>1. plan' = plan
    BY DEF Next, RunGoal, ExecuteApproved, ExecuteCommand, ExecuteRoute,
           Approve, Refuse, vars
  <2>2. CASE RunGoal
    BY <2>1, <2>2, DecisionsCompare, PlanIsProfile
    DEF RunGoal, SensitiveIsBlocked, Sensitive
  <2>3. CASE ExecuteRoute
    BY <2>1, <2>3 DEF ExecuteRoute, Allowed, SensitiveIsBlocked, Sensitive
  <2> QED
    BY <2>1, <2>2, <2>3 DEF Next, ExecuteApproved, ExecuteCommand,
       Approve, Refuse, vars, SensitiveIsBlocked, Sensitive
<1> QED
  BY <1>1, <1>2, ReviewTypeCorrect, PTL DEF Spec

(* An approval never turns a plan that could run into one that is blocked. *)
THEOREM ApprovalRelaxesCorrect == Spec => []ApprovalRelaxes
<1>1. TypeOK => ApprovalRelaxes
  BY PlanIsProfile, DecisionsCompare DEF ApprovalRelaxes
<1> QED
  BY <1>1, ReviewTypeCorrect, PTL

(* What the route of PlanExecutor has run is no plan /approve would block. *)
THEOREM RouteWithinApprovalCorrect == Spec => []RouteWithinApproval
<1>1. Init => RouteWithinApproval
  BY DEF Init, RouteWithinApproval
<1>2. TypeOK /\ RouteWithinApproval /\ [Next]_vars => RouteWithinApproval'
  <2> SUFFICES ASSUME TypeOK, RouteWithinApproval, [Next]_vars,
                      verdict' = "executed_by_route"
               PROVE  (Decision(plan, TRUE) # "blocked")'
    BY DEF RouteWithinApproval
  <2>1. plan' = plan
    BY DEF Next, RunGoal, ExecuteApproved, ExecuteCommand, ExecuteRoute,
           Approve, Refuse, vars
  <2>2. (Decision(plan, TRUE))' = Decision(plan, TRUE)
    BY <2>1 DEF Decision, Decide, OrchestratorScore, OrchestratorAllowed,
       Allowed, RiskScore, FullScore, StepScore, Sensitive
  <2>3. CASE verdict = "executed_by_route"
    BY <2>2, <2>3 DEF RouteWithinApproval
  <2>4. CASE ExecuteRoute
    <3>1. Allowed(plan, TRUE)
      BY <2>4 DEF ExecuteRoute, TypeOK
    <3>2. Decision(plan, TRUE) # "blocked"
      BY <3>1, AllowedIsNotBlocked, PlanIsProfile
    <3> QED
      BY <2>2, <3>2
  <2> QED
    BY <2>3, <2>4, DecisionType DEF Next, RunGoal, ExecuteApproved,
       ExecuteCommand, Approve, Refuse, vars
<1> QED
  BY <1>1, <1>2, ReviewTypeCorrect, PTL DEF Spec

-----------------------------------------------------------------------------
(* The goals (GoalStore).                                                  *)

AnyGoal == [id : Nat \ {0}, title : GoalTitles, status : GoalStatuses]

(* Goals in the order in which they were made, n of them at most.          *)
Goals(s, n) ==
  /\ s \in Seq(AnyGoal) /\ Len(s) <= n
  /\ \A i, j \in 1 .. Len(s) : i < j => s[i].id < s[j].id
  /\ \A i \in 1 .. Len(s) : s[i].id <= n

(* A file: the goal it names is open, and while nothing can have been      *)
(* dropped it is the one the server selects.                               *)
StoreInv(st) ==
  /\ st.made \in Nat /\ st.active \in 0 .. st.made
  /\ Goals(st.goals, st.made) /\ Len(st.goals) <= Keep
  /\ \A i \in 1 .. Len(st.goals) :
       st.goals[i].id = st.active => st.goals[i].status \in OpenGoal
  /\ st.made <= Keep => st.active = Selected(st.goals)

(* What a list of goals has, in the form the steps need.                   *)
LEMMA GoalsAre ==
  ASSUME NEW n \in Nat, NEW s, Goals(s, n)
  PROVE  /\ Len(s) \in Nat /\ DOMAIN s = 1 .. Len(s)
         /\ Open(s) = {i \in 1 .. Len(s) : s[i].status \in OpenGoal}
         /\ \A i \in 1 .. Len(s) : s[i] \in AnyGoal /\ s[i].id \in 1 .. n
         /\ \A i, j \in 1 .. Len(s) : s[i].id = s[j].id => i = j
<1>1. Len(s) \in Nat /\ DOMAIN s = 1 .. Len(s)
  BY LenProperties DEF Goals
<1>2. \A i \in 1 .. Len(s) : s[i] \in AnyGoal
  BY ElementOfSeq DEF Goals
<1>3. \A i \in 1 .. Len(s) : s[i].id \in 1 .. n
  BY <1>2 DEF Goals, AnyGoal
<1>4. \A i, j \in 1 .. Len(s) : s[i].id = s[j].id => i = j
  <2> SUFFICES ASSUME NEW i \in 1 .. Len(s), NEW j \in 1 .. Len(s), s[i].id = s[j].id, i # j
               PROVE  FALSE
    OBVIOUS
  <2>1. i < j \/ j < i
    BY <1>1
  <2> QED
    BY <1>3, <2>1 DEF Goals
<1> QED
  BY <1>1, <1>2, <1>3, <1>4 DEF Open

(* The goal selected comes before all other open ones: there is one such,  *)
(* the newest of high priority or, without any, the newest of all.         *)
Chosen(s, i) == i \in Open(s) /\ \A j \in Open(s) \ {i} : Before(s[i], s[j])

LEMMA SelectedIs ==
  ASSUME NEW n \in Nat, NEW s, Goals(s, n)
  PROVE  /\ Selected(s) \in 0 .. n
         /\ Open(s) = {} => Selected(s) = 0
         /\ Open(s) # {} => \E i \in Open(s) : Chosen(s, i) /\ Selected(s) = s[i].id
<1>1. CASE Open(s) = {}
  BY <1>1 DEF Selected
<1>2. CASE Open(s) # {}
  <2> DEFINE T == {i \in Open(s) : High(s[i])}
  <2>1. T \subseteq 1 .. Len(s) /\ Open(s) \subseteq 1 .. Len(s) /\ Len(s) \in Nat
    BY GoalsAre
  <2>2. \A i, j \in 1 .. Len(s) : j <= i /\ i # j => s[i].id > s[j].id
    BY <2>1, GoalsAre DEF Goals
  <2>3. \E i \in Open(s) : Chosen(s, i)
    <3>1. CASE T # {}
      <4>1. PICK i \in T : \A j \in T : j <= i
        <5> HIDE DEF T
        <5> QED
          BY <2>1, <3>1, GreatestOf
      <4>2. \A j \in Open(s) \ {i} : Before(s[i], s[j])
        BY <2>1, <2>2, <4>1 DEF Before
      <4> QED
        BY <4>1, <4>2 DEF Chosen
    <3>2. CASE T = {}
      <4>1. PICK i \in Open(s) : \A j \in Open(s) : j <= i
        <5> DEFINE O == Open(s)
        <5>1. O \in SUBSET (1 .. Len(s)) /\ O # {}
          BY <1>2, <2>1
        <5> HIDE DEF O
        <5>2. \E i \in O : \A j \in O : j <= i
          BY <2>1, <5>1, GreatestOf
        <5> QED
          BY <5>2 DEF O
      <4>2. \A j \in Open(s) \ {i} : Before(s[i], s[j])
        <5> TAKE j \in Open(s) \ {i}
        <5>1. i \in T => FALSE
          BY <3>2
        <5>2. j \in T => FALSE
          BY <3>2
        <5>3. High(s[i]) = High(s[j])
          BY <4>1, <5>1, <5>2 DEF High
        <5>4. s[i].id > s[j].id
          BY <2>1, <2>2, <4>1
        <5> QED
          BY <5>3, <5>4 DEF Before
      <4> QED
        BY <4>1, <4>2 DEF Chosen
    <3> QED
      BY <3>1, <3>2
  <2> DEFINE c == CHOOSE i \in Open(s) : \A j \in Open(s) \ {i} : Before(s[i], s[j])
  <2>4. c \in Open(s) /\ \A j \in Open(s) \ {c} : Before(s[c], s[j])
    BY <2>3 DEF Chosen
  <2>5. Selected(s) = s[c].id
    BY <1>2 DEF Selected
  <2> HIDE DEF c
  <2>6. Chosen(s, c)
    BY <2>4 DEF Chosen
  <2>7. s[c].id \in 1 .. n
    BY <2>1, <2>4, GoalsAre
  <2> QED
    BY <1>2, <2>4, <2>5, <2>6, <2>7
<1> QED
  BY <1>1, <1>2

LEMMA OneIsChosen ==
  ASSUME NEW n \in Nat, NEW s, Goals(s, n), NEW i, NEW j, Chosen(s, i), Chosen(s, j)
  PROVE  i = j
<1>1. i \in 1 .. Len(s) /\ j \in 1 .. Len(s) /\ s[i].id \in Nat /\ s[j].id \in Nat
  BY GoalsAre DEF Chosen
<1>2. i # j => Before(s[i], s[j]) /\ Before(s[j], s[i])
  BY DEF Chosen
<1>3. CASE High(s[i]) = High(s[j])
  BY <1>1, <1>2, <1>3 DEF Before
<1>4. CASE High(s[i]) # High(s[j])
  <2>1. i # j => High(s[i]) /\ High(s[j])
    BY <1>2, <1>4, Zenon DEF Before
  <2> QED
    BY <1>4, <2>1 DEF High
<1> QED
  BY <1>3, <1>4

(* What is kept is the end of the list, its last entries as they are.      *)
Dropped(s) == IF Len(s) > Keep THEN Len(s) - Keep ELSE 0

LEMMA KeptIs ==
  ASSUME NEW S, NEW s \in Seq(S)
  PROVE  /\ Dropped(s) \in Nat /\ Kept(s) \in Seq(S)
         /\ Len(Kept(s)) + Dropped(s) = Len(s) /\ Len(Kept(s)) <= Keep
         /\ \A i \in 1 .. Len(Kept(s)) : Kept(s)[i] = s[i + Dropped(s)]
<1>1. Len(s) \in Nat /\ Keep \in Nat \ {0}
  BY LenProperties, GoalStoreAssumption
<1>2. CASE Len(s) > Keep
  <2> DEFINE k == Len(s) - Keep
             t == SubSeq(s, k + 1, Len(s))
  <2>1. k \in Nat /\ k + 1 \in 1 .. Len(s) /\ k = Dropped(s) /\ k + 1 \in Int
    BY <1>1, <1>2 DEF Dropped
  <2>2. \A i \in (k + 1) .. Len(s) : s[i] \in S
    BY <1>1, <2>1
  <2>3. Kept(s) = t
    BY <1>2 DEF Kept
  <2> HIDE DEF k
  <2>4. /\ t \in Seq(S) /\ Len(t) = (IF k + 1 <= Len(s) THEN Len(s) - (k + 1) + 1 ELSE 0)
        /\ \A i \in 1 .. Len(s) - (k + 1) + 1 : t[i] = s[(k + 1) + i - 1]
    BY <1>1, <2>1, <2>2, SubSeqProperties
  <2> HIDE DEF t
  <2>5. Len(t) + k = Len(s) /\ Len(t) = Len(s) - (k + 1) + 1
    BY <1>1, <2>1, <2>4, SMTT(30)
  <2>6. Len(t) <= Keep
    BY <1>1, <2>5 DEF k
  <2>7. ASSUME NEW i \in 1 .. Len(t) PROVE t[i] = s[i + k]
    <3>1. t[i] = s[(k + 1) + i - 1]
      BY <2>4, <2>5
    <3>2. (k + 1) + i - 1 = i + k
      BY <1>1, <2>1, <2>5
    <3> QED
      BY <3>1, <3>2
  <2> QED
    BY <2>1, <2>3, <2>4, <2>5, <2>6, <2>7
<1>3. CASE ~(Len(s) > Keep)
  <2>1. Kept(s) = s /\ Dropped(s) = 0 /\ Len(s) <= Keep
    BY <1>1, <1>3 DEF Kept, Dropped
  <2> QED
    BY <1>1, <2>1
<1> QED
  BY <1>2, <1>3

(* Saving a list whose active goal is the one selected of it.              *)
LEMMA SavedStore ==
  ASSUME NEW n \in Nat, NEW s, Goals(s, n),
         NEW st, st = [goals |-> Kept(s), active |-> Selected(s), made |-> n]
  PROVE  StoreInv(st)
<1> DEFINE t == Kept(s)
           d == Dropped(s)
<1>1. s \in Seq(AnyGoal) /\ Len(s) \in Nat
  BY GoalsAre DEF Goals
<1>2. /\ d \in Nat /\ t \in Seq(AnyGoal) /\ Len(t) + d = Len(s) /\ Len(t) <= Keep
      /\ \A i \in 1 .. Len(t) : t[i] = s[i + d]
  BY <1>1, KeptIs
<1>3. Len(t) \in Nat
  BY <1>2, LenProperties
<1>4. st.goals = t /\ st.active = Selected(s) /\ st.made = n
  BY DEF t
<1>5. d = 0 => t = s
  BY <1>1 DEF d, Dropped, Kept, t
<1>6. n <= Keep => d = 0
  BY <1>1, GoalStoreAssumption DEF d, Dropped, Goals
<1> HIDE DEF t, d
<1>7. \A i \in 1 .. Len(t) : i + d \in 1 .. Len(s)
  BY <1>1, <1>2, <1>3
<1>8. Goals(t, n)
  <2>1. Len(t) <= n
    BY <1>1, <1>2, <1>3 DEF Goals
  <2>2. \A i, j \in 1 .. Len(t) : i < j => t[i].id < t[j].id
    <3> SUFFICES ASSUME NEW i \in 1 .. Len(t), NEW j \in 1 .. Len(t), i < j
                 PROVE  t[i].id < t[j].id
      OBVIOUS
    <3>1. i + d < j + d
      BY <1>2, <1>3
    <3>2. s[i + d].id < s[j + d].id
      BY <1>7, <3>1 DEF Goals
    <3> QED
      BY <1>2, <3>2
  <2>3. \A i \in 1 .. Len(t) : t[i].id <= n
    BY <1>2, <1>7 DEF Goals
  <2> QED
    BY <1>2, <2>1, <2>2, <2>3 DEF Goals
<1>9. /\ Selected(s) \in 0 .. n
      /\ Open(s) = {} => Selected(s) = 0
      /\ Open(s) # {} => \E i \in Open(s) : Chosen(s, i) /\ Selected(s) = s[i].id
  BY SelectedIs
<1>10. ASSUME NEW i \in 1 .. Len(t), t[i].id = Selected(s)
       PROVE  t[i].status \in OpenGoal
  <2>1. t[i] = s[i + d] /\ i + d \in 1 .. Len(s) /\ s[i + d].id \in 1 .. n
    BY <1>2, <1>7, GoalsAre
  <2>2. Selected(s) # 0
    BY <1>10, <2>1
  <2>3. PICK c \in Open(s) : Selected(s) = s[c].id
    BY <1>9, <2>2
  <2>4. c \in 1 .. Len(s) /\ s[c].status \in OpenGoal
    BY <2>3, GoalsAre
  <2>5. c = i + d
    BY <1>10, <2>1, <2>3, <2>4, GoalsAre
  <2> QED
    BY <2>1, <2>4, <2>5
<1> QED
  BY <1>2, <1>4, <1>5, <1>6, <1>8, <1>9, <1>10 DEF StoreInv

(* A goal more, at the end, with an id no other has.                       *)
LEMMA AddedKeeps ==
  ASSUME NEW st, StoreInv(st), NEW title \in GoalTitles
  PROVE  StoreInv(Added(st, title))
<1> DEFINE s == st.goals
           n == st.made + 1
           g == [id |-> n, title |-> title, status |-> "pending"]
           all == Append(s, g)
<1>1. CASE \E i \in Open(s) : s[i].title = title
  BY <1>1 DEF Added
<1>2. CASE ~\E i \in Open(s) : s[i].title = title
  <2>1. st.made \in Nat /\ n \in Nat /\ Goals(s, st.made)
    BY DEF StoreInv
  <2>2. Added(st, title) = [goals |-> Kept(all), active |-> Selected(all), made |-> n]
    BY <1>2 DEF Added
  <2>3. s \in Seq(AnyGoal) /\ Len(s) \in Nat
    BY <2>1, GoalsAre DEF Goals
  <2>4. g \in AnyGoal
    BY <2>1 DEF AnyGoal, GoalStatuses, OpenGoal
  <2>5. n = st.made + 1 /\ g.id = n
    OBVIOUS
  <2> HIDE DEF g, n, s
  <2>6. /\ all \in Seq(AnyGoal) /\ Len(all) = Len(s) + 1
        /\ \A i \in 1 .. Len(s) : all[i] = s[i]
        /\ all[Len(s) + 1] = g
    BY <2>3, <2>4, AppendProperties
  <2> HIDE DEF all
  <2>7. Len(all) <= n
    BY <2>1, <2>3, <2>5, <2>6 DEF Goals
  <2>8. \A i \in 1 .. Len(all) : all[i].id <= n
    <3> TAKE i \in 1 .. Len(all)
    <3>1. CASE i \in 1 .. Len(s)
      <4>1. s[i].id \in 1 .. st.made
        BY <2>1, <3>1, GoalsAre
      <4> QED
        BY <2>1, <2>5, <2>6, <3>1, <4>1
    <3>2. CASE i = Len(s) + 1
      BY <2>1, <2>5, <2>6, <3>2
    <3> QED
      BY <2>3, <2>6, <3>1, <3>2
  <2>9. \A i, j \in 1 .. Len(all) : i < j => all[i].id < all[j].id
    <3> SUFFICES ASSUME NEW i \in 1 .. Len(all), NEW j \in 1 .. Len(all), i < j
                 PROVE  all[i].id < all[j].id
      OBVIOUS
    <3>1. i \in 1 .. Len(s) /\ all[i] = s[i] /\ s[i].id \in 1 .. st.made
      <4>1. i \in 1 .. Len(s)
        BY <2>3, <2>6
      <4> QED
        BY <2>1, <2>6, <4>1, GoalsAre
    <3>2. CASE j \in 1 .. Len(s)
      BY <2>1, <2>6, <3>1, <3>2 DEF Goals
    <3>3. CASE j = Len(s) + 1
      BY <2>1, <2>5, <2>6, <3>1, <3>3
    <3> QED
      BY <2>3, <2>6, <3>2, <3>3
  <2>10. Goals(all, n)
    BY <2>6, <2>7, <2>8, <2>9 DEF Goals
  <2> QED
    BY <2>1, <2>2, <2>10, SavedStore
<1> QED
  BY <1>1, <1>2

WithStatus(s, i, v) == [s EXCEPT ![i].status = v]

(* The status of one goal is set, and nothing else of the list.            *)
LEMMA StatusSet ==
  ASSUME NEW n \in Nat, NEW s, Goals(s, n), NEW i \in DOMAIN s,
         NEW v \in GoalStatuses, NEW t, t = WithStatus(s, i, v)
  PROVE  /\ Goals(t, n) /\ Len(t) = Len(s)
         /\ t[i].status = v
         /\ \A j \in 1 .. Len(s) : /\ t[j].id = s[j].id /\ t[j].title = s[j].title
                                   /\ j # i => t[j] = s[j]
<1>1. /\ s \in Seq(AnyGoal) /\ Len(s) \in Nat /\ DOMAIN s = 1 .. Len(s)
      /\ \A j \in 1 .. Len(s) : s[j] \in AnyGoal
  BY GoalsAre DEF Goals
<1> DEFINE g == [s[i] EXCEPT !.status = v]
<1>2. g \in AnyGoal /\ g.id = s[i].id /\ g.title = s[i].title /\ g.status = v
  <2>1. s[i] \in AnyGoal
    BY <1>1
  <2> QED
    BY <2>1 DEF AnyGoal
<1>3. t = [s EXCEPT ![i] = g]
  BY DEF WithStatus
<1> HIDE DEF g
<1>4. /\ t \in Seq(AnyGoal) /\ Len(t) = Len(s)
      /\ \A j \in 1 .. Len(s) : t[j] = IF j = i THEN g ELSE s[j]
  <2>1. t \in Seq(AnyGoal) /\ Len(t) = Len(s)
    BY <1>1, <1>2, <1>3, ExceptSeq
  <2>2. \A j \in 1 .. Len(s) : t[j] = IF j = i THEN g ELSE s[j]
    BY <1>1, <1>3
  <2> QED
    BY <2>1, <2>2
<1>5. \A j \in 1 .. Len(s) : /\ t[j].id = s[j].id /\ t[j].title = s[j].title
                             /\ j # i => t[j] = s[j]
  BY <1>2, <1>4
<1>6. Goals(t, n)
  BY <1>4, <1>5 DEF Goals
<1> QED
  BY <1>1, <1>2, <1>4, <1>5, <1>6

(* A goal taken up stays the one selected: no rank depends on the status.  *)
LEMMA SelectedStays ==
  ASSUME NEW n \in Nat, NEW s, Goals(s, n), NEW i \in DOMAIN s,
         s[i].status = "pending", NEW t, t = WithStatus(s, i, "active")
  PROVE  Selected(t) = Selected(s)
<1>1. /\ Goals(t, n) /\ Len(t) = Len(s) /\ t[i].status = "active"
      /\ \A j \in 1 .. Len(s) : /\ t[j].id = s[j].id /\ t[j].title = s[j].title
                                /\ j # i => t[j] = s[j]
  <2>1. "active" \in GoalStatuses
    BY DEF GoalStatuses, OpenGoal
  <2>2. Goals(t, n)
    BY <2>1, StatusSet
  <2>3. Len(t) = Len(s)
    BY <2>1, StatusSet
  <2>4. t[i].status = "active"
    BY <2>1, StatusSet
  <2>5. \A j \in 1 .. Len(s) : /\ t[j].id = s[j].id /\ t[j].title = s[j].title
                               /\ j # i => t[j] = s[j]
    BY <2>1, StatusSet
  <2> QED
    BY <2>2, <2>3, <2>4, <2>5
<1>2. /\ DOMAIN s = 1 .. Len(s)
      /\ Open(s) = {j \in 1 .. Len(s) : s[j].status \in OpenGoal}
      /\ Open(t) = {j \in 1 .. Len(s) : t[j].status \in OpenGoal}
  <2>1. /\ DOMAIN s = 1 .. Len(s)
        /\ Open(s) = {j \in 1 .. Len(s) : s[j].status \in OpenGoal}
    BY GoalsAre
  <2>2. Open(t) = {j \in 1 .. Len(t) : t[j].status \in OpenGoal}
    <3>1. Goals(t, n)
      BY <1>1
    <3> QED
      BY <3>1, GoalsAre, Zenon
  <2> QED
    BY <1>1, <2>1, <2>2
<1>3. Open(t) = Open(s)
  BY <1>1, <1>2 DEF OpenGoal
<1>4. \A a, b \in 1 .. Len(s) : Before(t[a], t[b]) = Before(s[a], s[b])
  <2> TAKE a, b \in 1 .. Len(s)
  <2>1. /\ High(t[a]) = High(s[a]) /\ High(t[b]) = High(s[b])
        /\ t[a].id = s[a].id /\ t[b].id = s[b].id
    BY <1>1 DEF High
  <2> QED
    BY <2>1 DEF Before
<1>5. \A j : Chosen(t, j) => Chosen(s, j)
  BY <1>2, <1>3, <1>4 DEF Chosen
<1>6. CASE Open(s) = {}
  BY <1>3, <1>6 DEF Selected
<1>7. CASE Open(s) # {}
  <2>1. PICK a \in Open(s) : Chosen(s, a) /\ Selected(s) = s[a].id
    BY <1>7, SelectedIs
  <2>2. PICK b \in Open(t) : Chosen(t, b) /\ Selected(t) = t[b].id
    <3>1. Open(t) # {} /\ Goals(t, n)
      BY <1>1, <1>3, <1>7
    <3> QED
      BY <3>1, SelectedIs
  <2>3. a = b
    BY <1>5, <2>1, <2>2, OneIsChosen
  <2> QED
    BY <1>1, <1>2, <2>1, <2>2, <2>3
<1> QED
  BY <1>6, <1>7

-----------------------------------------------------------------------------
(* The core goals are ensured one after the other.                         *)
EnsuredUpTo(g, m) ==
  g = [k \in 0 .. m |-> IF k = 0 THEN Store ELSE Added(g[k - 1], CoreTitles[k])]

LEMMA EnsuredExists == \A m \in Nat : \E g : EnsuredUpTo(g, m)
<1> DEFINE T == {m \in Nat : \E g : EnsuredUpTo(g, m)}
<1>1. 0 \in T
  <2> DEFINE g == [k \in 0 .. 0 |-> Store]
  <2>1. EnsuredUpTo(g, 0)
    BY DEF EnsuredUpTo
  <2> QED
    BY <2>1
<1>2. ASSUME NEW m \in Nat, m \in T PROVE m + 1 \in T
  <2>1. PICK g : EnsuredUpTo(g, m)
    BY <1>2
  <2> DEFINE h == [k \in 0 .. (m + 1) |->
                     IF k <= m THEN g[k] ELSE Added(g[m], CoreTitles[m + 1])]
             f == [k \in 0 .. (m + 1) |->
                     IF k = 0 THEN Store ELSE Added(h[k - 1], CoreTitles[k])]
  <2>2. \A k \in 0 .. m : g[k] = IF k = 0 THEN Store ELSE Added(g[k - 1], CoreTitles[k])
    <3> DEFINE e(k) == IF k = 0 THEN Store ELSE Added(g[k - 1], CoreTitles[k])
    <3>1. g = [k \in 0 .. m |-> e(k)]
      BY <2>1 DEF EnsuredUpTo
    <3> HIDE DEF e
    <3>2. \A k \in 0 .. m : g[k] = e(k)
      BY <3>1
    <3> QED
      BY <3>2 DEF e
  <2>3. ASSUME NEW k \in 0 .. (m + 1) PROVE h[k] = f[k]
    <3>1. CASE k = 0
      BY <2>2, <3>1
    <3>2. CASE k \in 1 .. m
      <4>1. h[k] = g[k] /\ k \in 0 .. m /\ k # 0 /\ k - 1 \in 0 .. (m + 1) /\ k - 1 <= m
        BY <3>2
      <4>2. h[k - 1] = g[k - 1]
        BY <4>1
      <4>3. f[k] = Added(h[k - 1], CoreTitles[k])
        BY <4>1
      <4> HIDE DEF h, f
      <4> QED
        BY <2>2, <4>1, <4>2, <4>3
    <3>3. CASE k = m + 1
      <4>1. h[k] = Added(g[m], CoreTitles[m + 1])
        BY <3>3
      <4>2. h[m] = g[m] /\ k - 1 = m /\ k # 0
        BY <3>3
      <4>3. f[k] = Added(h[k - 1], CoreTitles[k])
        BY <4>2
      <4> HIDE DEF h, f
      <4> QED
        BY <3>3, <4>1, <4>2, <4>3
    <3> QED
      BY <3>1, <3>2, <3>3
  <2>4. h = f
    BY <2>3
  <2>5. EnsuredUpTo(h, m + 1)
    BY <2>4 DEF EnsuredUpTo
  <2> QED
    BY <2>5
<1> HIDE DEF T
<1>3. \A m \in Nat : m \in T
  BY <1>1, <1>2, Induction
<1> QED
  BY <1>3 DEF T

LEMMA EnsuredIs ==
  ASSUME NEW k \in 0 .. Len(CoreTitles)
  PROVE  Ensured[k] = IF k = 0 THEN Store ELSE Added(Ensured[k - 1], CoreTitles[k])
<1>1. Len(CoreTitles) \in Nat
  BY GoalStoreAssumption, LenProperties
<1>2. \E g : EnsuredUpTo(g, Len(CoreTitles))
  BY <1>1, EnsuredExists
<1>3. EnsuredUpTo(Ensured, Len(CoreTitles))
  <2>1. Ensured = CHOOSE g : EnsuredUpTo(g, Len(CoreTitles))
    BY DEF Ensured, EnsuredUpTo
  <2> QED
    BY <1>2, <2>1
<1> DEFINE e(j) == IF j = 0 THEN Store ELSE Added(Ensured[j - 1], CoreTitles[j])
<1>4. Ensured = [j \in 0 .. Len(CoreTitles) |-> e(j)]
  BY <1>3, Zenon DEF EnsuredUpTo
<1> HIDE DEF e
<1>5. Ensured[k] = e(k)
  BY <1>4
<1> QED
  BY <1>5, Zenon DEF e

LEMMA EnsuredKeeps ==
  ASSUME StoreInv(Store)
  PROVE  StoreInv(Ensured[Len(CoreTitles)])
<1>1. Len(CoreTitles) \in Nat /\ \A k \in 1 .. Len(CoreTitles) : CoreTitles[k] \in GoalTitles
  BY GoalStoreAssumption, LenProperties, ElementOfSeq
<1> DEFINE T == {k \in Nat : k <= Len(CoreTitles) => StoreInv(Ensured[k])}
<1>2. 0 \in T
  BY <1>1, EnsuredIs
<1>3. ASSUME NEW k \in Nat, k \in T PROVE k + 1 \in T
  <2>1. SUFFICES ASSUME k + 1 <= Len(CoreTitles) PROVE StoreInv(Ensured[k + 1])
    OBVIOUS
  <2>2. StoreInv(Ensured[k])
    BY <1>1, <1>3, <2>1
  <2>3. k + 1 \in 0 .. Len(CoreTitles) /\ k + 1 # 0 /\ (k + 1) - 1 = k
    BY <1>1, <2>1
  <2>4. Ensured[k + 1] = Added(Ensured[k], CoreTitles[k + 1])
    <3>1. Ensured[k + 1] = IF k + 1 = 0 THEN Store
                           ELSE Added(Ensured[(k + 1) - 1], CoreTitles[k + 1])
      BY <2>3, EnsuredIs
    <3> QED
      BY <2>3, <3>1
  <2>5. CoreTitles[k + 1] \in GoalTitles
    BY <1>1, <2>3
  <2> QED
    BY <2>2, <2>4, <2>5, AddedKeeps
<1> HIDE DEF T
<1>4. Len(CoreTitles) \in T
  BY <1>1, <1>2, <1>3, Induction
<1> QED
  BY <1>1, <1>4 DEF T

-----------------------------------------------------------------------------
GoalInv == StoreInv(Store) /\ goalsMade <= MaxGoals

LEMMA WriteKeeps ==
  ASSUME NEW st, StoreInv(st), Write(st)
  PROVE  GoalInv'
<1>1. /\ Store'.goals = st.goals /\ Store'.active = st.active
      /\ Store'.made = st.made /\ goalsMade' = st.made /\ st.made <= MaxGoals
  BY DEF Write, Store
<1> QED
  BY <1>1 DEF StoreInv, GoalInv

LEMMA SaveKeeps ==
  ASSUME GoalInv, NEW s, Goals(s, goalsMade), goals' = Kept(s), activeId' = Selected(s),
         goalsMade' = goalsMade
  PROVE  GoalInv'
<1>1. goalsMade \in Nat /\ goalsMade <= MaxGoals
  BY DEF GoalInv, StoreInv, Store
<1>2. Store' = [goals |-> Kept(s), active |-> Selected(s), made |-> goalsMade]
  BY DEF Store
<1>3. StoreInv(Store')
  BY <1>1, <1>2, SavedStore
<1>4. StoreInv(Store)'
  BY <1>3, Zenon DEF StoreInv
<1> QED
  BY <1>1, <1>4 DEF GoalInv

LEMMA GoalInvInit == GoalStoreInit => GoalInv
<1> SUFFICES ASSUME GoalStoreInit PROVE GoalInv
  OBVIOUS
<1>1. goals = <<>> /\ activeId = 0 /\ goalsMade = 0
  BY DEF GoalStoreInit
<1>2. Store.goals = <<>> /\ Store.active = 0 /\ Store.made = 0
  BY <1>1 DEF Store
<1>3. Goals(<<>>, 0)
  BY EmptySeq DEF Goals
<1>4. Len(<<>>) = 0 /\ Open(<<>>) = {}
  BY EmptySeq DEF Open
<1>5. Selected(<<>>) = 0
  BY <1>4 DEF Selected
<1>6. StoreInv(Store)
  BY <1>2, <1>3, <1>4, <1>5, GoalStoreAssumption DEF StoreInv
<1> QED
  BY <1>1, <1>6, GoalStoreAssumption DEF GoalInv

LEMMA GoalInvStep == GoalInv /\ [GoalStoreNext]_goalVars => GoalInv'
<1> SUFFICES ASSUME GoalInv, [GoalStoreNext]_goalVars PROVE GoalInv'
  OBVIOUS
<1>1. /\ StoreInv(Store) /\ goalsMade \in Nat /\ goalsMade <= MaxGoals
      /\ Goals(goals, goalsMade) /\ Len(goals) <= Keep
  BY DEF GoalInv, StoreInv, Store
<1>2. ASSUME NEW t \in GoalTitles, Write(Added(Store, t)) PROVE GoalInv'
  BY <1>1, <1>2, AddedKeeps, WriteKeeps
<1>3. CASE EnsureCoreGoals
  BY <1>1, <1>3, EnsuredKeeps, WriteKeeps DEF EnsureCoreGoals
<1>4. ASSUME NEW i \in DOMAIN goals, goals[i].id = Selected(goals),
             goals[i].status = "pending",
             goals' = Kept([goals EXCEPT ![i].status = "active"]),
             activeId' = goals[i].id, goalsMade' = goalsMade
      PROVE  GoalInv'
  <2> DEFINE t == WithStatus(goals, i, "active")
  <2>1. "active" \in GoalStatuses
    BY DEF GoalStatuses, OpenGoal
  <2>2. Goals(t, goalsMade)
    BY <1>1, <2>1, StatusSet
  <2>3. activeId' = Selected(t)
    BY <1>1, <1>4, SelectedStays
  <2>4. goals' = Kept(t)
    BY <1>4 DEF WithStatus
  <2> HIDE DEF t
  <2> QED
    BY <1>4, <2>2, <2>3, <2>4, SaveKeeps
<1>5. ASSUME NEW i \in DOMAIN goals, NEW v \in GoalStatuses \ {"pending"},
             SaveGoals([goals EXCEPT ![i].status = v]), goalsMade' = goalsMade
      PROVE  GoalInv'
  <2> DEFINE t == WithStatus(goals, i, v)
  <2>1. Goals(t, goalsMade)
    BY <1>1, StatusSet
  <2>2. goals' = Kept(t) /\ activeId' = Selected(t)
    BY <1>5 DEF SaveGoals, WithStatus
  <2> HIDE DEF t
  <2> QED
    BY <1>5, <2>1, <2>2, SaveKeeps
<1>6. CASE UpdateProgress
  <2>1. goals' = Kept(goals) /\ activeId' = Selected(goals) /\ goalsMade' = goalsMade
    BY <1>6 DEF UpdateProgress, SaveGoals
  <2> QED
    BY <1>1, <2>1, SaveKeeps
<1>7. CASE UNCHANGED goalVars
  <2>1. Store' = Store /\ goalsMade' = goalsMade
    BY <1>7 DEF goalVars, Store
  <2> QED
    BY <1>1, <2>1 DEF GoalInv, StoreInv
<1>8. CASE CreateGoal
  BY <1>2, <1>8 DEF CreateGoal
<1>9. CASE GetActiveGoal
  BY <1>4, <1>9 DEF GetActiveGoal
<1>10. CASE UpdateStatus
  BY <1>5, <1>10 DEF UpdateStatus
<1> QED
  BY <1>3, <1>6, <1>7, <1>8, <1>9, <1>10 DEF GoalStoreNext

LEMMA GoalInvAlways == GoalStoreSpec => []GoalInv
BY GoalInvInit, GoalInvStep, PTL DEF GoalStoreSpec

(* The file holds goals of the kinds the server makes, at most as many as  *)
(* it keeps: whatever save_goals, ensure_core_goals and the routes do.     *)
THEOREM GoalStoreTypeCorrect == GoalStoreSpec => []GoalStoreTypeOK
<1>1. GoalInv => GoalStoreTypeOK
  <2> SUFFICES ASSUME GoalInv PROVE GoalStoreTypeOK
    OBVIOUS
  <2>1. /\ goalsMade \in Nat /\ goalsMade <= MaxGoals /\ MaxGoals \in Nat
        /\ activeId \in 0 .. goalsMade
        /\ Goals(goals, goalsMade) /\ Len(goals) <= Keep
    BY GoalStoreAssumption DEF GoalInv, StoreInv, Store
  <2>2. Len(goals) \in Nat /\ \A i \in 1 .. Len(goals) :
          goals[i] \in AnyGoal /\ goals[i].id \in 1 .. goalsMade
    BY <2>1, GoalsAre
  <2>3. \A i \in 1 .. Len(goals) : goals[i] \in Goal
    BY <2>1, <2>2 DEF Goal, AnyGoal
  <2>4. goals \in Seq(Goal)
    BY <2>1, <2>3, SeqDef DEF Goals
  <2> QED
    BY <2>1, <2>4 DEF GoalStoreTypeOK
<1> QED
  BY <1>1, GoalInvAlways, PTL

(* The cognitive loop, which reads the file by a rule of its own, works    *)
(* for an open goal only, and while none can have been dropped for the one *)
(* _select_active_goal chooses.                                            *)
THEOREM LoopFollowsServerCorrect == GoalStoreSpec => []LoopFollowsServer
<1>1. GoalInv => LoopFollowsServer
  <2> SUFFICES ASSUME GoalInv PROVE LoopFollowsServer
    OBVIOUS
  <2> DEFINE named == {i \in DOMAIN goals : goals[i].id = activeId}
             first == {i \in DOMAIN goals : /\ goals[i].status = "active"
                         /\ \A j \in 1..(i - 1) : goals[j].status # "active"}
             chosen == IF named # {} THEN named ELSE first
  <2>1. /\ goalsMade \in Nat /\ activeId \in 0 .. goalsMade
        /\ Goals(goals, goalsMade)
        /\ \A i \in 1 .. Len(goals) :
             goals[i].id = activeId => goals[i].status \in OpenGoal
        /\ goalsMade <= Keep => activeId = Selected(goals)
    BY DEF GoalInv, StoreInv, Store
  <2>2. /\ DOMAIN goals = 1 .. Len(goals)
        /\ Open(goals) = {i \in 1 .. Len(goals) : goals[i].status \in OpenGoal}
        /\ \A i \in 1 .. Len(goals) : goals[i].id \in 1 .. goalsMade
    BY <2>1, GoalsAre
  <2>3. named \subseteq Open(goals) /\ first \subseteq Open(goals)
    BY <2>1, <2>2 DEF OpenGoal
  <2>4. LoopGoal = IF chosen = {} THEN 0 ELSE goals[CHOOSE i \in chosen : TRUE].id
    BY Zenon DEF LoopGoal
  <2>5. chosen \subseteq Open(goals)
    BY <2>3
  <2>6. activeId # 0 /\ named # {} => LoopGoal = activeId
    <3> SUFFICES ASSUME named # {} PROVE LoopGoal = activeId
      OBVIOUS
    <3>1. chosen = named
      OBVIOUS
    <3>2. (CHOOSE i \in named : TRUE) \in named
      <4> HIDE DEF named
      <4> QED
        OBVIOUS
    <3>3. goals[CHOOSE i \in named : TRUE].id = activeId
      BY <3>2
    <3> HIDE DEF chosen, named, first
    <3> QED
      BY <2>4, <3>1, <3>3
  <2>7. LoopGoal # 0 => \E i \in Open(goals) : goals[i].id = LoopGoal
    <3> HIDE DEF chosen
    <3> SUFFICES ASSUME LoopGoal # 0
                 PROVE  \E i \in Open(goals) : goals[i].id = LoopGoal
      OBVIOUS
    <3>1. chosen # {} /\ LoopGoal = goals[CHOOSE i \in chosen : TRUE].id
      BY <2>4
    <3>2. (CHOOSE i \in chosen : TRUE) \in chosen
      BY <3>1
    <3> QED
      BY <2>5, <3>1, <3>2
  <2>8. ASSUME goalsMade <= Keep PROVE LoopGoal = Selected(goals)
    <3>1. activeId = Selected(goals)
      BY <2>1, <2>8
    <3>2. CASE Open(goals) = {}
      <4>1. Selected(goals) = 0
        BY <3>2 DEF Selected
      <4>2. chosen = {}
        <5> HIDE DEF chosen
        <5> QED
          BY <2>5, <3>2
      <4> HIDE DEF chosen
      <4> QED
        BY <2>4, <4>1, <4>2
    <3>3. CASE Open(goals) # {}
      <4>1. PICK i \in Open(goals) : Selected(goals) = goals[i].id
        BY <2>1, <3>3, SelectedIs
      <4>2. i \in DOMAIN goals /\ goals[i].id = activeId /\ activeId # 0
        BY <2>2, <3>1, <4>1
      <4>3. named # {}
        BY <4>2
      <4> HIDE DEF named, chosen, first
      <4> QED
        BY <2>6, <3>1, <4>2, <4>3
    <3> QED
      BY <3>2, <3>3
  <2> QED
    BY <2>7, <2>8 DEF LoopFollowsServer
<1> QED
  BY <1>1, GoalInvAlways, PTL
=============================================================================
