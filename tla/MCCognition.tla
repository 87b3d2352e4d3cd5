----------------------------- MODULE MCCognition -----------------------------
(* What decides what is worked on, checked side by side: the review of a    *)
(* plan, the cognitive cycles over plans and tasks, the goals, the          *)
(* evolutions proposed, and the self model with the mode of the machine.    *)
(* "turn" is the part that moves, the others stay as they begin.            *)
EXTENDS PlanReview, CognitiveLoop, GoalStore, ProposalCycles,
        SelfModelState

VARIABLE turn

MCSteps == <<"check", "report">>
MCSituations ==
  {[agents |-> a, routed |-> FALSE, failed |-> a, todos |-> TRUE,
    routes |-> r, docs |-> TRUE] : a, r \in BOOLEAN}
MCCore == <<"stability", "model">>

(* An overloaded machine (degraded), and one with a service down (survival): *)
(* a change to survival is recorded at once, the one back is not.           *)
MCSamples ==
  {[cpu |-> c, ram |-> 0, disk |-> 0, swap |-> 0,
    units |-> IF c >= 90 THEN "all" ELSE "fewer"] : c \in {0, 90}}
MCActions ==
  {[success |-> n, blocked |-> 0, failed |-> 0, noop |-> n \div 2] : n \in {0, 3}}

(* Every edge of every rule.                                                *)
Edges == [cpu : {0, 70, 74, 75, 89, 90}, ram : {0, 79, 80, 89, 90}, disk : {0, 89, 90},
          swap : {0, 49, 50}, units : Units]
ASSUME ModeIsTotal ==
  \A r \in Edges : ModeOf(r) \in Modes /\ Cause(r, NoFile) \in Causes
                      /\ Autonomy(r) \in {"unavailable", "partial", "operational"}
                   /\ Stability(r) \in 0..100

OnePlan == CHOOSE p \in Profiles(MaxSteps) : p.steps = 1

CognitionInit ==
  /\ turn \in {"review", "cycles", "goals", "proposals", "self"}
  /\ Init /\ CognitiveInit /\ GoalStoreInit /\ ProposalInit /\ SelfModelInit
  /\ turn # "review" => plan = OnePlan

CognitionNext ==
  /\ UNCHANGED turn
  /\ \/ turn = "review" /\ Next /\ UNCHANGED <<cognitiveVars, goalVars, proposalVars, selfVars>>
     \/ turn = "cycles" /\ CognitiveNext /\ UNCHANGED <<vars, goalVars, proposalVars, selfVars>>
     \/ turn = "goals" /\ GoalStoreNext /\ UNCHANGED <<vars, cognitiveVars, proposalVars, selfVars>>
     \/ turn = "proposals" /\ ProposalNext /\ UNCHANGED <<vars, cognitiveVars, goalVars, selfVars>>
     \/ turn = "self" /\ SelfModelNext
        /\ UNCHANGED <<vars, cognitiveVars, goalVars, proposalVars>>

CognitionSpec ==
  CognitionInit /\ [][CognitionNext]_<<turn, vars, cognitiveVars, goalVars,
                                        proposalVars, selfVars>>

TypesOK ==
  TypeOK /\ CognitiveTypeOK /\ GoalStoreTypeOK /\ ProposalTypeOK /\ SelfModelTypeOK

(* One kind of trouble at a time, not the ones the properties exclude, and  *)
(* a task less after a crash, two less after a trouble.                     *)
OneMishap ==
  /\ mishaps \in {{}, {"revive"}, {"torn"}}
  /\ crashes > 0 => made.tasks < MaxTasks
  /\ mishaps # {} => made.tasks + 1 < MaxTasks

(* Overlapping refreshes lose patches: one pair of them is followed, while  *)
(* the server is in the first half of its own.                              *)
RacesAreShort ==
  raced => /\ refreshes + heard + kills <= 2
           /\ stage["server"] \notin {"longterm", "capabilities", "confidence",
                                      "evaluation", "publish"}
=============================================================================
