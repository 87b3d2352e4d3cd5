------------------------ MODULE SupervisedEvolution ------------------------
(***************************************************************************)
(* What the supervised evolution of Neron promises, without tasks,         *)
(* processes or files: one mission at a time; what is pushed was tested;   *)
(* a mission that is over stays over, and one reported completed was       *)
(* pushed.  EvolutionSupervisor implements it.                             *)
(***************************************************************************)
CONSTANT Runs

VARIABLES
  outcome,  \* what a user is told of every run
  tested,   \* runs whose Codex session and tests all succeeded
  pushed    \* runs whose commit reached the remote repository

vars == <<outcome, tested, pushed>>

Over == {"completed", "failed", "cancelled"}

TypeOK ==
  /\ outcome \in [Runs -> {"absent", "active"} \cup Over]
  /\ tested \subseteq Runs
  /\ pushed \subseteq Runs

Init ==
  /\ outcome = [r \in Runs |-> "absent"]
  /\ tested = {}
  /\ pushed = {}

Begin(r) ==
  /\ outcome[r] = "absent"
  /\ \A s \in Runs : outcome[s] # "active"
  /\ outcome' = [outcome EXCEPT ![r] = "active"]
  /\ UNCHANGED <<tested, pushed>>

(* The last of the tests may end, and the push reach the remote, after the *)
(* mission was failed or cancelled: it does not wait for them then.        *)
PassTests(r) ==
  /\ outcome[r] # "absent"
  /\ tested' = tested \cup {r}
  /\ UNCHANGED <<outcome, pushed>>

Push(r) ==
  /\ r \in tested
  /\ pushed' = pushed \cup {r}
  /\ UNCHANGED <<outcome, tested>>

Finish(r, o) ==
  /\ outcome[r] = "active"
  /\ o = "completed" => r \in pushed
  /\ outcome' = [outcome EXCEPT ![r] = o]
  /\ UNCHANGED <<tested, pushed>>

(* A completed mission is reported failed when its last notification times *)
(* out or the next proposals cannot be generated.                          *)
Demote(r) ==
  /\ outcome[r] = "completed"
  /\ outcome' = [outcome EXCEPT ![r] = "failed"]
  /\ UNCHANGED <<tested, pushed>>

Next ==
  \E r \in Runs :
    \/ Begin(r) \/ PassTests(r) \/ Push(r) \/ Demote(r)
    \/ \E o \in Over : Finish(r, o)

Spec == Init /\ [][Next]_vars
=============================================================================
