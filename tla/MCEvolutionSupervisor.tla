----------------------- MODULE MCEvolutionSupervisor -----------------------
(* TLC instances of EvolutionSupervisor.                                   *)
EXTENDS EvolutionSupervisor, TLC

Symmetry == Permutations(Runs)

(* A rejection only adds a decision: it is followed beside one mission.     *)
RejectionsAreFew ==
  Cardinality({d \in decisions : d[2] = "rejected"}) > 0 =>
    Cardinality({r \in Runs : status[r] # "none"}) <= 1
=============================================================================
