---------------------------- MODULE ProposalCycles ----------------------------
(***************************************************************************)
(* What the evolution supervisor proposes: ProposalEngine observes the     *)
(* repository, finds its limits and makes a cycle of three proposals of    *)
(* them; EvolutionStorage keeps the cycles, and NeronCommandDispatcher and *)
(* the routes /evolution/* find the proposal a user names in the last one. *)
(*                                                                         *)
(* All of it runs on the event loop of the server, which may die between   *)
(* two of the writes of a decision.  The mission that an acceptance starts *)
(* is the subject of EvolutionSupervisor: here it only ends.               *)
(***************************************************************************)
EXTENDS Integers, Sequences, FiniteSets, SequencesExt

CONSTANTS
  Situations,      \* the states of the repository told apart
  KeptProposals,   \* proposals the state file keeps (200)
  MaxCycles,       \* bound: cycles generated
  MaxDecisions     \* bound: acceptances and refusals

(* What observe finds: generated agents, whether they are routed, projects *)
(* that failed, TODO comments, the routes and the document looked for.     *)
Observations ==
  [agents : BOOLEAN, routed : BOOLEAN, failed : BOOLEAN, todos : BOOLEAN,
   routes : BOOLEAN, docs : BOOLEAN]

ASSUME KeptAssumption == KeptProposals \in Nat /\ KeptProposals >= 3 /\ MaxCycles \in Nat
ASSUME SituationsAssumption == Situations \subseteq Observations

VARIABLES
  proposals,   \* the stored proposals, oldest first
  cycles,      \* cycles generated; the last is latest_cycle_id, 0 is None
  decisions,   \* record_decision, with the cycle of the proposal
  active       \* active_run: a mission is pending or running

proposalVars == <<proposals, cycles, decisions, active>>

(* detect_limits: each limit is observed for itself.                       *)
Limited(o) ==
  [routing |-> o.agents /\ ~o.routed, projects |-> o.failed, todos |-> o.todos,
   routes |-> ~o.routes, docs |-> ~o.docs]

(* The proposals for the limits, in the order of detect_limits, and after  *)
(* these five the three that are always at hand.                           *)
Candidates ==
  <<"routing", "projects", "todos", "routes", "docs",
    "tests", "registry", "responsibilities">>
ProposalTitles == ToSet(Candidates)
Offered(o) == {i \in 1 .. 8 : i > 5 \/ Limited(o)[Candidates[i]]}

(* generate_proposals: the first three.                                    *)
FirstThree(o) ==
  LET first == Min(Offered(o))
      second == Min(Offered(o) \ {first})
      third == Min(Offered(o) \ {first, second})
  IN <<Candidates[first], Candidates[second], Candidates[third]>>

(* The id of a proposal is the digest of its title, unless a stored one    *)
(* has it: then it is drawn.                                               *)
Digest(title) == <<"sha1", title>>
Drawn(cycle, index) == <<"uuid", cycle, index>>
StoredIds == {proposals[i].id : i \in DOMAIN proposals}

(* Mutant: what is stored is not looked at.                                *)
IdOfTitle(title, cycle, index) == Digest(title)
NewId(title, cycle, index) ==
  IF Digest(title) \in StoredIds THEN Drawn(cycle, index) ELSE Digest(title)

(* save_proposals: the oldest proposals are dropped.                       *)
KeepLast(s) == SubSeq(s, IF Len(s) > KeptProposals THEN Len(s) - KeptProposals + 1 ELSE 1,
                  Len(s))
Cycle(o) ==
  [i \in 1 .. 3 |-> [id |-> NewId(FirstThree(o)[i], cycles + 1, i), title |-> FirstThree(o)[i],
                     cycle |-> cycles + 1, index |-> i, status |-> "proposed"]]

ProposalInit ==
  /\ proposals = <<>> /\ cycles = 0 /\ decisions = {} /\ active = FALSE

-----------------------------------------------------------------------------
Generate(o) ==
  /\ cycles < MaxCycles
  /\ proposals' = KeepLast(proposals \o Cycle(o)) /\ cycles' = cycles + 1
  /\ UNCHANGED decisions

(* /evolution propose, POST /evolution/propose; submit_proposals shows the *)
(* last cycle where there is one.                                          *)
Propose == UNCHANGED active /\ \E o \in Situations : Generate(o)

(* A mission ends, and new proposals are made of what it left; where that  *)
(* fails, or it was stopped, the old ones stay.                            *)
EndMission ==
  /\ active /\ active' = FALSE
  /\ \/ \E o \in Situations : Generate(o)
     \/ UNCHANGED <<proposals, cycles, decisions>>

(* What a user can write: an index he was shown, now or in an earlier      *)
(* cycle, an id or how all ids begin.                                      *)
Names ==
  {<<"index", i>> : i \in 1 .. 4} \cup {Digest(t) : t \in ProposalTitles}
    \cup {Drawn(c, i) : c \in 1 .. MaxCycles, i \in 1 .. 3} \cup {<<"evo_">>}

(* get_proposal: only the latest cycle is looked through, in its order.    *)
Latest == {p \in ToSet(proposals) : p.cycle = cycles}
Named(name) ==
  {p \in Latest :
     CASE name[1] = "index" -> p.index = name[2]
       [] name[1] = "evo_" -> p.index = 1
       [] OTHER -> p.id = name}

(* mark_proposal: every stored proposal that has the id.                   *)
Mark(id, decision) ==
  proposals' = [i \in DOMAIN proposals |->
                  IF proposals[i].id = id THEN [proposals[i] EXCEPT !.status = decision]
                  ELSE proposals[i]]

Record(p, decision) ==
  /\ Cardinality(decisions) < MaxDecisions
  /\ decisions' = decisions \cup {<<p.cycle, p.index, decision>>}
  /\ UNCHANGED cycles

(* accept_proposal: refused while a mission is active, whatever was decided*)
(* of the proposal before.  The server may die before the proposal is      *)
(* marked, or before there is a run.                                       *)
Accept(name) ==
  /\ ~active
  /\ \E p \in Named(name) :
       /\ Record(p, "accepted")
       /\ \/ Mark(p.id, "accepted") /\ active' \in BOOLEAN
          \/ UNCHANGED <<proposals, active>>

Reject(name) ==
  /\ \E p \in Named(name) :
       Record(p, "rejected") /\ (Mark(p.id, "rejected") \/ UNCHANGED proposals)
  /\ UNCHANGED active

ProposalNext ==
  \/ Propose \/ EndMission
  \/ \E name \in Names : Accept(name) \/ Reject(name)

ProposalSpec == ProposalInit /\ [][ProposalNext]_proposalVars

-----------------------------------------------------------------------------
ProposalTypeOK ==
  /\ cycles \in 0 .. MaxCycles /\ active \in BOOLEAN
  /\ Len(proposals) <= KeptProposals
  /\ \A i \in DOMAIN proposals : proposals[i].title \in ProposalTitles

(* Each stored proposal says accepted or rejected only if a user named it, *)
(* this one and not another of the same title in an older or later cycle:  *)
(* titles come back in every cycle, and mark_proposal marks whatever has   *)
(* the id (save_proposals, mark_proposal).                                 *)
OnlyTheNamedIsMarked ==
  \A i \in DOMAIN proposals :
    LET p == proposals[i]
    IN p.status # "proposed" => <<p.cycle, p.index, p.status>> \in decisions
=============================================================================
