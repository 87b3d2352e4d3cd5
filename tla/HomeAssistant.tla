---------------------------- MODULE HomeAssistant ----------------------------
(***************************************************************************)
(* core/agents/automation/ha_agent.py: the states of the house that the    *)
(* agent keeps, their refresh, and the requests it parses with them and    *)
(* posts to Home Assistant.  An action runs from one await to the next, so *)
(* a refresh and any number of requests may be waiting for an answer of    *)
(* Home Assistant, which may be out of reach for one and not for another.  *)
(*                                                                         *)
(* A query is told apart by what its words select: the action, the domain, *)
(* the plural, and the score of every entity.                              *)
(***************************************************************************)
EXTENDS Naturals

CONSTANTS
  Entities,   \* the entities of the house
  Domain,     \* their domains
  Wishes,     \* queries: [action, domain, plural, score]
  Speakers,   \* bound: requests ever made
  Refreshes   \* who reloads: the loop of 5 minutes, and /ha/reload

ASSUME HomeAssumption ==
  \A w \in Wishes : /\ w.action \in {"turn_on", "turn_off", "get_state"}
                    /\ w.plural \in BOOLEAN /\ w.score \in [Entities -> Nat]

VARIABLES
  house,      \* what Home Assistant would answer: entity -> its state
  cached,     \* _ha_states
  reading,    \* the readers whose get_states is under way
  speech,     \* the requests
  started

homeVars == <<house, cached, reading, speech, started>>

States == {"absent", "on", "off"}
NoStates == [e \in Entities |-> "absent"]
Listening == [pc |-> "idle", wish |-> CHOOSE w \in Wishes : TRUE,
              targets |-> {}, domain |-> "none", answer |-> "none"]

HomeInit ==
  /\ house \in [Entities -> {"absent", "off"}]
  /\ cached = NoStates /\ reading = {} /\ started = FALSE
  /\ speech = [s \in Speakers |-> Listening]

(* get_states: what there is, or the empty list of one that failed.        *)
Readings == {house, NoStates}

-----------------------------------------------------------------------------
(* on_start ends before the first request; the refresh loop begins anyhow. *)
OnStart ==
  /\ ~started /\ started' = TRUE
  /\ cached' \in Readings
  /\ UNCHANGED <<house, reading, speech>>

BeginReload(by) ==
  /\ started /\ by \notin reading
  /\ reading' = reading \cup {by}
  /\ UNCHANGED <<house, cached, speech, started>>

(* Mutant: what was read is kept, be it empty.                             *)
KeepWhatIsRead(read) == read
Kept(read) == IF read # NoStates THEN read ELSE cached

Reload(by) ==
  /\ by \in reading /\ reading' = reading \ {by}
  /\ \E read \in Readings : cached' = Kept(read)
  /\ UNCHANGED <<house, speech, started>>

-----------------------------------------------------------------------------
(* _parse_query.  Where the house has nothing of the domain that was named,*)
(* everything is a candidate, and, for a plural, commanded.                *)
Candidates(w, states) ==
  LET known == {e \in Entities : states[e] # "absent"}
      named == {e \in known : Domain[e] = w.domain}
  IN IF named = {} THEN known ELSE named

(* Those of the best score, if it is one.                                  *)
Best(w, states) ==
  {e \in Candidates(w, states) :
     /\ w.score[e] > 0
     /\ \A f \in Candidates(w, states) : w.score[f] <= w.score[e]}

Targets(w, states) ==
  LET best == Best(w, states)
      all == IF w.domain = "none" THEN {} ELSE Candidates(w, states)
  IN IF w.plural /\ all # {} THEN all ELSE IF best # {} THEN best ELSE all

(* The first of the best, in the order Home Assistant lists them, gives a  *)
(* query without one its domain.                                           *)
ServiceDomains(w, states) ==
  IF w.domain # "none" THEN {w.domain}
  ELSE {Domain[e] : e \in Targets(w, states)}

(* What a status is answered with: the state of the first, as it was read. *)
Told(w, states) ==
  IF w.plural /\ w.domain # "none" THEN {"unknown"}
  ELSE {states[e] : e \in Targets(w, states)}

Answered(s, answer) ==
  speech' = [speech EXCEPT ![s] = [Listening EXCEPT !.pc = "done", !.answer = answer]]

(* execute, from the states it has to what it awaits next.                 *)
Parse(s, w, states) ==
  \/ Targets(w, states) = {} /\ Answered(s, "no entity")
  \/ /\ Targets(w, states) # {} /\ w.action = "get_state"
     /\ \E state \in Told(w, states) : Answered(s, state)
  \/ /\ Targets(w, states) # {} /\ w.action # "get_state"
     /\ \E d \in ServiceDomains(w, states) :
          speech' = [speech EXCEPT ![s] = [pc |-> "posting", wish |-> w,
                       targets |-> Targets(w, states), domain |-> d,
                       answer |-> "none"]]

Ask(s) ==
  /\ started /\ speech[s].pc = "idle"
  /\ \E w \in Wishes :
       IF cached # NoStates THEN Parse(s, w, cached)
       ELSE speech' = [speech EXCEPT ![s].pc = "loading", ![s].wish = w]
  /\ UNCHANGED <<house, cached, reading, started>>

(* A request that found the cache empty reads for itself; what it read     *)
(* takes the place of whatever a refresh has brought meanwhile.            *)
Loaded(s) ==
  /\ speech[s].pc = "loading"
  /\ \E read \in Readings :
       /\ cached' = read
       /\ IF read = NoStates THEN Answered(s, "out of reach")
          ELSE Parse(s, speech[s].wish, read)
  /\ UNCHANGED <<house, reading, started>>

(* The post.  Home Assistant switches what it has of the service's domain, *)
(* and accepts a call that names nothing of it; or it refuses, or does not *)
(* answer in time, having switched it or not.                              *)
Switched(s) ==
  [e \in Entities |->
     IF house[e] # "absent" /\ e \in speech[s].targets /\ Domain[e] = speech[s].domain
     THEN IF speech[s].wish.action = "turn_on" THEN "on" ELSE "off"
     ELSE house[e]]

Posted(s) ==
  /\ speech[s].pc = "posting"
  /\ \/ house' = Switched(s) /\ \E answer \in {"done", "timeout"} : Answered(s, answer)
     \/ UNCHANGED house /\ \E answer \in {"timeout", "refused"} : Answered(s, answer)
  /\ UNCHANGED <<cached, reading, started>>

(* Somebody adds, removes or switches something in the house.              *)
HouseChanges ==
  /\ \E e \in Entities, state \in States : house' = [house EXCEPT ![e] = state]
  /\ UNCHANGED <<cached, reading, speech, started>>

HomeNext ==
  \/ OnStart \/ HouseChanges
  \/ \E by \in Refreshes : BeginReload(by) \/ Reload(by)
  \/ \E s \in Speakers : Ask(s) \/ Loaded(s) \/ Posted(s)

HomeSpec == HomeInit /\ [][HomeNext]_homeVars

-----------------------------------------------------------------------------
HomeTypeOK ==
  /\ house \in [Entities -> States] /\ cached \in [Entities -> States]
  /\ reading \subseteq Refreshes /\ started \in BOOLEAN
  /\ \A s \in Speakers : speech[s].targets \subseteq Entities

(* "HA reload — cache conservé" (reload): once something of the house is   *)
(* known, an outage of Home Assistant does not make the agent forget it,   *)
(* however refreshes and requests overlap; only a request that had found   *)
(* nothing and asked for itself may still bring back the nothing.          *)
OutageKeepsCache ==
  [][cached # NoStates /\ cached' = NoStates =>
       \E s \in Speakers : speech[s].pc = "loading"
                           /\ speech'[s].answer = "out of reach"]_homeVars
=============================================================================
