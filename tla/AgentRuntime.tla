---------------------------- MODULE AgentRuntime ----------------------------
(***************************************************************************)
(* The generated agents at work: the registry that imports their files     *)
(* (agent_factory/registry.py), the manager that runs them and keeps count *)
(* (runtime/agents/agent_runtime_manager.py), the conversation that hands  *)
(* a query over to one, and the intents of AgentRouter.route that come to  *)
(* them.  Every look at the agents imports all files anew; only the run of *)
(* an agent is awaited, so anything may be reloaded while it lasts.        *)
(***************************************************************************)
EXTENDS Naturals, FiniteSets

CONSTANTS
  Agents,   \* the modules of core/agents/generated
  Runs      \* bound: requests that come to a generated agent

ASSUME RunsAssumption == IsFiniteSet(Runs)

VARIABLES
  module,    \* the files: "none", "good", or "broken" when imported
  registry,  \* AGENT_REGISTRY
  states,    \* AgentRuntimeManager.states
  run,       \* the requests
  begun,     \* history: executions the manager has begun
  removed    \* history: agents whose file was once taken away

runtimeVars == <<module, registry, states, run, begun, removed>>

NoState == [object |-> 0, runs |-> 0, failures |-> 0]
Waiting == [pc |-> "idle", agent |-> CHOOSE a \in Agents : TRUE, object |-> 0,
            answer |-> "none"]

RuntimeInit ==
  /\ module \in [Agents -> {"none", "good"}] /\ registry = {}
  /\ states = [a \in Agents |-> NoState]
  /\ run = [r \in Runs |-> Waiting]
  /\ begun = [a \in Agents |-> 0] /\ removed = {}

-----------------------------------------------------------------------------
(* load_generated_agents clears the registry and imports file after file;  *)
(* the first that raises ends it, and what was imported before it stays.   *)
Good == {a \in Agents : module[a] = "good"}
Broken == {a \in Agents : module[a] = "broken"}
Imports == IF Broken = {} THEN {Good} ELSE SUBSET Good

(* A new state is a new object; the old one is left to whoever holds it.   *)
NewObject(a) == [object |-> begun[a] + 1, runs |-> 0, failures |-> 0]

(* Mutant: reload makes a new state of every agent.                        *)
RefreshedAnew(a, loaded) == IF a \in loaded THEN NewObject(a) ELSE NoState

(* setdefault for what was loaded, pop for what was not.                   *)
Refreshed(a, loaded) ==
  IF a \notin loaded THEN NoState
  ELSE IF states[a] = NoState THEN NewObject(a) ELSE states[a]

(* reload; where the import raises the states stay as they are.            *)
ReloadInto(loaded) ==
  states' = [a \in Agents |-> IF Broken = {} THEN Refreshed(a, loaded) ELSE states[a]]

Ended(r, answer) ==
  run' = [run EXCEPT ![r] = [Waiting EXCEPT !.pc = "done", !.answer = answer]]

(* agent_list only imports; self_status reloads, twice over, and answers   *)
(* from the self model.                                                    *)
ListAgents(r) ==
  /\ run[r].pc = "idle"
  /\ registry' \in Imports /\ UNCHANGED states
  /\ Ended(r, IF Broken = {} THEN "list" ELSE "raised")
  /\ UNCHANGED <<module, begun, removed>>

SelfStatus(r) ==
  /\ run[r].pc = "idle"
  /\ \E loaded \in Imports : registry' = loaded /\ ReloadInto(loaded)
  /\ Ended(r, IF Broken = {} THEN "status" ELSE "raised")
  /\ UNCHANGED <<module, begun, removed>>

(* _run_dynamic_agent: whatever went wrong, the agent is said not to be    *)
(* found.                                                                  *)
Said(ok) == IF ok THEN "response" ELSE "not found"

(* "Lance l'agent a", under the name of its module or without the "_agent" *)
(* at its end: run reloads and looks it up.                                *)
RunByName(r) ==
  /\ run[r].pc = "idle"
  /\ \E a \in Agents, loaded \in Imports :
       /\ registry' = loaded /\ ReloadInto(loaded)
       /\ \/ Broken # {} /\ Ended(r, "raised") /\ UNCHANGED begun
          \/ Broken = {} /\ a \notin loaded /\ Ended(r, Said(FALSE)) /\ UNCHANGED begun
          \/ /\ Broken = {} /\ a \in loaded
             /\ run' = [run EXCEPT ![r] = [pc |-> "running", agent |-> a,
                                           object |-> states'[a].object, answer |-> "none"]]
             /\ begun' = [begun EXCEPT ![a] = @ + 1]
  /\ UNCHANGED <<module, removed>>

(* The agent returns, be it a failure it reports itself, or raises; the    *)
(* state it was started with is counted up, no longer the one in the table *)
(* when a reload has found its file gone.                                  *)
CountUp(state, fails) ==
  [state EXCEPT !.runs = state.runs + 1, !.failures = state.failures + fails]

Finish(r) ==
  LET a == run[r].agent
  IN /\ run[r].pc = "running"
     /\ \E fails \in {0, 1} :
          /\ states' = [states EXCEPT ![a] =
               IF states[a].object = run[r].object THEN CountUp(states[a], fails)
               ELSE states[a]]
          /\ Ended(r, Said(fails = 0))
     /\ UNCHANGED <<module, registry, begun, removed>>

(* match_registered_agent: the record whose words overlap the query most,  *)
(* if they do enough.                                                      *)
Matching(loaded) == {{}} \cup {{a} : a \in loaded}

(* delegate_to_registered_agent imports and calls the agent that matches,  *)
(* behind the back of the manager.                                         *)
HandOver(r) ==
  /\ run[r].pc = "idle"
  /\ \E loaded \in Imports :
       /\ registry' = loaded
       /\ \/ Broken # {} /\ Ended(r, "raised")
          \/ /\ Broken = {}
             /\ \E match \in Matching(loaded) :
                  IF match = {} THEN Ended(r, "conversation")
                  ELSE \E a \in match :
                         run' = [run EXCEPT ![r].pc = "delegated", ![r].agent = a]
  /\ UNCHANGED <<module, states, begun, removed>>

HandedBack(r) ==
  /\ run[r].pc = "delegated"
  /\ \E answer \in {"response", "error"} : Ended(r, answer)
  /\ UNCHANGED <<module, registry, states, begun, removed>>

(* A build or a promotion copies a file that compiles and has a class      *)
(* Agent: it may still raise when it is imported.  A person removes one.   *)
FileChanges(a) ==
  /\ \/ module' \in {[module EXCEPT ![a] = m] : m \in {"good", "broken"}}
        /\ UNCHANGED removed
     \/ module' = [module EXCEPT ![a] = "none"] /\ removed' = removed \cup {a}
  /\ UNCHANGED <<registry, states, run, begun>>

RuntimeNext ==
  \/ \E r \in Runs : \/ ListAgents(r) \/ SelfStatus(r) \/ RunByName(r)
                     \/ Finish(r) \/ HandOver(r) \/ HandedBack(r)
  \/ \E a \in Agents : FileChanges(a)

RuntimeSpec == RuntimeInit /\ [][RuntimeNext]_runtimeVars

-----------------------------------------------------------------------------
RuntimeTypeOK ==
  /\ module \in [Agents -> {"none", "good", "broken"}]
  /\ registry \subseteq Agents /\ removed \subseteq Agents
  /\ \A a \in Agents : begun[a] <= Cardinality(Runs)

(* The counters shown of an agent miss no execution, as long as its file   *)
(* was not taken away: not one that reloads, replacements of the file or   *)
(* imports that raise have overtaken, whoever else was running it          *)
(* (AgentRuntimeManager.run, reload).                                      *)
InFlight(a) == {r \in Runs : run[r].pc = "running" /\ run[r].agent = a}
RunsAreCounted ==
  \A a \in Agents \ removed :
    /\ states[a].runs + Cardinality(InFlight(a)) = begun[a]
    /\ states[a].failures <= states[a].runs
=============================================================================
