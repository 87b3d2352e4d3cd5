------------------------------ MODULE MCService ------------------------------
(* The parts of the server process that share no variable, checked side by  *)
(* side: "focus" is the one that moves, the others stay as they begin.      *)
EXTENDS Watchdog, HostLifecycle, AnomalyRules, RequestFlow,
        BuildPipeline, Gateway, CodeAgent, Personality, HomeAssistant,
        LLMClient, AgentRuntime

VARIABLE focus

MCCooldowns == <<2, 1>>

(* One text for each way through the dispatch.                               *)
Text(nlp, matches) ==
  [nlp |-> nlp, matches |-> matches, note |-> FALSE, command |-> "none"]
MCQueries ==
  {Text("conversation", {}), Text("web_search", {}),
   Text("conversation", {"ha_action", "code"}),
   Text("conversation", {"time_query", "ha_action"}),
   [Text("conversation", {"thanks"}) EXCEPT !.note = TRUE]}
  \cup {[Text("conversation", {}) EXCEPT !.command = c] : c \in {"next", "state"}}

(* Two agents of one name.                                                   *)
MCSpecs == {[name |-> "meteo", sig |-> "s1"], [name |-> "meteo", sig |-> "s2"]}

Symmetry == Permutations(Builds)

(* "ab" and "a b" share ab.jsonl, "c" is alone in its file.                  *)
MCIds == {"ab", "a b", "c"}
MCStem == [i \in MCIds |-> IF i = "a b" THEN "ab" ELSE i]

(* Two files under the root whose backups have one name.                     *)
MCSources == {"main.py", "agents/x.py", "agents_x.py"}
MCStems == [p \in Paths |-> IF p = "agents/x.py" THEN "agents_x.py" ELSE p]

(* All lamps, those of one room, and the state of one thing.                 *)
MCDomain == [e \in Entities |-> IF e = "lamp" THEN "light" ELSE "switch"]
Wish(action, domain, plural, scored) ==
  [action |-> action, domain |-> domain, plural |-> plural,
   score |-> [e \in Entities |-> IF e \in scored THEN 3 ELSE 0]]
MCWishes == {Wish("turn_off", "light", TRUE, {}), Wish("turn_on", "none", FALSE, Entities),
             Wish("get_state", "none", FALSE, {"plug"})}

serviceVars == <<focus, watchdogVars, lifecycleVars, anomalyVars,
                 requestVars, buildVars, gatewayVars, codeVars, personaVars,
                 homeVars, llmVars, runtimeVars>>

Init ==
  /\ focus \in {"watchdog", "host", "anomalies", "requests", "builds",
               "gateway", "code", "persona", "home", "llm", "runtime"}
  /\ WatchdogInit /\ LifecycleInit /\ AnomalyInit
  /\ RequestInit /\ BuildInit /\ GatewayInit /\ CodeInit /\ PersonaInit
  /\ HomeInit /\ LLMInit /\ RuntimeInit
  /\ focus # "watchdog" => /\ clock = 1
                           /\ performed.chat = CHOOSE c \in Chats : TRUE
  /\ focus # "host" => enabled = {"monitor", "objects", "gateway"}
  /\ focus # "home" => house = NoStates
  /\ focus # "runtime" => module = [a \in Agents |-> "none"]
  /\ focus # "builds" => generated = [n \in Names |-> "none"]

Next ==
  /\ UNCHANGED focus
  /\ \/ /\ focus = "watchdog" /\ WatchdogNext
        /\ UNCHANGED <<lifecycleVars, anomalyVars, requestVars, buildVars,
                       gatewayVars, codeVars, personaVars, homeVars,
                       llmVars, runtimeVars>>
     \/ /\ focus = "host" /\ LifecycleNext
        /\ UNCHANGED <<watchdogVars, anomalyVars, requestVars, buildVars,
                       gatewayVars, codeVars, personaVars, homeVars,
                       llmVars, runtimeVars>>
     \/ /\ focus = "anomalies" /\ AnomalyNext
        /\ UNCHANGED <<watchdogVars, lifecycleVars, requestVars, buildVars,
                       gatewayVars, codeVars, personaVars, homeVars,
                       llmVars, runtimeVars>>
     \/ /\ focus = "requests" /\ RequestNext
        /\ UNCHANGED <<watchdogVars, lifecycleVars, anomalyVars, buildVars,
                       gatewayVars, codeVars, personaVars, homeVars,
                       llmVars, runtimeVars>>
     \/ /\ focus = "builds" /\ BuildNext
        /\ UNCHANGED <<watchdogVars, lifecycleVars, anomalyVars,
                       requestVars, gatewayVars, codeVars, personaVars,
                       homeVars, llmVars, runtimeVars>>
     \/ /\ focus = "gateway" /\ GatewayNext
        /\ UNCHANGED <<watchdogVars, lifecycleVars, anomalyVars,
                       requestVars, buildVars, codeVars, personaVars,
                       homeVars, llmVars, runtimeVars>>
     \/ /\ focus = "code" /\ CodeNext
        /\ UNCHANGED <<watchdogVars, lifecycleVars, anomalyVars,
                       requestVars, buildVars, gatewayVars, personaVars,
                       homeVars, llmVars, runtimeVars>>
     \/ /\ focus = "persona" /\ PersonaNext
        /\ UNCHANGED <<watchdogVars, lifecycleVars, anomalyVars,
                       requestVars, buildVars, gatewayVars, codeVars,
                       homeVars, llmVars, runtimeVars>>
     \/ /\ focus = "home" /\ HomeNext
        /\ UNCHANGED <<watchdogVars, lifecycleVars, anomalyVars,
                       requestVars, buildVars, gatewayVars, codeVars,
                       personaVars, llmVars, runtimeVars>>
     \/ /\ focus = "llm" /\ LLMNext
        /\ UNCHANGED <<watchdogVars, lifecycleVars, anomalyVars,
                       requestVars, buildVars, gatewayVars, codeVars,
                       personaVars, homeVars, runtimeVars>>
     \/ /\ focus = "runtime" /\ RuntimeNext
        /\ UNCHANGED <<watchdogVars, lifecycleVars, anomalyVars,
                       requestVars, buildVars, gatewayVars, codeVars,
                       personaVars, homeVars, llmVars>>

Spec == Init /\ [][Next]_serviceVars

(* The requests alone.                                                       *)
InitRequests == Init /\ focus = "requests"
RequestsAlone == InitRequests /\ [][Next]_serviceVars

(* Of the part that moves; the others are as Init left them.                *)
TypeOK ==
  CASE focus = "watchdog" -> WatchdogTypeOK [] focus = "host" -> HostLifecycleTypeOK
    [] focus = "anomalies" -> AnomalyTypeOK
    [] focus = "requests" -> RequestTypeOK  [] focus = "builds" -> BuildTypeOK
    [] focus = "gateway" -> GatewayTypeOK   [] focus = "code" -> CodeTypeOK
    [] focus = "persona" -> PersonaTypeOK   [] focus = "home" -> HomeTypeOK
    [] focus = "llm" -> LLMTypeOK           [] focus = "runtime" -> RuntimeTypeOK
=============================================================================
