----------------------------- MODULE RequestFlow -----------------------------
(***************************************************************************)
(* What the server makes of an input: the routes /input/text, /input/      *)
(* stream, /input/audio and /input/voice of core/app.py, the intent router,*)
(* the agents they await, the conversation memory, the gauge of requests   *)
(* in flight and the events with the alerts and repairs that follow them.  *)
(*                                                                         *)
(* Requests are coroutines of one event loop: an action is what one of     *)
(* them does from the end of an await to the end of the next.  A text is   *)
(* told apart by the intent the NLP gives it, the keyword lists it matches *)
(* and the handler its wording asks for ("note": a repair or a note).      *)
(***************************************************************************)
EXTENDS Integers, Sequences, FiniteSets

CONSTANTS
  Inputs,    \* bound: requests ever made
  Queries    \* the texts: [nlp, matches, note, command]; a command is
             \* "none", one on the "next" task or one for the "state" of all

ASSUME InputsAssumption == IsFiniteSet(Inputs)

VARIABLES
  req,       \* how far each request is
  memory,    \* the table "memory", in the order of its ids
  unsaved,   \* requests whose exchange SQLite failed to store
  gauge,     \* neron_requests_in_flight
  trace,     \* the events published for a request, in order
  repairs    \* reports written for a request

requestVars == <<req, memory, unsaved, gauge, trace, repairs>>

(* _fallback_intent: the first keyword list that matches decides, before   *)
(* what the NLP says.  A greeting is a conversation.  A "/goal" to create  *)
(* an agent or a tool is also tested before the projects; all of these are *)
(* handled alike.                                                          *)
Cascade ==
  <<"time_query", "project_list", "project_status", "agent_creation",
    "tool_creation", "conversation", "thanks", "goodbye", "status_smalltalk",
    "self_status", "weather_query", "news_query", "ha_action",
    "personality_feedback", "code_audit", "code", "system_status",
    "network_status", "agent_list", "agent_run">>

IntentOf(q) ==
  LET hits == {k \in DOMAIN Cascade : Cascade[k] \in q.matches}
  IN IF hits = {} THEN q.nlp
     ELSE Cascade[CHOOSE k \in hits : \A l \in hits : k <= l]

(* The dispatch of text_input.  What has no handler of its own there, the  *)
(* weather, the news, todo lists and the wiki, is a conversation.          *)
WithAgent == {"ha_action", "code_audit", "code", "system_status", "network_status"}
Handled == {"personality_feedback", "time_query", "agent_creation", "tool_creation",
            "project_status", "project_list", "agent_list", "agent_run"}
SmallTalk == {"self_status", "greeting", "thanks", "goodbye", "status_smalltalk"}

Branch(q) ==
  CASE IntentOf(q) = "web_search" -> "web"
    [] IntentOf(q) \in WithAgent -> "agent"
    [] IntentOf(q) \in Handled -> "local"
    [] OTHER -> IF q.note \/ IntentOf(q) \in SmallTalk THEN "local" ELSE "chat"

Fresh == [entry |-> "none", pc |-> "idle", outcome |-> "none"]

RequestInit ==
  /\ req = [r \in Inputs |-> Fresh] /\ memory = <<>> /\ unsaved = {}
  /\ gauge = 0 /\ trace = [r \in Inputs |-> <<>>] /\ repairs = [r \in Inputs |-> 0]


-----------------------------------------------------------------------------
(* EventBus.publish ends when every subscriber has ended; what one raises  *)
(* is logged.  The analyzer publishes an alert from within.                *)
Alerts(event, result) ==
  CASE event = "agent.executed" /\ ~result.ok -> <<"agent_execution_failed">>
    [] event = "agent.executed" /\ result.ok /\ result.slow -> <<"agent_execution_slow">>
    [] event = "response.ready" /\ result.empty -> <<"empty_response">>
    [] OTHER -> <<>>

(* The reports that alerts may get: handle_system_alert_for_repair writes  *)
(* one with a proposed repair for each, or logs what stopped it (a         *)
(* workspace that is full or not writable).                                *)
Reports(alerts) == 0 .. Len(alerts)

(* agent.executed, then response.ready, each with its alerts.              *)
PublishResult(r, result) ==
  LET executed == Alerts("agent.executed", result)
      ready == Alerts("response.ready", result)
  IN /\ trace' = [trace EXCEPT ![r] =
          @ \o <<"agent.executed">> \o executed \o <<"response.ready">> \o ready]
     /\ \E n \in Reports(executed \o ready) : repairs' = [repairs EXCEPT ![r] = @ + n]

Results == [ok : BOOLEAN, slow : BOOLEAN, empty : BOOLEAN]

-----------------------------------------------------------------------------
(* The ends of a request: each "finally" takes what its route has counted; *)
(* a spoken request goes through the one of text_input as well.            *)
Spoken == {"audio", "voice"}
Depth(r) == IF req[r].entry \in Spoken THEN 2 ELSE 1
End(r, outcome) == req' = [req EXCEPT ![r].pc = "done", ![r].outcome = outcome]

(* text_input returns: /input/voice still has to speak.                    *)
Reply(r, outcome) ==
  IF req[r].entry = "voice"
  THEN /\ req' = [req EXCEPT ![r].pc = "speaking", ![r].outcome = outcome]
       /\ gauge' = gauge - 1
  ELSE End(r, outcome) /\ gauge' = gauge - Depth(r)

(* Mutant: the exception is not seen by the "finally" of the outer route.  *)
RaiseInside(r) == End(r, "failed") /\ gauge' = gauge - 1

(* What a handler raises passes both.                                      *)
Raise(r) == End(r, "failed") /\ gauge' = gauge - Depth(r)

(* _store_memory; what SQLite raises is logged.                            *)
Store(r, text) ==
  \/ memory' = Append(memory, [req |-> r, text |-> text]) /\ UNCHANGED unsaved
  \/ unsaved' = unsaved \cup {r} /\ UNCHANGED memory
Forget == UNCHANGED <<memory, unsaved>>
Quiet == UNCHANGED <<trace, repairs>>

(* Mutant: the error of an agent is remembered as its answer.              *)
RefuseButStore(r) == Reply(r, "handled") /\ Store(r, "error")

(* The answer only says what went wrong.                                   *)
Refuse(r) == Reply(r, "handled") /\ Forget

-----------------------------------------------------------------------------
(* A request comes in; the spoken ones are counted and their audio sent to *)
(* the speech-to-text agent.                                               *)
Arrive(r) ==
  /\ req[r].pc = "idle"
  /\ \E entry \in {"text", "stream"} \cup Spoken :
       /\ req' = [req EXCEPT ![r].entry = entry,
                    ![r].pc = CASE entry \in Spoken -> "hearing"
                                [] entry = "text" -> "received"
                                [] entry = "stream" -> "opened"]
       /\ gauge' = IF entry \in Spoken THEN gauge + 1 ELSE gauge
  /\ Forget /\ Quiet

Hear(r) ==
  /\ req[r].pc = "hearing"
  /\ \/ req' = [req EXCEPT ![r].pc = "received"] /\ UNCHANGED gauge
     \/ End(r, "failed") /\ gauge' = gauge - 1   \* no agent, no speech, no text
  /\ Forget /\ Quiet

(* text_input: a command for the task system is answered before the        *)
(* request is counted.  The state of the tasks is looked up under keys     *)
(* get_status_summary does not have: a KeyError.                           *)
TaskCommand(r, q) ==
  /\ IF q.command = "state" THEN End(r, "failed")
     ELSE req' = [req EXCEPT ![r].outcome = "handled", ![r].pc =
                    IF req[r].entry = "voice" THEN "speaking" ELSE "done"]
  /\ gauge' = IF req[r].entry = "audio" \/ req'[r].outcome = "failed"
              THEN gauge - (Depth(r) - 1) ELSE gauge
  /\ Quiet

TextInput(r) ==
  /\ req[r].pc = "received"
  /\ \E q \in Queries :
       IF q.command # "none" THEN TaskCommand(r, q)
       ELSE /\ req' = [req EXCEPT ![r].pc = Branch(q)]
            /\ gauge' = gauge + 1
            /\ trace' = [trace EXCEPT ![r] =
                 @ \o <<"user.message.received", "intent.detected">>
                   \o IF Branch(q) \in {"agent", "chat"} THEN <<"agent.selected">>
                      ELSE <<>>]
            /\ UNCHANGED repairs
  /\ Forget

(* The handlers that publish nothing more and store nothing; what the      *)
(* projects, the registry or the self model raise ends the request.        *)
RunLocal(r) ==
  /\ req[r].pc = "local" /\ Quiet
  /\ Refuse(r) \/ (Raise(r) /\ Forget)

(* The failure an agent reports is the answer; that of an audit is one for *)
(* the reader only (its CoreResponse has no error).  What it raises ends   *)
(* the request.                                                            *)
RunAgent(r) ==
  /\ req[r].pc = "agent"
  /\ \/ (\E result \in Results : PublishResult(r, result)) /\ Refuse(r)
     \/ Raise(r) /\ Forget /\ Quiet

(* _handle_web_search: without a result the query becomes a conversation,  *)
(* for which no agent is announced.                                        *)
SearchWeb(r) ==
  /\ req[r].pc = "web"
  /\ req' = [req EXCEPT ![r].pc = "summary"] \/ req' = [req EXCEPT ![r].pc = "fallback"]
  /\ UNCHANGED gauge /\ Forget /\ Quiet

(* The LLM sums up what was found; if it cannot, what was found is said.   *)
Summarise(r) ==
  req[r].pc = "summary" /\ Reply(r, "answered") /\ Store(r, "answer") /\ Quiet

(* Mutant: what the fallback of the search returns is announced too.       *)
AnnounceAll(r, result) == PublishResult(r, result)

(* text_input announces what _handle_conversation returns, text_input's    *)
(* fallback does not.                                                      *)
Announce(r, result) ==
  IF req[r].pc \in {"chat", "llm"} THEN PublishResult(r, result) ELSE Quiet

(* _handle_conversation: a registered agent that matches answers instead   *)
(* of the LLM; what it raises is the answer, but is not remembered.  A     *)
(* result without success is an answer like any other.                     *)
Delegate(r) ==
  /\ req[r].pc \in {"chat", "fallback"}
  /\ \/ /\ req' = [req EXCEPT ![r].pc =
                     IF @ = "chat" THEN "llm" ELSE "fallback llm"]
        /\ UNCHANGED gauge /\ Forget /\ Quiet
     \/ \E result \in Results :
          /\ Announce(r, result)
          /\ IF result.ok THEN Reply(r, "answered") /\ Store(r, "answer")
             ELSE Refuse(r)

AskLLM(r) ==
  /\ req[r].pc \in {"llm", "fallback llm"}
  /\ \/ \E result \in Results :
          /\ result.ok /\ Announce(r, result)
          /\ Reply(r, "answered") /\ Store(r, "answer")
     \/ Raise(r) /\ Forget /\ Quiet         \* 503, "LLM indisponible"

(* /input/voice; without a voice the text is the answer, and whatever else *)
(* synthesize raises, what text_input did stands.                          *)
Speak(r) ==
  /\ req[r].pc = "speaking"
  /\ End(r, req[r].outcome) /\ gauge' = gauge - 1
  /\ Forget /\ Quiet

(* /input/stream knows two handlers, the rest is streamed by the LLM.      *)
OpenStream(r) ==
  /\ req[r].pc = "opened"
  /\ \E q \in Queries :
       IF IntentOf(q) \in {"personality_feedback", "time_query"} THEN End(r, "handled")
       ELSE req' = [req EXCEPT ![r].pc = "stream"]
  /\ UNCHANGED gauge /\ Forget /\ Quiet

(* What LLMAgent.stream yields before it ends: the whole answer; the part  *)
(* before an error, which it swallows; nothing; or, where the service      *)
(* cannot be reached, the apology of the degraded response as one token.   *)
(* The client may also go away.                                            *)
Stream(r) ==
  /\ req[r].pc = "stream"
  /\ \/ End(r, "answered") /\ \E text \in {"answer", "part", "apology"} : Store(r, text)
     \/ End(r, "failed") /\ Forget
  /\ UNCHANGED gauge /\ Quiet

RequestNext ==
  \E r \in Inputs :
    \/ Arrive(r) \/ Hear(r) \/ TextInput(r) \/ RunLocal(r) \/ RunAgent(r)
    \/ SearchWeb(r) \/ Summarise(r) \/ Delegate(r) \/ AskLLM(r) \/ Speak(r)
    \/ OpenStream(r) \/ Stream(r)

RequestSpec == RequestInit /\ [][RequestNext]_requestVars

-----------------------------------------------------------------------------
Outcomes == {"none", "handled", "answered", "failed"}

RequestTypeOK ==
  /\ \A r \in Inputs :
       /\ req[r].entry \in {"none", "text", "stream"} \cup Spoken
       /\ req[r].outcome \in Outcomes
       /\ repairs[r] \in Nat
  /\ unsaved \subseteq Inputs /\ gauge \in Nat

(* Of every request the conversation remembers at most one exchange, and   *)
(* exactly those that were answered, if SQLite stored it: nothing an agent *)
(* raised, no refusal, no search that was answered twice over (app.py,     *)
(* _handle_conversation, _handle_web_search, /input/stream).               *)
Remembered(r) == Cardinality({i \in DOMAIN memory : memory[i].req = r})
MemoryOfAnswers ==
  \A r \in Inputs :
    Remembered(r) + (IF r \in unsaved THEN 1 ELSE 0)
      = (IF req[r].outcome = "answered" THEN 1 ELSE 0)

(* The gauge neron_requests_in_flight counts a request once in each of the *)
(* routes it is in, whatever ended it: 0 when none is in progress.         *)
Counted(r) ==
  LET pc == req[r].pc
  IN CASE pc \in {"idle", "opened", "stream", "done"} -> 0
       [] pc = "received" -> Depth(r) - 1
       [] pc \in {"hearing", "speaking"} -> 1
       [] OTHER -> Depth(r)
InRoutes == {x \in Inputs \X {1, 2} : x[2] <= Counted(x[1])}
GaugeSettles == gauge = Cardinality(InRoutes)

(* The events of a request are told in order: an execution was selected    *)
(* before, its response is ready right after it and its alerts, both at    *)
(* most once; a request that failed has neither, and no alert has more     *)
(* than one report (app.py, text_input; self_repair/subscriber.py).        *)
Positions(r, type) == {i \in DOMAIN trace[r] : trace[r][i] = type}
AlertTypes == {"agent_execution_failed", "agent_execution_slow", "empty_response"}
ToldInOrder ==
  \A r \in Inputs :
    LET executed == Positions(r, "agent.executed")
        ready == Positions(r, "response.ready")
    IN /\ Cardinality(executed) = Cardinality(ready) /\ Cardinality(ready) <= 1
       /\ \A i \in executed, j \in ready :
            /\ \E k \in Positions(r, "agent.selected") : k < i
            /\ \A k \in (i + 1) .. (j - 1) : trace[r][k] \in AlertTypes
       /\ req[r].outcome = "failed" => executed = {}
       /\ repairs[r] <= Cardinality({i \in DOMAIN trace[r] : trace[r][i] \in AlertTypes})

Conversing == INSTANCE Conversation WITH
  Requests <- Inputs,
  outcome <- [r \in Inputs |-> req[r].outcome],
  remembered <- [i \in DOMAIN memory |-> memory[i].req],
  lost <- unsaved,
  selected <- {r \in Inputs : Positions(r, "agent.selected") # {}},
  told <- {r \in Inputs : Positions(r, "response.ready") # {}}

(* Refinement: whatever the routes, the agents and a failing SQLite make of*)
(* requests that overlap, each is dealt with as Conversation promises: one *)
(* outcome for good, an answer remembered with it once or known to be lost,*)
(* and no announced agent without its response, but for a failure (app.py: *)
(* text_input, _handle_conversation, /input/voice, /input/stream).         *)
ImplementsConversation == Conversing!Spec
=============================================================================
