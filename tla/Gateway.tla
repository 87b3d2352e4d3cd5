------------------------------- MODULE Gateway -------------------------------
(***************************************************************************)
(* The WebSocket gateway (core/gateway/gateway.py) with the sessions it    *)
(* keeps (core/modules/sessions.py) and the skills it calls.               *)
(*                                                                         *)
(* Every connection has a coroutine that reads a request, handles it and   *)
(* reads the next; only a skill keeps it waiting.  A session lives in the  *)
(* cache of the store and in a file, whose name drops what is no letter or *)
(* digit of the id: two ids may share one file.  The histories stay empty: *)
(* no handler adds a message, the streams of the agent do not exist.       *)
(***************************************************************************)
EXTENDS Integers, FiniteSets

CONSTANTS
  Clients,         \* sockets that may be open at once
  MaxConnections,  \* GatewayConfig.max_connections
  Ids,             \* session ids
  Stem,            \* Stem[i]: the id that is the name of i's file
  MaxVersion       \* bound: sessions ever created

ASSUME StemAssumption ==
  /\ Stem \in [Ids -> Ids] /\ \A i \in Ids : Stem[Stem[i]] = Stem[i]
  /\ MaxVersion \in Nat

VARIABLES
  conn,     \* the coroutine of a client: "none", "greeting", "reading", "calling"
  clients,  \* _clients, the table the limit counts
  trusted,  \* the clients that are authenticated
  answer,   \* what was last sent to a client
  cache,    \* SessionStore._cache: id -> session or None
  files,    \* the .jsonl files: stem -> session or None
  version,  \* sessions created so far, a session's prompt
  told      \* history: the last creation of an id that was answered

gatewayVars == <<conn, clients, trusted, answer, cache, files, version, told>>
socketVars == <<conn, clients, trusted>>
storeVars == <<cache, files, version, told>>

None == [id |-> CHOOSE i \in Ids : TRUE, version |-> 0]

GatewayInit ==
  /\ conn = [c \in Clients |-> "none"] /\ clients = {} /\ trusted = {}
  /\ answer = [c \in Clients |-> "none"]
  /\ cache = [i \in Ids |-> None] /\ files = [i \in Ids |-> None]
  /\ version = 0 /\ told = [i \in Ids |-> 0]

-----------------------------------------------------------------------------
(* _handle_client.  app.py gives the gateway the API key as token, None if *)
(* there is none: without one a client is authenticated at once.           *)
Connect(c) ==
  /\ conn[c] = "none"
  /\ IF Cardinality(clients) >= MaxConnections
     THEN UNCHANGED socketVars     \* closed with 1013
     ELSE /\ clients' = clients \cup {c}
          /\ \/ conn' = [conn EXCEPT ![c] = "greeting"] /\ UNCHANGED trusted
             \/ conn' = [conn EXCEPT ![c] = "reading"] /\ trusted' = trusted \cup {c}
  /\ UNCHANGED <<answer, storeVars>>

Greet(c) ==
  /\ conn[c] = "greeting"
  /\ conn' = [conn EXCEPT ![c] = "reading"]
  /\ UNCHANGED <<clients, trusted, answer, storeVars>>

(* The end of the loop: the socket was closed, or a frame that is no text  *)
(* in UTF-8 raised; "finally" removes the client either way.               *)
Disconnect(c) ==
  /\ conn[c] = "reading"
  /\ conn' = [conn EXCEPT ![c] = "none"]
  /\ clients' = clients \ {c}
  /\ trusted' = trusted \ {c} /\ answer' = [answer EXCEPT ![c] = "none"]
  /\ UNCHANGED storeVars

-----------------------------------------------------------------------------
(* _dispatch and _handle_method.  A request that is malformed, or comes    *)
(* before the token, is answered by an error and changes nothing.          *)
Send(c, what) == answer' = [answer EXCEPT ![c] = what]

Reject(c) ==
  /\ conn[c] = "reading" /\ Send(c, "error")
  /\ UNCHANGED <<socketVars, storeVars>>

Authenticate(c) ==
  /\ conn[c] = "reading"
  /\ \/ trusted' = trusted \cup {c} /\ Send(c, "result")
     \/ UNCHANGED trusted /\ Send(c, "error")
  /\ UNCHANGED <<conn, clients, storeVars>>

Serving(c) == conn[c] = "reading" /\ c \in trusted

(* _skill_call: the tools of a skill are coroutines of their own.          *)
CallSkill(c) ==
  /\ Serving(c)
  /\ conn' = [conn EXCEPT ![c] = "calling"]
  /\ UNCHANGED <<clients, trusted, answer, storeVars>>

SkillReturns(c) ==
  /\ conn[c] = "calling"
  /\ conn' = [conn EXCEPT ![c] = "reading"]
  /\ \E what \in {"result", "error"} : Send(c, what)
  /\ UNCHANGED <<clients, trusted, storeVars>>

(* What chat_stream of the agent gives, which AgentRouter does not have.   *)
StreamEnds == {"agent.error"}

(* _chat_send, and _agent_run whose message may be empty.                  *)
Chat(c) ==
  /\ Serving(c)
  /\ \/ Send(c, "agent.error: Message vide")
     \/ \E end \in StreamEnds : Send(c, end)
  /\ UNCHANGED <<socketVars, storeVars>>

-----------------------------------------------------------------------------
(* Mutant: save writes the file in place; where it fails, nothing is left. *)
SaveInPlace(session, fails) ==
  [files EXCEPT ![Stem[session.id]] = IF fails THEN None ELSE session]

(* save: a temporary file takes the place of the old one, or is removed.   *)
Saved(session, fails) ==
  IF fails THEN files ELSE [files EXCEPT ![Stem[session.id]] = session]

(* _session_new: create replaces the session in the cache, and then saves. *)
(* The process may die after the save, before the answer.                  *)
NewSession(c) ==
  /\ Serving(c) /\ version < MaxVersion /\ version' = version + 1
  /\ \E i \in Ids, fails \in BOOLEAN :
       LET session == [id |-> i, version |-> version + 1]
       IN /\ cache' = [cache EXCEPT ![i] = session]
          /\ files' = Saved(session, fails)
          /\ \/ fails /\ Send(c, "error") /\ UNCHANGED told
             \/ ~fails /\ Send(c, "result") /\ told' = [told EXCEPT ![i] = version + 1]
             \/ ~fails /\ UNCHANGED <<answer, told>>
  /\ UNCHANGED socketVars

(* get: the cache, or else the file of that name, whoever's it is.         *)
Get(i) == IF cache[i] # None THEN cache[i] ELSE files[Stem[i]]

GetSession(c) ==
  /\ Serving(c)
  /\ \E i \in Ids :
       /\ cache' = [cache EXCEPT ![i] = Get(i)]
       /\ Send(c, IF Get(i) = None THEN "error" ELSE "result")
  /\ UNCHANGED <<socketVars, files, version, told>>

(* list_all gets every file by its name, the id of a session or not.       *)
ListSessions(c) ==
  /\ Serving(c)
  /\ cache' = [i \in Ids |-> IF files[i] # None THEN Get(i) ELSE cache[i]]
  /\ Send(c, "result")
  /\ UNCHANGED <<socketVars, files, version, told>>

(* The process ends; the files are what is left of it.                     *)
Restart ==
  /\ conn' = [c \in Clients |-> "none"] /\ clients' = {} /\ trusted' = {}
  /\ answer' = [c \in Clients |-> "none"]
  /\ cache' = [i \in Ids |-> None]
  /\ UNCHANGED <<files, version, told>>

GatewayNext ==
  \/ \E c \in Clients :
       \/ Connect(c) \/ Greet(c) \/ Disconnect(c) \/ Reject(c) \/ Authenticate(c)
       \/ CallSkill(c) \/ SkillReturns(c) \/ Chat(c)
       \/ NewSession(c) \/ GetSession(c) \/ ListSessions(c)
  \/ Restart

GatewaySpec == GatewayInit /\ [][GatewayNext]_gatewayVars

-----------------------------------------------------------------------------
Sessions == [id : Ids, version : 0..MaxVersion]

GatewayTypeOK ==
  /\ conn \in [Clients -> {"none", "greeting", "reading", "calling"}]
  /\ trusted \subseteq clients /\ clients \subseteq Clients
  /\ cache \in [Ids -> Sessions] /\ files \in [Ids -> Sessions]

(* A session whose creation was answered is what a restarted process       *)
(* loads, or a later one of that id: neither a write that failed nor a     *)
(* crash loses it (SessionStore.create, save), unless two ids share a file.*)
Alone(i) == \A j \in Ids \ {i} : Stem[j] # Stem[i]
ToldSessionsLast ==
  \A i \in Ids : told[i] > 0 /\ Alone(i) =>
    /\ files[i].id = i /\ files[i].version >= told[i]
    /\ cache[i] # None => cache[i].version >= told[i]
=============================================================================
