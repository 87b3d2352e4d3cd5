------------------------------ MODULE LLMClient ------------------------------
(***************************************************************************)
(* How an answer of the language model is obtained: LLMAgent.execute and   *)
(* LLMAgent.stream (core/agents/core/llm_agent.py) over the client of      *)
(* core/llm_client/client.py, which posts to the LLM service, waits, and   *)
(* tries again.  The service is a process of its own: it goes on with a    *)
(* generation whose client has stopped waiting, and may be down or busy.   *)
(***************************************************************************)
EXTENDS Naturals, Sequences

CONSTANTS
  Calls,      \* bound: calls ever made
  Retries,    \* llm.retry: attempts after the first
  MaxTokens   \* bound: tokens of one stream

ASSUME LLMAssumption == {Retries, MaxTokens} \subseteq Nat

VARIABLES
  call,      \* the calls: what each waits for
  jobs,      \* <<call, attempt>>: what the service is generating
  received   \* what the caller has read: "token", "whole" or "apology" each

llmVars == <<call, jobs, received>>

Unused == [by |-> "none", pc |-> "idle", attempt |-> 0, end |-> "none"]

LLMInit ==
  /\ call = [c \in Calls |-> Unused] /\ jobs = {}
  /\ received = [c \in Calls |-> <<>>]

Goto(c, pc) == call' = [call EXCEPT ![c].pc = pc]
Return(c, end) == call' = [call EXCEPT ![c].pc = "done", ![c].end = end]

-----------------------------------------------------------------------------
(* generate() begins: of execute, or as the fallback of a stream.          *)
AskForText(c) ==
  call' = [call EXCEPT ![c].pc = "attempt", ![c].attempt = 1]

Execute(c) ==
  /\ call[c].pc = "idle"
  /\ call' = [call EXCEPT ![c] = [Unused EXCEPT !.by = "execute", !.pc = "attempt",
                                                !.attempt = 1]]
  /\ UNCHANGED <<jobs, received>>

Post(c) ==
  /\ call[c].pc = "attempt"
  /\ jobs' = jobs \cup {<<c, call[c].attempt>>}
  /\ Goto(c, "waiting")
  /\ UNCHANGED received

(* What generate() returned: execute tells a degraded response by its      *)
(* model and reports a failure, the stream yields the text there is.       *)
Deliver(c, what) ==
  /\ received' = [received EXCEPT ![c] = Append(@, what)]
  /\ Return(c, IF call[c].by = "execute" /\ what = "apology" THEN "failure" ELSE "success")

(* The range of the loop: the first attempt, and Retries more.             *)
TryAgain(c) ==
  IF call[c].attempt <= Retries
  THEN /\ call' = [call EXCEPT ![c].pc = "attempt", ![c].attempt = @ + 1]
       /\ UNCHANGED received
  ELSE Deliver(c, "apology")

(* No connection, a timeout, an error 5xx, or no JSON: the next attempt is *)
(* made at once.  After a timeout the service still works on the last.     *)
AttemptFails(c) ==
  /\ \/ call[c].pc = "attempt" /\ UNCHANGED jobs
     \/ call[c].pc = "waiting"
        /\ jobs' \in {jobs, jobs \ {<<c, call[c].attempt>>}}
  /\ TryAgain(c)

(* 400, 401, 403, 404, 422: the same request would be refused again.       *)
Refused(c) ==
  /\ call[c].pc = "waiting"
  /\ jobs' = jobs \ {<<c, call[c].attempt>>}
  /\ Deliver(c, "apology")

(* The service ends a generation: of the attempt that waits for it, or of  *)
(* one that was given up, whose text nobody reads.                         *)
Generated(c, n) ==
  /\ <<c, n>> \in jobs /\ jobs' = jobs \ {<<c, n>>}
  /\ IF call[c].pc = "waiting" /\ call[c].attempt = n THEN Deliver(c, "whole")
     ELSE UNCHANGED <<call, received>>

-----------------------------------------------------------------------------
(* stream(): the connection has 5 s, a token all the time it takes.        *)
BeginStream(c) ==
  /\ call[c].pc = "idle"
  /\ call' = [call EXCEPT ![c] = [Unused EXCEPT !.by = "stream", !.pc = "opening"]]
  /\ UNCHANGED <<jobs, received>>

StreamOpens(c) ==
  /\ call[c].pc = "opening" /\ Goto(c, "streaming")
  /\ UNCHANGED <<jobs, received>>

Token(c) ==
  /\ call[c].pc = "streaming" /\ Len(received[c]) < MaxTokens
  /\ received' = [received EXCEPT ![c] = Append(@, "token")]
  /\ UNCHANGED <<call, jobs>>

EndStream(c) ==
  /\ call[c].pc = "streaming" /\ Return(c, "success")
  /\ UNCHANGED <<jobs, received>>

(* Mutant: whatever ends a stream is answered by a generation.             *)
FallBackAlways(c, error) == TRUE

(* Only an error from before the first token: no connection, or a status   *)
(* that is none of success.                                                *)
FallBack(c, error) == error \in {"no connection", "status"}

(* A timeout and a connection that breaks are logged; what was yielded so  *)
(* far is the answer.                                                      *)
StreamFails(c, error) ==
  /\ \/ call[c].pc = "opening" /\ error \in {"no connection", "status", "timeout"}
     \/ call[c].pc = "streaming" /\ error = "broken"
  /\ IF FallBack(c, error) THEN AskForText(c) ELSE Return(c, "success")
  /\ UNCHANGED <<jobs, received>>

LLMNext ==
  \E c \in Calls :
    \/ Execute(c) \/ Post(c) \/ AttemptFails(c) \/ Refused(c)
    \/ \E n \in 1 .. (Retries + 1) : Generated(c, n)
    \/ BeginStream(c) \/ StreamOpens(c) \/ Token(c) \/ EndStream(c)
    \/ \E error \in {"no connection", "status", "timeout", "broken"} :
         StreamFails(c, error)

LLMSpec == LLMInit /\ [][LLMNext]_llmVars

-----------------------------------------------------------------------------
LLMTypeOK ==
  /\ jobs \subseteq Calls \X (1 .. (Retries + 1))
  /\ \A c \in Calls :
       /\ received[c] \in Seq({"token", "whole", "apology"})
       /\ call[c].attempt \in 0 .. (Retries + 1)
       /\ call[c].by \in {"none", "execute", "stream"}
       /\ call[c].end \in {"none", "success", "failure"}

(* A caller reads one answer, whatever was tried again and whatever comes  *)
(* late: the tokens of one stream, or one text of generate() and nothing   *)
(* else, never a part of the one before the whole of the other; and        *)
(* execute reports success exactly of a text that was generated.           *)
OneAnswer ==
  \A c \in Calls :
    LET texts == {received[c][i] : i \in DOMAIN received[c]}
    IN /\ texts # {"token"} => Len(received[c]) <= 1
       /\ call[c].by = "execute" /\ call[c].pc = "done" =>
            (call[c].end = "success" <=> received[c] = <<"whole">>)
=============================================================================
