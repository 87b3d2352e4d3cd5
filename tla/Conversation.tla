---------------------------- MODULE Conversation ----------------------------
(***************************************************************************)
(* What the server promises to whoever talks to it, without routes, agents *)
(* or a gauge: a request gets one outcome, for good; with it, and at no    *)
(* other time, an answer is remembered, behind the earlier ones, or known  *)
(* to be lost; and where an agent was announced its response is announced  *)
(* too, unless the request fails.  RequestFlow implements it.              *)
(***************************************************************************)
EXTENDS Sequences

CONSTANT Requests

VARIABLES
  outcome,     \* what became of every request
  remembered,  \* the requests whose exchange the memory holds, in order
  lost,        \* the requests whose exchange could not be stored
  selected,    \* requests for which an agent was announced
  told         \* requests whose response was announced

conversationVars == <<outcome, remembered, lost, selected, told>>

Init ==
  /\ outcome = [r \in Requests |-> "none"]
  /\ remembered = <<>> /\ lost = {} /\ selected = {} /\ told = {}

Select(r) ==
  /\ outcome[r] = "none" /\ r \notin selected
  /\ selected' = selected \cup {r}
  /\ UNCHANGED <<outcome, remembered, lost, told>>

Remember(r) ==
  \/ remembered' = Append(remembered, r) /\ UNCHANGED lost
  \/ lost' = lost \cup {r} /\ UNCHANGED remembered

End(r, o) ==
  /\ outcome[r] = "none"
  /\ outcome' = [outcome EXCEPT ![r] = o]
  /\ IF o = "answered" THEN Remember(r) ELSE UNCHANGED <<remembered, lost>>
  /\ told' = IF r \in selected /\ o # "failed" THEN told \cup {r} ELSE told
  /\ UNCHANGED selected

Next ==
  \E r \in Requests :
    Select(r) \/ \E o \in {"handled", "answered", "failed"} : End(r, o)

Spec == Init /\ [][Next]_conversationVars
=============================================================================
