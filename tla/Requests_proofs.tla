--------------------------- MODULE Requests_proofs ---------------------------
(***************************************************************************)
(* Proofs about what is asked of the server: the requests it answers and   *)
(* what it remembers, counts and tells of them (RequestFlow), and the      *)
(* commands of the watchdog's bot that wait for a confirmation (Watchdog). *)
(***************************************************************************)
EXTENDS RequestFlow, Watchdog, Personality, AnomalyRules, Lists_proofs,
        FiniteSetTheorems, SequenceTheorems

-----------------------------------------------------------------------------
(* The watchdog's confirmations (Watchdog).                                *)

(* A confirmation that waits is for the last request of its chat, which is *)
(* neither cancelled nor done, and expires ConfirmTTL after it was made.   *)
PendingIsLive(c) ==
  pending[c] # NoPending =>
    /\ wish[c].live = TRUE /\ wish[c].action = pending[c].action
    /\ pending[c].expires = wish[c].at + ConfirmTTL

ConfirmTypes ==
  /\ clock \in Nat
  /\ pending \in [Chats -> [action : Actions \cup {"none"}, expires : Nat]]
  /\ wish \in [Chats -> [action : Actions \cup {"none"}, at : Nat, live : BOOLEAN]]

ConfirmInv == ConfirmTypes /\ \A c \in Chats : PendingIsLive(c)

ConfirmedStep ==
  performed' # performed =>
    LET p == performed' IN
      /\ wish[p.chat].live /\ wish[p.chat].action = p.action
      /\ clock - wish[p.chat].at <= ConfirmTTL
      /\ Allowed # {} => p.chat \in Allowed

LEMMA NothingPending ==
  /\ NoPending \in [action : Actions \cup {"none"}, expires : Nat]
  /\ \A c \in Chats : pending[c].action \in Actions => pending[c] # NoPending
BY DEF NoPending, Actions

(* The chat c confirms a: its wish is fulfilled and nothing of it waits.   *)
LEMMA ConfirmKeepsInv ==
  ASSUME ConfirmInv, NEW c \in Chats, NEW a \in Actions, Record(c, a), clock' = clock,
         \/ pending' = [pending EXCEPT ![c] = NoPending]
         \/ pending' = [d \in Chats |-> NoPending]
  PROVE  ConfirmInv'
<1> DEFINE e == [wish[c] EXCEPT !.live = FALSE]
<1>0. /\ clock \in Nat
      /\ pending \in [Chats -> [action : Actions \cup {"none"}, expires : Nat]]
      /\ wish \in [Chats -> [action : Actions \cup {"none"}, at : Nat, live : BOOLEAN]]
  BY DEF ConfirmInv, ConfirmTypes
<1>1. wish' = [wish EXCEPT ![c] = e]
  BY <1>0 DEF Record
<1>2. e \in [action : Actions \cup {"none"}, at : Nat, live : BOOLEAN]
  BY <1>0
<1>3. /\ wish' \in [Chats -> [action : Actions \cup {"none"}, at : Nat, live : BOOLEAN]]
      /\ \A d \in Chats \ {c} : wish'[d] = wish[d]
  BY <1>0, <1>1, <1>2
<1>4. /\ pending' \in [Chats -> [action : Actions \cup {"none"}, expires : Nat]]
      /\ pending'[c] = NoPending
      /\ \A d \in Chats : pending'[d] = NoPending \/ pending'[d] = pending[d]
  BY <1>0, NothingPending
<1>5. ASSUME NEW d \in Chats PROVE PendingIsLive(d)'
  <2>1. CASE d = c
    BY <1>4, <2>1 DEF PendingIsLive
  <2>2. CASE d # c
    BY <1>3, <1>4, <2>2 DEF PendingIsLive, ConfirmInv
  <2> QED
    BY <2>1, <2>2
<1> QED
  BY <1>0, <1>3, <1>4, <1>5 DEF ConfirmInv, ConfirmTypes

(* What is confirmed is what the chat asked for last, in time.             *)
LEMMA ConfirmIsWished ==
  ASSUME ConfirmInv, NEW c \in Chats, NEW a \in Actions, Record(c, a), Command(c),
         pending[c].action = a, ~Expired(c)
  PROVE  ConfirmedStep
<1>1. pending[c] # NoPending /\ PendingIsLive(c)
  BY NothingPending DEF ConfirmInv
<1>2. performed'.chat = c /\ performed'.action = a
  BY DEF Record
<1>3. /\ wish[c].live = TRUE /\ wish[c].action = a
      /\ pending[c].expires = wish[c].at + ConfirmTTL
  BY <1>1 DEF PendingIsLive
<1>4. /\ clock \in Nat /\ pending[c].expires \in Nat /\ wish[c].at \in Nat /\ ConfirmTTL \in Nat
  BY WatchdogAssumption DEF ConfirmInv, ConfirmTypes
<1>5. clock - wish[c].at <= ConfirmTTL
  BY <1>3, <1>4 DEF Expired
<1>6. Allowed # {} => c \in Allowed
  BY DEF Command
<1>7. wish[c].live
  BY <1>3, Zenon
<1> QED
  BY <1>2, <1>3, <1>5, <1>6, <1>7 DEF ConfirmedStep

(* Only requests, cancellations and confirmations touch what waits.        *)
LEMMA NothingConfirmed ==
  ASSUME ConfirmInv, clock' \in {clock, clock + 1}, UNCHANGED <<pending, wish, performed>>
  PROVE  ConfirmInv' /\ ConfirmedStep
BY DEF ConfirmInv, ConfirmTypes, PendingIsLive, ConfirmedStep

LEMMA WatchdogStep == ConfirmInv /\ [WatchdogNext]_watchdogVars => ConfirmInv' /\ ConfirmedStep
<1> SUFFICES ASSUME ConfirmInv, [WatchdogNext]_watchdogVars PROVE ConfirmInv' /\ ConfirmedStep
  OBVIOUS
<1> DEFINE Waits == [action : Actions \cup {"none"}, expires : Nat]
           Wishes == [action : Actions \cup {"none"}, at : Nat, live : BOOLEAN]
<1>0. /\ clock \in Nat /\ pending \in [Chats -> Waits] /\ wish \in [Chats -> Wishes]
      /\ ConfirmTTL \in Nat
  BY WatchdogAssumption DEF ConfirmInv, ConfirmTypes
<1>1. CASE UNCHANGED watchdogVars
  BY <1>1, NothingConfirmed DEF watchdogVars, volatile, history
<1>2. CASE Tick
  BY <1>2, NothingConfirmed DEF Tick, volatile, history
<1>3. CASE StartBot \/ LoopWake \/ Measured \/ CheckAlert \/ AlertSent
  BY <1>3, NothingConfirmed DEF StartBot, LoopWake, Measured, CheckAlert, AlertSent, history
<1>4. ASSUME NEW c \in Chats, Config(c) \/ Mute(c) PROVE ConfirmInv' /\ ConfirmedStep
  BY <1>4, NothingConfirmed DEF Config, Mute, AlertVars, ConfirmVars
<1>5. ASSUME NEW c \in Chats, ReloadAgents(c) PROVE ConfirmInv' /\ ConfirmedStep
  BY <1>5, NothingConfirmed DEF ReloadAgents, AlertVars
<1>6. ASSUME NEW c \in Chats, Cancel(c) PROVE ConfirmInv' /\ ConfirmedStep
  <2> DEFINE e == [wish[c] EXCEPT !.live = FALSE]
  <2>1. /\ pending' = [pending EXCEPT ![c] = NoPending] /\ wish' = [wish EXCEPT ![c] = e]
        /\ clock' = clock /\ performed' = performed
    BY <1>0, <1>6 DEF Cancel, AlertVars
  <2>2. e \in Wishes
    BY <1>0
  <2>3. pending' \in [Chats -> Waits] /\ wish' \in [Chats -> Wishes]
    BY <1>0, <2>1, <2>2, NothingPending
  <2>4. ASSUME NEW d \in Chats PROVE PendingIsLive(d)'
    BY <1>0, <2>1 DEF PendingIsLive, ConfirmInv
  <2> QED
    BY <1>0, <2>1, <2>3, <2>4 DEF ConfirmInv, ConfirmTypes, ConfirmedStep
<1>7. ASSUME NEW c \in Chats, ConfirmTooLate(c) PROVE ConfirmInv' /\ ConfirmedStep
  <2>1. /\ pending' = [pending EXCEPT ![c] = NoPending] /\ wish' = wish
        /\ clock' = clock /\ performed' = performed
    BY <1>7 DEF ConfirmTooLate, AlertVars
  <2>2. pending' \in [Chats -> Waits]
    BY <1>0, <2>1, NothingPending
  <2>3. ASSUME NEW d \in Chats PROVE PendingIsLive(d)'
    BY <1>0, <2>1 DEF PendingIsLive, ConfirmInv
  <2> QED
    BY <1>0, <2>1, <2>2, <2>3 DEF ConfirmInv, ConfirmTypes, ConfirmedStep
<1>8. ASSUME NEW c \in Chats, NEW a \in Actions, Request(c, a)
      PROVE  ConfirmInv' /\ ConfirmedStep
  <2> DEFINE e == [action |-> a, expires |-> clock + ConfirmTTL]
             f == [action |-> a, at |-> clock, live |-> TRUE]
  <2>1. /\ pending' = [pending EXCEPT ![c] = e] /\ wish' = [wish EXCEPT ![c] = f]
        /\ clock' = clock /\ performed' = performed
    BY <1>8 DEF Request, AlertVars
  <2>2. e \in Waits /\ f \in Wishes
    BY <1>0
  <2>3. pending' \in [Chats -> Waits] /\ wish' \in [Chats -> Wishes]
    BY <1>0, <2>1, <2>2
  <2>4. /\ pending'[c] = e /\ wish'[c] = f
        /\ \A d \in Chats \ {c} : pending'[d] = pending[d] /\ wish'[d] = wish[d]
    BY <1>0, <2>1
  <2>5. ASSUME NEW d \in Chats PROVE PendingIsLive(d)'
    <3>1. CASE d = c
      <4>1. pending'[d].expires = wish'[d].at + ConfirmTTL
        BY <2>4, <3>1
      <4>2. pending'[d].action = wish'[d].action
        BY <2>4, <3>1
      <4>3. wish'[d].live = TRUE
        <5>1. f.live = TRUE
          OBVIOUS
        <5>2. wish'[d] = f
          BY <2>4, <3>1
        <5> HIDE DEF f
        <5> QED
          BY <5>1, <5>2
      <4> QED
        BY <4>1, <4>2, <4>3 DEF PendingIsLive
    <3>2. CASE d # c
      BY <2>4, <3>2 DEF PendingIsLive, ConfirmInv
    <3> QED
      BY <3>1, <3>2
  <2> QED
    BY <1>0, <2>1, <2>3, <2>5 DEF ConfirmInv, ConfirmTypes, ConfirmedStep
<1>9. ASSUME NEW c \in Chats, ConfirmClear(c) PROVE ConfirmInv' /\ ConfirmedStep
  <2>1. /\ Command(c) /\ pending[c].action = "clear_events" /\ ~Expired(c)
        /\ Record(c, "clear_events") /\ clock' = clock
        /\ pending' = [pending EXCEPT ![c] = NoPending]
    BY <1>9 DEF ConfirmClear, AlertVars
  <2>2. "clear_events" \in Actions
    BY DEF Actions
  <2> QED
    BY <2>1, <2>2, ConfirmKeepsInv, ConfirmIsWished
<1>10. ASSUME NEW c \in Chats, ConfirmRestart(c) PROVE ConfirmInv' /\ ConfirmedStep
  <2>1. /\ Command(c) /\ pending[c].action = "restart_core" /\ ~Expired(c)
        /\ Record(c, "restart_core") /\ clock' = clock
        /\ \/ pending' = [pending EXCEPT ![c] = NoPending]
           \/ pending' = [d \in Chats |-> NoPending]
    BY <1>10 DEF ConfirmRestart
  <2>2. "restart_core" \in Actions
    BY DEF Actions
  <2> QED
    BY <2>1, <2>2, ConfirmKeepsInv, ConfirmIsWished
<1> QED
  BY <1>1, <1>2, <1>3, <1>4, <1>5, <1>6, <1>7, <1>8, <1>9, <1>10 DEF WatchdogNext

(* A confirmed restart of the server or loss of the event log is the last  *)
(* thing its chat asked for, neither cancelled nor done before, in time    *)
(* and from a chat of the list (watchdog_agent.py, the commands /clear,    *)
(* /restart core, /confirm, /cancel): for all chats, clocks and durations. *)
THEOREM ConfirmedByRequestCorrect == WatchdogSpec => ConfirmedByRequest
<1>1. WatchdogInit => ConfirmInv
  <2> SUFFICES ASSUME WatchdogInit PROVE ConfirmInv
    OBVIOUS
  <2>1. clock \in Nat
    <3>1. Cooldowns[1] \in Nat
      BY WatchdogAssumption
    <3> QED
      BY <3>1 DEF WatchdogInit
  <2>2. /\ pending = [c \in Chats |-> NoPending]
        /\ wish = [c \in Chats |-> [action |-> "none", at |-> 0, live |-> FALSE]]
    BY DEF WatchdogInit
  <2>3. ConfirmTypes
    BY <2>1, <2>2, NothingPending DEF ConfirmTypes
  <2>4. \A c \in Chats : PendingIsLive(c)
    BY <2>2 DEF PendingIsLive
  <2> QED
    BY <2>3, <2>4 DEF ConfirmInv
<1>2. ConfirmInv /\ [WatchdogNext]_watchdogVars => ConfirmInv' /\ ConfirmedStep
  BY WatchdogStep
<1>3. ConfirmInv /\ [WatchdogNext]_watchdogVars => [ConfirmedStep]_watchdogVars
  BY <1>2
<1> QED
  BY <1>1, <1>2, <1>3, PTL DEF WatchdogSpec, ConfirmedByRequest, ConfirmedStep

(* A confirmed action leaves what is recorded of a kind and in its bound.   *)
LEMMA RecordKeepsTypes ==
  ASSUME WatchdogTypeOK, NEW c \in Chats, NEW a \in Actions, Record(c, a)
  PROVE  /\ performed' \in [n : 0..MaxPerformed, chat : Chats, action : Actions]
         /\ wish' \in [Chats -> [action : Actions \cup {"none"}, at : Times, live : BOOLEAN]]
<1> DEFINE Wishes == [action : Actions \cup {"none"}, at : Times, live : BOOLEAN]
<1>0. MaxPerformed \in Nat
  BY WatchdogAssumption
<1>1. performed.n + 1 \in 0 .. MaxPerformed
  BY <1>0 DEF Record, WatchdogTypeOK
<1>2. performed' \in [n : 0..MaxPerformed, chat : Chats, action : Actions]
  BY <1>1 DEF Record
<1>3. wish \in [Chats -> Wishes] /\ wish' = [wish EXCEPT ![c].live = FALSE]
  BY DEF Record, WatchdogTypeOK
<1>4. [wish[c] EXCEPT !.live = FALSE] \in Wishes
  <2> HIDE DEF Times, Actions
  <2> QED
    BY <1>3
<1> QED
  <2> HIDE DEF Wishes
  <2> QED
    BY <1>2, <1>3, <1>4 DEF Wishes

LEMMA TimesAre ==
  ASSUME WatchdogTypeOK
  PROVE  /\ clock \in Nat /\ clock <= MaxClock
         /\ \A t \in 0 .. MaxClock : t \in Times
         /\ clock + ConfirmTTL \in Times /\ clock + MuteTicks \in Times /\ 0 \in Times
<1>1. clock \in 0 .. MaxClock /\ MaxClock \in Nat /\ ConfirmTTL \in Nat /\ MuteTicks \in Nat
  BY WatchdogAssumption, Zenon DEF WatchdogTypeOK
<1> QED
  BY <1>1 DEF Times

LEMMA LoopGoesOn ==
  ASSUME WatchdogTypeOK
  PROVE  /\ NextResource \in [pc : {"sleep", "cpu", "alerting", "send"}, at : 1..3]
         /\ Order[loop.at] \in Resources
<1>1. loop.at \in 1 .. 3
  BY DEF WatchdogTypeOK
<1>2. loop.at < 3 => loop.at + 1 \in 1 .. 3
  BY <1>1
<1>3. Order[loop.at] \in Resources
  BY <1>1 DEF Order, Resources
<1> QED
  BY <1>1, <1>2, <1>3 DEF NextResource

LEMMA WatchdogTypesStart == WatchdogInit => WatchdogTypeOK
<1> SUFFICES ASSUME WatchdogInit PROVE WatchdogTypeOK
  OBVIOUS
<1>1. /\ MaxClock \in Nat /\ ConfirmTTL \in Nat /\ MuteTicks \in Nat /\ MaxPerformed \in Nat
      /\ 1 <= MaxClock /\ Cooldowns[1] <= MaxClock
  BY WatchdogAssumption
<1>2. 1 \in DOMAIN Cooldowns /\ Cooldowns[1] \in Nat
  <2>1. Cooldowns \in Seq(Nat) /\ Cooldowns # <<>>
    BY WatchdogAssumption
  <2>2. DOMAIN Cooldowns = 1 .. Len(Cooldowns) /\ Len(Cooldowns) \in Nat
    BY <2>1, LenProperties
  <2>3. Len(Cooldowns) # 0
    BY <2>1, EmptySeq
  <2> QED
    BY <2>1, <2>2, <2>3, ElementOfSeq
<1>3. 0 \in Times /\ clock \in 0 .. MaxClock
  BY <1>1, <1>2 DEF Times, WatchdogInit
<1>4. NoPending \in [action : Actions \cup {"none"}, expires : Times]
  BY <1>3 DEF NoPending
<1>5. 0 \in 0 .. MaxPerformed
  BY <1>1
<1> QED
  <2> HIDE DEF Times, NoPending
  <2>1. /\ bot \in {"off", "up"} /\ loop \in [pc : {"sleep", "cpu", "alerting", "send"}, at : 1..3]
        /\ sample = {} /\ quiet = {} /\ alerts = {}
    BY DEF WatchdogInit
  <2>5. events \in BOOLEAN
    BY Zenon DEF WatchdogInit
  <2>2. cooldown \in {Cooldowns[i] : i \in DOMAIN Cooldowns} /\ muteUntil \in Times
    BY <1>2, <1>3 DEF WatchdogInit
  <2>3. /\ lastAlert \in [Resources -> Times]
        /\ pending \in [Chats -> [action : Actions \cup {"none"}, expires : Times]]
        /\ wish \in [Chats -> [action : Actions \cup {"none"}, at : Times, live : BOOLEAN]]
    BY <1>3, <1>4 DEF WatchdogInit
  <2>4. performed \in [n : 0..MaxPerformed, chat : Chats, action : Actions]
    BY <1>5 DEF WatchdogInit, Actions
  <2> QED
    BY <1>3, <2>1, <2>2, <2>3, <2>4, <2>5 DEF WatchdogTypeOK

LEMMA WatchdogTypesStep == WatchdogTypeOK /\ [WatchdogNext]_watchdogVars => WatchdogTypeOK'
<1> SUFFICES ASSUME WatchdogTypeOK, [WatchdogNext]_watchdogVars PROVE WatchdogTypeOK'
  OBVIOUS
<1> DEFINE Loops == [pc : {"sleep", "cpu", "alerting", "send"}, at : 1..3]
           Waits == [action : Actions \cup {"none"}, expires : Times]
           Wishes == [action : Actions \cup {"none"}, at : Times, live : BOOLEAN]
           Cools == {Cooldowns[i] : i \in DOMAIN Cooldowns}
           Done == [n : 0..MaxPerformed, chat : Chats, action : Actions]
<1>0. /\ clock \in 0 .. MaxClock /\ bot \in {"off", "up"} /\ loop \in Loops
      /\ sample \in SUBSET Resources /\ quiet \in SUBSET Resources /\ cooldown \in Cools
      /\ muteUntil \in Times /\ lastAlert \in [Resources -> Times] /\ pending \in [Chats -> Waits]
      /\ alerts \in SUBSET Resources /\ events \in BOOLEAN /\ wish \in [Chats -> Wishes]
      /\ performed \in Done
  BY DEF WatchdogTypeOK
<1>00. /\ MaxClock \in Nat /\ Loads \subseteq Resources /\ 0 \in Times
       /\ clock + ConfirmTTL \in Times /\ clock + MuteTicks \in Times /\ clock \in Times
       /\ NextResource \in Loops /\ Order[loop.at] \in Resources
       /\ NoPending \in Waits /\ Cooldowns[1] \in Cools
  <2>1. MaxClock \in Nat /\ Loads \subseteq Resources
    BY WatchdogAssumption DEF Resources
  <2>2. 0 \in Times
    BY TimesAre
  <2>3. NoPending \in Waits
    BY <2>2 DEF NoPending
  <2>4. Cooldowns[1] \in Cools
    <3>1. Cooldowns \in Seq(Nat) /\ Cooldowns # <<>>
      BY WatchdogAssumption
    <3>2. DOMAIN Cooldowns = 1 .. Len(Cooldowns) /\ Len(Cooldowns) \in Nat \ {0}
      BY <3>1, LenProperties, EmptySeq
    <3> QED
      BY <3>2
  <2> QED
    BY <1>0, <2>1, <2>2, <2>3, <2>4, TimesAre, LoopGoesOn
<1> HIDE DEF Loops, Waits, Wishes, Cools, Done
<1> USE <1>0, <1>00
<1>1. SUFFICES
        /\ clock' \in 0 .. MaxClock /\ bot' \in {"off", "up"} /\ loop' \in Loops
        /\ sample' \in SUBSET Resources /\ quiet' \in SUBSET Resources /\ cooldown' \in Cools
        /\ muteUntil' \in Times /\ lastAlert' \in [Resources -> Times] /\ pending' \in [Chats -> Waits]
        /\ alerts' \in SUBSET Resources /\ events' \in BOOLEAN /\ wish' \in [Chats -> Wishes]
        /\ performed' \in Done
  BY <1>1 DEF WatchdogTypeOK, Loops, Waits, Wishes, Cools, Done
<1>2. CASE UNCHANGED watchdogVars
  BY <1>2 DEF watchdogVars, volatile, history
<1>3. CASE Tick
  <2>1. clock + 1 \in 0 .. MaxClock
    BY <1>3 DEF Tick
  <2> QED
    BY <1>3, <2>1 DEF Tick, volatile, history
<1>4. CASE StartBot
  BY <1>4 DEF StartBot, history
<1>5. CASE LoopWake \/ Measured \/ AlertSent
  <2>1. loop' \in Loops
    BY <1>5 DEF LoopWake, Measured, AlertSent, Loops
  <2>2. sample' \in SUBSET Resources
    BY <1>5 DEF LoopWake, Measured, AlertSent
  <2> QED
    BY <1>5, <2>1, <2>2 DEF LoopWake, Measured, AlertSent, history
<1>6. CASE CheckAlert
  <2>1. loop' \in Loops
    BY <1>6 DEF CheckAlert, Loops
  <2>2. lastAlert' \in [Resources -> Times] /\ alerts' \in SUBSET Resources
    BY <1>6 DEF CheckAlert
  <2> QED
    BY <1>6, <2>1, <2>2 DEF CheckAlert, history
<1>7. ASSUME NEW c \in Chats, Config(c) PROVE <1>1!1
  <2>1. quiet' \in SUBSET Resources /\ cooldown' \in Cools
    BY <1>7 DEF Config, Cools
  <2> QED
    BY <1>7, <2>1 DEF Config, AlertVars, ConfirmVars
<1>8. ASSUME NEW c \in Chats, Mute(c) \/ ReloadAgents(c) PROVE <1>1!1
  BY <1>8 DEF Mute, ReloadAgents, AlertVars, ConfirmVars
<1>9. ASSUME NEW c \in Chats, NEW a \in Actions, Request(c, a) PROVE <1>1!1
  <2>1. pending' \in [Chats -> Waits] /\ wish' \in [Chats -> Wishes]
    BY <1>9 DEF Request, Waits, Wishes
  <2> QED
    BY <1>9, <2>1 DEF Request, AlertVars
<1>10. ASSUME NEW c \in Chats, Cancel(c) PROVE <1>1!1
  <2>1. wish' \in [Chats -> Wishes]
    <3>1. [wish[c] EXCEPT !.live = FALSE] \in Wishes
      BY DEF Wishes
    <3> QED
      BY <1>10, <3>1 DEF Cancel
  <2> QED
    BY <1>10, <2>1 DEF Cancel, AlertVars
<1>11. ASSUME NEW c \in Chats, ConfirmTooLate(c) PROVE <1>1!1
  BY <1>11 DEF ConfirmTooLate, AlertVars
<1>12. ASSUME NEW c \in Chats, NEW a \in Actions, Record(c, a)
       PROVE  performed' \in Done /\ wish' \in [Chats -> Wishes]
  BY <1>12, RecordKeepsTypes DEF Done, Wishes
<1>13. ASSUME NEW c \in Chats, ConfirmClear(c) PROVE <1>1!1
  <2>1. performed' \in Done /\ wish' \in [Chats -> Wishes]
    BY <1>12, <1>13 DEF ConfirmClear, Actions
  <2> QED
    BY <1>13, <2>1 DEF ConfirmClear, AlertVars
<1>14. ASSUME NEW c \in Chats, ConfirmRestart(c) PROVE <1>1!1
  <2>1. performed' \in Done /\ wish' \in [Chats -> Wishes]
    BY <1>12, <1>14 DEF ConfirmRestart, Actions
  <2>2. /\ pending' \in [Chats -> Waits] /\ lastAlert' \in [Resources -> Times]
        /\ loop' \in Loops
    BY <1>14 DEF ConfirmRestart, Loops
  <2> QED
    BY <1>14, <2>1, <2>2 DEF ConfirmRestart
<1> QED
  BY <1>2, <1>3, <1>4, <1>5, <1>6, <1>7, <1>8, <1>9, <1>10, <1>11, <1>13, <1>14
  DEF WatchdogNext

(* Whatever is asked of the watchdog and when, its clock readings and its  *)
(* confirmations stay in their bounds, and the resource its loop looks at  *)
(* is one of check_alert's three.                                          *)
THEOREM WatchdogTypeCorrect == WatchdogSpec => []WatchdogTypeOK
BY WatchdogTypesStart, WatchdogTypesStep, PTL DEF WatchdogSpec
-----------------------------------------------------------------------------
(* The requests (RequestFlow).                                             *)

Dispatched ==
  {"local", "agent", "web", "chat", "summary", "fallback", "llm", "fallback llm"}
Places == Dispatched \cup {"idle", "hearing", "received", "opened", "stream", "speaking", "done"}
Announced == {"agent", "chat", "llm"}   \* where an agent has been selected
Over == {"speaking", "done"}            \* where the answer is there

ReqRecord ==
  [entry : {"none", "text", "stream"} \cup Spoken, pc : Places, outcome : Outcomes]
Exchanges == [req : Inputs, text : {"answer", "part", "apology"}]
Starts == {"user.message.received", "intent.detected", "agent.selected"}
Events == Starts \cup AlertTypes \cup {"agent.executed", "response.ready"}

FlowTypes ==
  /\ req \in [Inputs -> ReqRecord] /\ gauge \in Int
  /\ memory \in Seq(Exchanges) /\ unsaved \subseteq Inputs
  /\ trace \in [Inputs -> Seq(Events)] /\ repairs \in [Inputs -> Nat]

(* Where a request is tells whether it has an outcome, and how it came in. *)
Placed(r) ==
  /\ req[r].pc \notin Over <=> req[r].outcome = "none"
  /\ req[r].pc = "hearing" => req[r].entry \in Spoken
  /\ req[r].pc = "speaking" => req[r].entry = "voice"

(* What each step of a request r does to what is counted, remembered and   *)
(* told: all that the properties need to know of it.                       *)
Moves(r) ==
  /\ req' \in [Inputs -> ReqRecord]
  /\ \A d \in Inputs \ {r} : req'[d] = req[d]
  /\ req[r].pc \in Over => req'[r].pc \in Over /\ req'[r].outcome = req[r].outcome

Counts(r) == gauge' = gauge + (Counted(r)' - Counted(r))

Remembers(r) ==
  \/ /\ UNCHANGED <<memory, unsaved>>
     /\ req'[r].outcome = "answered" <=> req[r].outcome = "answered"
  \/ /\ req[r].outcome = "none" /\ req'[r].outcome = "answered"
     /\ \E text \in {"answer", "part", "apology"} : Store(r, text)

Tells(r) ==
  \/ /\ UNCHANGED <<trace, repairs>>
     /\ req'[r].pc \in Announced => req[r].pc \in Announced
     /\ req[r].pc \in Announced => req'[r].pc \in Announced \/ req'[r].outcome = "failed"
  \/ /\ req[r].pc = "received" /\ req'[r].outcome = "none" /\ repairs' = repairs
     /\ \E new \in {<<"user.message.received", "intent.detected">>,
                    <<"user.message.received", "intent.detected", "agent.selected">>} :
          /\ trace' = [trace EXCEPT ![r] = trace[r] \o new]
          /\ req'[r].pc \in Announced <=> new[Len(new)] = "agent.selected"
  \/ /\ req[r].pc \in Announced /\ req'[r].pc \in Over /\ req'[r].outcome # "failed"
     /\ \E result \in Results : PublishResult(r, result)

FlowStep(r) == Moves(r) /\ Placed(r)' /\ Counts(r) /\ Remembers(r) /\ Tells(r)

(* How often a request is counted, of where it came in and is.             *)
CountOf(entry, pc) ==
  LET depth == IF entry \in Spoken THEN 2 ELSE 1
  IN CASE pc \in {"idle", "opened", "stream", "done"} -> 0
       [] pc = "received" -> depth - 1
       [] pc \in {"hearing", "speaking"} -> 1
       [] OTHER -> depth

LEMMA CountedIs ==
  ASSUME NEW r
  PROVE  /\ Counted(r) = CountOf(req[r].entry, req[r].pc)
         /\ Counted(r)' = CountOf(req'[r].entry, req'[r].pc)
         /\ Depth(r) = IF req[r].entry \in Spoken THEN 2 ELSE 1
BY DEF Counted, CountOf, Depth

LEMMA CountOfIs ==
  ASSUME NEW entry
  PROVE  LET depth == IF entry \in Spoken THEN 2 ELSE 1
         IN /\ \A pc \in {"idle", "opened", "stream", "done"} : CountOf(entry, pc) = 0
            /\ CountOf(entry, "received") = depth - 1
            /\ \A pc \in {"hearing", "speaking"} : CountOf(entry, pc) = 1
            /\ \A pc \in Dispatched : CountOf(entry, pc) = depth
BY DEF CountOf, Dispatched

(* The ends of a request.                                                  *)
LEMMA EndMoves ==
  ASSUME FlowTypes, NEW r \in Inputs, NEW ending \in Outcomes, End(r, ending),
         ending # "none", req[r].pc \in Over => ending = req[r].outcome
  PROVE  /\ Moves(r) /\ Placed(r)' /\ Counted(r)' = 0
         /\ req'[r].pc = "done" /\ req'[r].outcome = ending
         /\ req'[r].pc \in Over /\ req'[r].pc \notin Announced
<1> DEFINE e == [req[r] EXCEPT !.pc = "done", !.outcome = ending]
<1>0. req \in [Inputs -> ReqRecord] /\ req[r] \in ReqRecord
  BY DEF FlowTypes
<1>1. req' = [req EXCEPT ![r] = e]
  BY <1>0 DEF End
<1>2. e \in ReqRecord /\ e.pc = "done" /\ e.outcome = ending
  BY <1>0 DEF ReqRecord, Places
<1>3. /\ req' \in [Inputs -> ReqRecord] /\ req'[r] = e
      /\ \A d \in Inputs \ {r} : req'[d] = req[d]
  BY <1>0, <1>1, <1>2
<1>5. req'[r].pc = "done" /\ req'[r].outcome = ending
  BY <1>2, <1>3
<1> HIDE DEF e
<1>4. Counted(r)' = 0
  <2>1. Counted(r)' = CountOf(req'[r].entry, req'[r].pc)
    BY CountedIs
  <2>2. CountOf(req'[r].entry, "done") = 0
    BY CountOfIs
  <2> QED
    BY <1>5, <2>1, <2>2
<1>6. Moves(r)
  BY <1>3, <1>5 DEF Moves, Over
<1>7. Placed(r)'
  BY <1>5 DEF Placed, Over
<1> QED
  BY <1>4, <1>5, <1>6, <1>7 DEF Over, Announced

LEMMA ReplyMoves ==
  ASSUME FlowTypes, NEW r \in Inputs, req[r].pc \in Dispatched,
         NEW ending \in {"handled", "answered"}, Reply(r, ending)
  PROVE  /\ Moves(r) /\ Placed(r)' /\ Counts(r)
         /\ req'[r].outcome = ending
         /\ req'[r].pc \in Over /\ req'[r].pc \notin Announced
<1>0. /\ req \in [Inputs -> ReqRecord] /\ req[r] \in ReqRecord /\ gauge \in Int
      /\ ending \in Outcomes /\ req[r].pc \notin Over
  BY DEF FlowTypes, Outcomes, Dispatched, Over
<1>1. Counted(r) = Depth(r)
  BY CountedIs, CountOfIs
<1>2. CASE req[r].entry = "voice"
  <2> DEFINE e == [req[r] EXCEPT !.pc = "speaking", !.outcome = ending]
  <2>1. req' = [req EXCEPT ![r] = e] /\ gauge' = gauge - 1
    BY <1>0, <1>2 DEF Reply
  <2>2. e \in ReqRecord /\ e.pc = "speaking" /\ e.outcome = ending /\ e.entry = "voice"
    BY <1>0, <1>2 DEF ReqRecord, Places
  <2>3. /\ req' \in [Inputs -> ReqRecord] /\ req'[r] = e
        /\ \A d \in Inputs \ {r} : req'[d] = req[d]
    BY <1>0, <2>1, <2>2
  <2>6. req'[r].pc = "speaking" /\ req'[r].outcome = ending /\ req'[r].entry = "voice"
    BY <2>2, <2>3
  <2> HIDE DEF e
  <2>4. Counted(r)' = 1 /\ Counted(r) = 2
    <3>1. Counted(r)' = CountOf(req'[r].entry, req'[r].pc)
      BY CountedIs
    <3>2. CountOf(req'[r].entry, "speaking") = 1
      BY CountOfIs
    <3>3. Depth(r) = 2
      BY <1>2, CountedIs DEF Spoken
    <3> QED
      BY <1>1, <2>6, <3>1, <3>2, <3>3
  <2>5. Counts(r)
    BY <1>0, <2>1, <2>4 DEF Counts
  <2>7. Moves(r) /\ Placed(r)'
    BY <1>0, <2>3, <2>6 DEF Moves, Placed, Over
  <2> QED
    BY <2>5, <2>6, <2>7 DEF Over, Announced
<1>3. CASE req[r].entry # "voice"
  <2>1. End(r, ending) /\ gauge' = gauge - Depth(r)
    BY <1>3 DEF Reply
  <2>2. /\ Moves(r) /\ Placed(r)' /\ Counted(r)' = 0
        /\ req'[r].outcome = ending
        /\ req'[r].pc \in Over /\ req'[r].pc \notin Announced
    BY <1>0, <2>1, EndMoves
  <2>3. Depth(r) \in Int
    BY CountedIs
  <2> QED
    BY <1>0, <1>1, <2>1, <2>2, <2>3 DEF Counts
<1> QED
  BY <1>2, <1>3

LEMMA RaiseMoves ==
  ASSUME FlowTypes, NEW r \in Inputs, req[r].pc \in Dispatched, Raise(r)
  PROVE  /\ Moves(r) /\ Placed(r)' /\ Counts(r)
         /\ req'[r].outcome = "failed"
         /\ req'[r].pc \in Over /\ req'[r].pc \notin Announced
<1>1. /\ End(r, "failed") /\ gauge' = gauge - Depth(r) /\ gauge \in Int
      /\ "failed" \in Outcomes /\ req[r].pc \notin Over
  BY DEF Raise, FlowTypes, Outcomes, Dispatched, Over
<1>2. Counted(r) = Depth(r) /\ Depth(r) \in Int
  BY CountedIs, CountOfIs
<1> QED
  BY <1>1, <1>2, EndMoves DEF Counts

(* A request goes on without an answer.                                    *)
LEMMA GoesOn ==
  ASSUME FlowTypes, NEW r \in Inputs, Placed(r), req[r].pc \notin Over,
         NEW e \in ReqRecord, req' = [req EXCEPT ![r] = e], e.pc \notin Over,
         e.outcome = req[r].outcome, e.pc = "hearing" => e.entry \in Spoken
  PROVE  /\ Moves(r) /\ Placed(r)' /\ req'[r] = e
         /\ Counted(r)' = CountOf(e.entry, e.pc)
<1>1. req \in [Inputs -> ReqRecord]
  BY DEF FlowTypes
<1>2. /\ req' \in [Inputs -> ReqRecord] /\ req'[r] = e
      /\ \A d \in Inputs \ {r} : req'[d] = req[d]
  BY <1>1
<1> QED
  BY <1>2, CountedIs DEF Moves, Placed, Over
(* An action that neither remembers nor tells anything.                    *)
LEMMA QuietStep ==
  ASSUME NEW r \in Inputs, Moves(r), Placed(r)', Counts(r), Forget, Quiet,
         (req'[r].outcome = "answered") <=> (req[r].outcome = "answered"),
         req'[r].pc \in Announced => req[r].pc \in Announced,
         req[r].pc \in Announced => req'[r].pc \in Announced \/ req'[r].outcome = "failed"
  PROVE  FlowStep(r)
BY DEF FlowStep, Remembers, Tells, Forget, Quiet

LEMMA ArriveStep ==
  ASSUME FlowTypes, NEW r \in Inputs, Placed(r), Arrive(r)
  PROVE  FlowStep(r)
<1>0. /\ req \in [Inputs -> ReqRecord] /\ req[r] \in ReqRecord /\ gauge \in Int
      /\ req[r].pc = "idle" /\ req[r].pc \notin Over /\ req[r].outcome = "none"
      /\ Forget /\ Quiet
  BY DEF FlowTypes, Arrive, Placed, Over
<1>1. Counted(r) = 0
  BY <1>0, CountedIs, CountOfIs
<1>2. PICK entry \in {"text", "stream"} \cup Spoken :
        /\ req' = [req EXCEPT ![r].entry = entry,
                     ![r].pc = CASE entry \in Spoken -> "hearing"
                                 [] entry = "text" -> "received"
                                 [] entry = "stream" -> "opened"]
        /\ gauge' = IF entry \in Spoken THEN gauge + 1 ELSE gauge
  BY DEF Arrive
<1>3. PICK pc \in {"hearing", "received", "opened"} :
        /\ pc = (CASE entry \in Spoken -> "hearing"
                  [] entry = "text" -> "received"
                  [] entry = "stream" -> "opened")
        /\ pc = "hearing" <=> entry \in Spoken
        /\ pc = "received" <=> entry = "text"
        /\ pc = "opened" <=> entry = "stream"
  BY DEF Spoken
<1> DEFINE e == [req[r] EXCEPT !.entry = entry, !.pc = pc]
<1>4. req' = [req EXCEPT ![r] = e]
  BY <1>0, <1>2, <1>3
<1>5. e \in ReqRecord /\ e.pc = pc /\ e.entry = entry /\ e.outcome = "none"
  BY <1>0 DEF ReqRecord, Places
<1> HIDE DEF e
<1>6. e.pc \notin Over /\ (e.pc = "hearing" => e.entry \in Spoken)
  BY <1>3, <1>5 DEF Over
<1>7. /\ Moves(r) /\ Placed(r)' /\ req'[r] = e
      /\ Counted(r)' = CountOf(entry, pc)
  BY <1>0, <1>4, <1>5, <1>6, GoesOn
<1>8. CountOf(entry, pc) = IF entry \in Spoken THEN 1 ELSE 0
  BY <1>3, CountOfIs DEF Spoken
<1>9. Counts(r)
  BY <1>0, <1>1, <1>2, <1>7, <1>8 DEF Counts
<1> QED
  BY <1>0, <1>3, <1>5, <1>7, <1>9, QuietStep DEF Announced

LEMMA HearStep ==
  ASSUME FlowTypes, NEW r \in Inputs, Placed(r), Hear(r)
  PROVE  FlowStep(r)
<1>0. /\ req \in [Inputs -> ReqRecord] /\ req[r] \in ReqRecord /\ gauge \in Int
      /\ req[r].pc = "hearing" /\ req[r].pc \notin Over /\ req[r].outcome = "none"
      /\ req[r].entry \in Spoken /\ Forget /\ Quiet
  BY DEF FlowTypes, Hear, Placed, Over
<1>1. Counted(r) = 1
  BY <1>0, CountedIs, CountOfIs
<1>2. CASE req' = [req EXCEPT ![r].pc = "received"] /\ UNCHANGED gauge
  <2> DEFINE e == [req[r] EXCEPT !.pc = "received"]
  <2>1. req' = [req EXCEPT ![r] = e]
    BY <1>0, <1>2
  <2>2. e \in ReqRecord /\ e.pc = "received" /\ e.entry = req[r].entry /\ e.outcome = "none"
    BY <1>0 DEF ReqRecord, Places
  <2> HIDE DEF e
  <2>3. e.pc \notin Over
    BY <2>2 DEF Over
  <2>4. /\ Moves(r) /\ Placed(r)' /\ req'[r] = e
        /\ Counted(r)' = CountOf(req[r].entry, "received")
    BY <1>0, <2>1, <2>2, <2>3, GoesOn
  <2>5. CountOf(req[r].entry, "received") = 1
    BY <1>0, CountOfIs
  <2>6. Counts(r)
    BY <1>0, <1>1, <1>2, <2>4, <2>5 DEF Counts
  <2> QED
    BY <1>0, <2>2, <2>4, <2>6, QuietStep DEF Announced
<1>3. CASE End(r, "failed") /\ gauge' = gauge - 1
  <2>1. "failed" \in Outcomes
    BY DEF Outcomes
  <2>2. /\ Moves(r) /\ Placed(r)' /\ Counted(r)' = 0
        /\ req'[r].outcome = "failed" /\ req'[r].pc \notin Announced
    BY <1>0, <1>3, <2>1, EndMoves
  <2>3. Counts(r)
    BY <1>0, <1>1, <1>3, <2>2 DEF Counts
  <2> QED
    BY <1>0, <2>2, <2>3, QuietStep
<1> QED
  BY <1>2, <1>3 DEF Hear

(* Once it has its answer, a spoken one is said.                           *)
LEMMA SpeakStep ==
  ASSUME FlowTypes, NEW r \in Inputs, Placed(r), Speak(r)
  PROVE  FlowStep(r)
<1>0. /\ req[r] \in ReqRecord /\ gauge \in Int /\ req[r].pc = "speaking"
      /\ End(r, req[r].outcome) /\ gauge' = gauge - 1 /\ Forget /\ Quiet
      /\ req[r].outcome # "none" /\ req[r].pc \notin Announced
  BY DEF FlowTypes, Speak, Placed, Over, Announced
<1>1. Counted(r) = 1
  BY <1>0, CountedIs, CountOfIs
<1>2. req[r].outcome \in Outcomes
  BY <1>0 DEF ReqRecord
<1>3. /\ Moves(r) /\ Placed(r)' /\ Counted(r)' = 0
      /\ req'[r].outcome = req[r].outcome /\ req'[r].pc \notin Announced
  BY <1>0, <1>2, EndMoves
<1>4. Counts(r)
  BY <1>0, <1>1, <1>3 DEF Counts
<1> QED
  BY <1>0, <1>3, <1>4, QuietStep
LEMMA PairAndOne ==
  ASSUME NEW S, NEW a \in S, NEW b \in S, NEW c \in S
  PROVE  <<a, b>> \o <<c>> = <<a, b, c>>
<1> DEFINE s == <<a, b>>
           t == <<c>>
           u == <<a, b, c>>
<1>1. s \in Seq(S) /\ t \in Seq(S) /\ u \in Seq(S)
  OBVIOUS
<1>2. Len(s) = 2 /\ Len(t) = 1 /\ Len(u) = 3
  OBVIOUS
<1>3. s[1] = a /\ s[2] = b /\ t[1] = c /\ u[1] = a /\ u[2] = b /\ u[3] = c
  OBVIOUS
<1> HIDE DEF s, t, u
<1>4. /\ s \o t \in Seq(S) /\ Len(s \o t) = 3
      /\ (s \o t)[1] = a /\ (s \o t)[2] = b /\ (s \o t)[3] = c
  <2>1. /\ s \o t \in Seq(S) /\ Len(s \o t) = Len(s) + Len(t)
        /\ \A i \in 1 .. Len(s) + Len(t) : (s \o t)[i] =
                    IF i <= Len(s) THEN s[i] ELSE t[i - Len(s)]
    BY <1>1, ConcatProperties
  <2> QED
    BY <1>2, <1>3, <2>1
<1>5. \A i \in 1 .. Len(s \o t) : (s \o t)[i] = u[i]
  BY <1>3, <1>4
<1>6. s \o t = u
  BY <1>1, <1>2, <1>4, <1>5, SeqEqual
<1> QED
  BY <1>6 DEF s, t, u

LEMMA TextInputStep ==
  ASSUME FlowTypes, NEW r \in Inputs, Placed(r), TextInput(r)
  PROVE  FlowStep(r)
<1>0. /\ req \in [Inputs -> ReqRecord] /\ req[r] \in ReqRecord /\ gauge \in Int
      /\ req[r].pc = "received" /\ req[r].pc \notin Over /\ req[r].outcome = "none"
      /\ trace \in [Inputs -> Seq(Events)] /\ trace[r] \in Seq(Events) /\ Forget
      /\ req[r].pc \notin Announced
  BY DEF FlowTypes, TextInput, Placed, Over, Announced
<1>1. /\ Counted(r) = Depth(r) - 1
      /\ Depth(r) = IF req[r].entry \in Spoken THEN 2 ELSE 1
  BY <1>0, CountedIs, CountOfIs
<1>2. PICK q \in Queries :
        IF q.command # "none" THEN TaskCommand(r, q)
        ELSE /\ req' = [req EXCEPT ![r].pc = Branch(q)]
             /\ gauge' = gauge + 1
             /\ trace' = [trace EXCEPT ![r] =
                  @ \o <<"user.message.received", "intent.detected">>
                    \o IF Branch(q) \in {"agent", "chat"} THEN <<"agent.selected">>
                       ELSE <<>>]
             /\ UNCHANGED repairs
  BY DEF TextInput
<1>3. CASE q.command = "state"
  <2>1. /\ End(r, "failed") /\ Quiet
        /\ gauge' = IF req[r].entry = "audio" \/ req'[r].outcome = "failed"
                    THEN gauge - (Depth(r) - 1) ELSE gauge
    BY <1>2, <1>3 DEF TaskCommand
  <2>2. "failed" \in Outcomes
    BY DEF Outcomes
  <2>3. /\ Moves(r) /\ Placed(r)' /\ Counted(r)' = 0
        /\ req'[r].outcome = "failed" /\ req'[r].pc \notin Announced
    BY <1>0, <2>1, <2>2, EndMoves
  <2>4. Counts(r)
    BY <1>0, <1>1, <2>1, <2>3 DEF Counts
  <2> QED
    BY <1>0, <2>1, <2>3, <2>4, QuietStep
<1>4. CASE q.command # "none" /\ q.command # "state"
  <2> DEFINE pc == IF req[r].entry = "voice" THEN "speaking" ELSE "done"
             e == [req[r] EXCEPT !.outcome = "handled", !.pc = pc]
  <2>1. /\ req' = [req EXCEPT ![r] = e] /\ Quiet
        /\ gauge' = IF req[r].entry = "audio" \/ req'[r].outcome = "failed"
                    THEN gauge - (Depth(r) - 1) ELSE gauge
    BY <1>0, <1>2, <1>4 DEF TaskCommand
  <2>2. /\ e \in ReqRecord /\ e.pc = pc /\ e.outcome = "handled"
        /\ e.entry = req[r].entry
    BY <1>0 DEF ReqRecord, Places, Outcomes
  <2> HIDE DEF e
  <2>3. /\ req' \in [Inputs -> ReqRecord] /\ req'[r] = e
        /\ \A d \in Inputs \ {r} : req'[d] = req[d]
    BY <1>0, <2>1, <2>2
  <2>4. Moves(r) /\ Placed(r)'
    BY <1>0, <2>2, <2>3 DEF Moves, Placed, Over
  <2>5. Counted(r)' = CountOf(req[r].entry, pc)
    BY <2>2, <2>3, CountedIs
  <2>6. Counts(r)
    <3>1. CASE req[r].entry = "voice"
      <4>1. CountOf(req[r].entry, "speaking") = 1
        BY CountOfIs
      <4>2. Depth(r) = 2 /\ gauge' = gauge
        BY <1>1, <2>1, <2>2, <2>3, <3>1 DEF Spoken
      <4> QED
        BY <1>0, <1>1, <2>5, <3>1, <4>1, <4>2 DEF Counts
    <3>2. CASE req[r].entry # "voice"
      <4>1. CountOf(req[r].entry, "done") = 0
        BY CountOfIs
      <4>2. CASE req[r].entry = "audio"
        <5>1. Depth(r) = 2 /\ gauge' = gauge - (Depth(r) - 1)
          BY <1>1, <2>1, <4>2 DEF Spoken
        <5> QED
          BY <1>0, <1>1, <2>5, <3>2, <4>1, <5>1 DEF Counts
      <4>3. CASE req[r].entry # "audio"
        <5>1. Depth(r) = 1 /\ gauge' = gauge
          BY <1>1, <2>1, <2>2, <2>3, <3>2, <4>3 DEF Spoken
        <5> QED
          BY <1>0, <1>1, <2>5, <3>2, <4>1, <5>1 DEF Counts
      <4> QED
        BY <4>2, <4>3
    <3> QED
      BY <3>1, <3>2
  <2>7. req'[r].outcome = "handled" /\ req'[r].pc \notin Announced
    BY <2>2, <2>3 DEF Announced
  <2> QED
    BY <1>0, <2>1, <2>4, <2>6, <2>7, QuietStep
<1>5. CASE q.command = "none"
  <2>1. /\ req' = [req EXCEPT ![r].pc = Branch(q)]
        /\ gauge' = gauge + 1
        /\ trace' = [trace EXCEPT ![r] =
             @ \o <<"user.message.received", "intent.detected">>
               \o IF Branch(q) \in {"agent", "chat"} THEN <<"agent.selected">>
                  ELSE <<>>]
        /\ UNCHANGED repairs
    BY <1>2, <1>5
  <2>2. Branch(q) \in {"web", "agent", "local", "chat"}
    BY DEF Branch
  <2> DEFINE e == [req[r] EXCEPT !.pc = Branch(q)]
  <2>3. req' = [req EXCEPT ![r] = e]
    BY <1>0, <2>1
  <2>4. /\ e \in ReqRecord /\ e.pc = Branch(q) /\ e.outcome = "none"
        /\ e.entry = req[r].entry
    BY <1>0, <2>2 DEF ReqRecord, Places, Dispatched
  <2> HIDE DEF e
  <2>5. e.pc \in Dispatched /\ e.pc \notin Over /\ e.pc # "hearing"
    BY <2>2, <2>4 DEF Dispatched, Over
  <2>6. /\ Moves(r) /\ Placed(r)' /\ req'[r] = e
        /\ Counted(r)' = CountOf(req[r].entry, e.pc)
    BY <1>0, <2>3, <2>4, <2>5, GoesOn
  <2>7. CountOf(req[r].entry, e.pc) = Depth(r)
    BY <1>1, <2>5, CountOfIs
  <2>8. Counts(r)
    BY <1>0, <1>1, <2>1, <2>6, <2>7 DEF Counts
  <2>9. Remembers(r)
    BY <1>0, <2>4, <2>6 DEF Remembers, Forget
  <2>10. Tells(r)
    <3> DEFINE first == <<"user.message.received", "intent.detected">>
    <3>1. /\ first \in Seq(Events) /\ <<"agent.selected">> \in Seq(Events)
          /\ <<>> \in Seq(Events)
      BY DEF Events, Starts
    <3>2. CASE Branch(q) \in {"agent", "chat"}
      <4> DEFINE new == <<"user.message.received", "intent.detected", "agent.selected">>
      <4>1. (trace[r] \o first) \o <<"agent.selected">>
              = trace[r] \o (first \o <<"agent.selected">>)
        BY <1>0, <3>1, ConcatAssociative
      <4>2. first \o <<"agent.selected">> = new
        <5>1. {"user.message.received", "intent.detected", "agent.selected"} \subseteq Events
          BY DEF Events, Starts
        <5> QED
          BY <5>1, PairAndOne
      <4>3. trace' = [trace EXCEPT ![r] = trace[r] \o new]
        BY <2>1, <3>2, <4>1, <4>2
      <4>4. new[Len(new)] = "agent.selected"
        OBVIOUS
      <4> HIDE DEF new
      <4>5. req'[r].pc \in Announced /\ req'[r].outcome = "none"
        BY <2>4, <2>6, <3>2 DEF Announced
      <4> QED
        BY <1>0, <2>1, <4>3, <4>4, <4>5 DEF Tells, new
    <3>3. CASE Branch(q) \notin {"agent", "chat"}
      <4>1. (trace[r] \o first) \o <<>> = trace[r] \o (first \o <<>>)
        BY <1>0, <3>1, ConcatAssociative
      <4>2. first \o <<>> = first
        OBVIOUS
      <4>3. trace' = [trace EXCEPT ![r] = trace[r] \o first]
        BY <2>1, <3>3, <4>1, <4>2
      <4>4. req'[r].pc \notin Announced /\ req'[r].outcome = "none"
            /\ first[Len(first)] # "agent.selected"
        BY <2>2, <2>4, <2>6, <3>3 DEF Announced
      <4> QED
        BY <1>0, <2>1, <4>3, <4>4 DEF Tells
    <3> QED
      BY <3>2, <3>3
  <2> QED
    BY <2>6, <2>8, <2>9, <2>10 DEF FlowStep
<1> QED
  BY <1>3, <1>4, <1>5
(* An answer: stored or not, and announced with what the agent made of it. *)
LEMMA AnswerStep ==
  ASSUME FlowTypes, NEW r \in Inputs, Placed(r), req[r].pc \in Dispatched,
         \/ Quiet /\ req[r].pc \notin Announced
         \/ req[r].pc \in Announced /\ \E result \in Results : PublishResult(r, result),
         Refuse(r) \/ (Reply(r, "answered") /\ Store(r, "answer"))
  PROVE  FlowStep(r)
<1>0. req[r].outcome = "none"
  BY DEF Placed, Over, Dispatched
<1>1. CASE Refuse(r)
  <2>1. /\ Moves(r) /\ Placed(r)' /\ Counts(r) /\ req'[r].outcome = "handled"
        /\ req'[r].pc \in Over /\ req'[r].pc \notin Announced /\ Forget
    BY <1>1, ReplyMoves DEF Refuse
  <2>2. Remembers(r)
    BY <1>0, <2>1 DEF Remembers, Forget
  <2>3. Tells(r)
    BY <2>1 DEF Tells, Quiet
  <2> QED
    BY <2>1, <2>2, <2>3 DEF FlowStep
<1>2. CASE Reply(r, "answered") /\ Store(r, "answer")
  <2>1. /\ Moves(r) /\ Placed(r)' /\ Counts(r) /\ req'[r].outcome = "answered"
        /\ req'[r].pc \in Over /\ req'[r].pc \notin Announced
    BY <1>2, ReplyMoves
  <2>2. Remembers(r)
    BY <1>0, <1>2, <2>1 DEF Remembers
  <2>3. Tells(r)
    BY <2>1 DEF Tells, Quiet
  <2> QED
    BY <2>1, <2>2, <2>3 DEF FlowStep
<1> QED
  BY <1>1, <1>2

LEMMA RaiseStep ==
  ASSUME FlowTypes, NEW r \in Inputs, Placed(r), req[r].pc \in Dispatched,
         Raise(r), Forget, Quiet
  PROVE  FlowStep(r)
<1>1. req[r].outcome = "none"
  BY DEF Placed, Over, Dispatched
<1>2. /\ Moves(r) /\ Placed(r)' /\ Counts(r) /\ req'[r].outcome = "failed"
      /\ req'[r].pc \notin Announced
  BY RaiseMoves
<1> QED
  BY <1>1, <1>2, QuietStep

(* From one place of a handler to the next.                                *)
LEMMA WithinStep ==
  ASSUME FlowTypes, NEW r \in Inputs, Placed(r), req[r].pc \in Dispatched,
         NEW pc \in Dispatched, req' = [req EXCEPT ![r].pc = pc],
         pc \in Announced <=> req[r].pc \in Announced,
         UNCHANGED gauge, Forget, Quiet
  PROVE  FlowStep(r)
<1> DEFINE e == [req[r] EXCEPT !.pc = pc]
<1>0. /\ req \in [Inputs -> ReqRecord] /\ req[r] \in ReqRecord /\ gauge \in Int
      /\ req[r].pc \notin Over /\ req[r].outcome = "none"
  BY DEF FlowTypes, Placed, Over, Dispatched
<1>1. req' = [req EXCEPT ![r] = e]
  BY <1>0
<1>2. e \in ReqRecord /\ e.pc = pc /\ e.entry = req[r].entry /\ e.outcome = "none"
  BY <1>0 DEF ReqRecord, Places
<1> HIDE DEF e
<1>3. e.pc \notin Over /\ e.pc # "hearing"
  BY <1>2 DEF Over, Dispatched
<1>4. /\ Moves(r) /\ Placed(r)' /\ req'[r] = e
      /\ Counted(r)' = CountOf(req[r].entry, pc)
  BY <1>0, <1>1, <1>2, <1>3, GoesOn
<1>5. CountOf(req[r].entry, pc) = Counted(r) /\ Counted(r) \in Int
  BY CountedIs, CountOfIs
<1>6. Counts(r)
  BY <1>0, <1>4, <1>5 DEF Counts
<1> QED
  BY <1>0, <1>2, <1>4, <1>6, QuietStep

LEMMA HandlerStep ==
  ASSUME FlowTypes, NEW r \in Inputs, Placed(r),
         RunLocal(r) \/ RunAgent(r) \/ SearchWeb(r) \/ Summarise(r) \/ Delegate(r) \/ AskLLM(r)
  PROVE  FlowStep(r)
<1>1. CASE RunLocal(r)
  <2>1. /\ req[r].pc \in Dispatched /\ req[r].pc \notin Announced
        /\ Refuse(r) \/ (Raise(r) /\ Forget)
        /\ Quiet
    BY <1>1 DEF RunLocal, Dispatched, Announced
  <2> QED
    BY <2>1, AnswerStep, RaiseStep
<1>2. CASE RunAgent(r)
  <2>1. req[r].pc \in Dispatched /\ req[r].pc \in Announced
    BY <1>2 DEF RunAgent, Dispatched, Announced
  <2> QED
    BY <1>2, <2>1, AnswerStep, RaiseStep DEF RunAgent
<1>3. CASE SearchWeb(r)
  <2>1. req[r].pc \in Dispatched /\ {"summary", "fallback"} \subseteq Dispatched
        /\ {req[r].pc, "summary", "fallback"} \cap Announced = {}
    BY <1>3 DEF SearchWeb, Dispatched, Announced
  <2> QED
    BY <1>3, <2>1, WithinStep DEF SearchWeb
<1>4. CASE Summarise(r)
  <2>1. /\ req[r].pc \in Dispatched /\ req[r].pc \notin Announced
        /\ Reply(r, "answered") /\ Store(r, "answer") /\ Quiet
    BY <1>4 DEF Summarise, Dispatched, Announced
  <2> QED
    BY <2>1, AnswerStep
<1>5. CASE Delegate(r)
  <2>1. /\ req \in [Inputs -> ReqRecord] /\ req[r] \in ReqRecord
        /\ req[r].pc \in {"chat", "fallback"} /\ req[r].pc \in Dispatched
    BY <1>5 DEF Delegate, Dispatched, FlowTypes
  <2>2. CASE /\ req' = [req EXCEPT ![r].pc = IF @ = "chat" THEN "llm" ELSE "fallback llm"]
             /\ UNCHANGED gauge /\ Forget /\ Quiet
    <3>1. CASE req[r].pc = "chat"
      <4>1. req' = [req EXCEPT ![r].pc = "llm"]
        BY <2>1, <2>2, <3>1
      <4>2. "llm" \in Dispatched /\ {"chat", "llm"} \subseteq Announced
        BY DEF Dispatched, Announced
      <4> QED
        BY <2>1, <2>2, <3>1, <4>1, <4>2, WithinStep
    <3>2. CASE req[r].pc # "chat"
      <4>1. req' = [req EXCEPT ![r].pc = "fallback llm"]
        BY <2>1, <2>2, <3>2
      <4>2. "fallback llm" \in Dispatched /\ {"fallback", "fallback llm"} \cap Announced = {}
        BY DEF Dispatched, Announced
      <4> QED
        BY <2>1, <2>2, <3>2, <4>1, <4>2, WithinStep
    <3> QED
      BY <3>1, <3>2
  <2>3. ASSUME NEW result \in Results, Announce(r, result),
               IF result.ok THEN Reply(r, "answered") /\ Store(r, "answer") ELSE Refuse(r)
        PROVE  FlowStep(r)
    <3>1. \/ Quiet /\ req[r].pc \notin Announced
          \/ req[r].pc \in Announced /\ \E x \in Results : PublishResult(r, x)
      BY <2>1, <2>3 DEF Announce, Announced
    <3>2. Refuse(r) \/ (Reply(r, "answered") /\ Store(r, "answer"))
      BY <2>3
    <3> QED
      BY <2>1, <3>1, <3>2, AnswerStep
  <2> QED
    BY <1>5, <2>2, <2>3 DEF Delegate
<1>6. CASE AskLLM(r)
  <2>1. req[r].pc \in {"llm", "fallback llm"} /\ req[r].pc \in Dispatched
    BY <1>6 DEF AskLLM, Dispatched
  <2>2. ASSUME NEW result \in Results, Announce(r, result), Reply(r, "answered"),
               Store(r, "answer")
        PROVE  FlowStep(r)
    <3>1. \/ Quiet /\ req[r].pc \notin Announced
          \/ req[r].pc \in Announced /\ \E x \in Results : PublishResult(r, x)
      BY <2>1, <2>2 DEF Announce, Announced
    <3> QED
      BY <2>1, <2>2, <3>1, AnswerStep
  <2> QED
    BY <1>6, <2>1, <2>2, RaiseStep DEF AskLLM
<1> QED
  BY <1>1, <1>2, <1>3, <1>4, <1>5, <1>6

LEMMA StreamStep ==
  ASSUME FlowTypes, NEW r \in Inputs, Placed(r), OpenStream(r) \/ Stream(r)
  PROVE  FlowStep(r)
<1>0. /\ req \in [Inputs -> ReqRecord] /\ req[r] \in ReqRecord /\ gauge \in Int
      /\ req[r].pc \in {"opened", "stream"} /\ req[r].pc \notin Over
      /\ req[r].outcome = "none" /\ UNCHANGED gauge /\ Quiet
      /\ {"handled", "answered", "failed"} \subseteq Outcomes
      /\ req[r].pc \notin Announced
  BY DEF FlowTypes, OpenStream, Stream, Placed, Over, Outcomes, Announced
<1>1. Counted(r) = 0
  BY <1>0, CountedIs, CountOfIs
<1>2. ASSUME NEW ending \in {"handled", "answered", "failed"}, End(r, ending)
      PROVE  /\ Moves(r) /\ Placed(r)' /\ Counts(r) /\ req'[r].outcome = ending
             /\ req'[r].pc \notin Announced
  <2>1. /\ Moves(r) /\ Placed(r)' /\ Counted(r)' = 0 /\ req'[r].outcome = ending
        /\ req'[r].pc \notin Announced
    BY <1>0, <1>2, EndMoves
  <2> QED
    BY <1>0, <1>1, <2>1 DEF Counts
<1>3. CASE End(r, "handled") /\ Forget
  BY <1>0, <1>2, <1>3, QuietStep
<1>4. CASE End(r, "failed") /\ Forget
  BY <1>0, <1>2, <1>4, QuietStep
<1>5. CASE End(r, "answered") /\ \E text \in {"answer", "part", "apology"} : Store(r, text)
  <2>1. /\ Moves(r) /\ Placed(r)' /\ Counts(r) /\ req'[r].outcome = "answered"
        /\ req'[r].pc \notin Announced
    BY <1>2, <1>5
  <2>2. Remembers(r)
    BY <1>0, <1>5, <2>1 DEF Remembers
  <2>3. Tells(r)
    BY <1>0, <2>1 DEF Tells, Quiet
  <2> QED
    BY <2>1, <2>2, <2>3 DEF FlowStep
<1>6. CASE /\ OpenStream(r)
           /\ req' = [req EXCEPT ![r].pc = "stream"]
  <2> DEFINE e == [req[r] EXCEPT !.pc = "stream"]
  <2>1. req' = [req EXCEPT ![r] = e]
    BY <1>0, <1>6
  <2>2. e \in ReqRecord /\ e.pc = "stream" /\ e.entry = req[r].entry /\ e.outcome = "none"
    BY <1>0 DEF ReqRecord, Places
  <2> HIDE DEF e
  <2>3. e.pc \notin Over
    BY <2>2 DEF Over
  <2>4. /\ Moves(r) /\ Placed(r)' /\ req'[r] = e
        /\ Counted(r)' = CountOf(req[r].entry, "stream")
    BY <1>0, <2>1, <2>2, <2>3, GoesOn
  <2>5. CountOf(req[r].entry, "stream") = 0
    BY CountOfIs
  <2>6. Counts(r)
    BY <1>0, <1>1, <2>4, <2>5 DEF Counts
  <2>7. Forget
    BY <1>6 DEF OpenStream
  <2> QED
    BY <1>0, <2>2, <2>4, <2>6, <2>7, QuietStep DEF Announced
<1> QED
  BY <1>3, <1>4, <1>5, <1>6 DEF OpenStream, Stream

LEMMA RequestStep ==
  ASSUME FlowTypes, \A r \in Inputs : Placed(r), RequestNext
  PROVE  \E r \in Inputs : FlowStep(r)
BY ArriveStep, HearStep, TextInputStep, HandlerStep, SpeakStep, StreamStep DEF RequestNext
-----------------------------------------------------------------------------
(* What such a step keeps.                                                 *)

LEMMA CountedFinite ==
  ASSUME FlowTypes, NEW r \in Inputs
  PROVE  Counted(r) \in {0, 1, 2}
<1>1. req[r].pc \in Places
  BY DEF FlowTypes, ReqRecord
<1>2. Counted(r) = CountOf(req[r].entry, req[r].pc)
  BY CountedIs
<1>3. CASE req[r].pc \in Dispatched
  BY <1>2, <1>3, CountOfIs
<1>4. CASE req[r].pc \in {"idle", "opened", "stream", "done"}
  BY <1>2, <1>4, CountOfIs
<1>5. CASE req[r].pc \in {"hearing", "speaking"}
  BY <1>2, <1>5, CountOfIs
<1>6. CASE req[r].pc = "received"
  BY <1>2, <1>6, CountOfIs
<1> QED
  BY <1>1, <1>3, <1>4, <1>5, <1>6 DEF Places

LEMMA CountedFiniteNext ==
  ASSUME req' \in [Inputs -> ReqRecord], NEW r \in Inputs
  PROVE  Counted(r)' \in {0, 1, 2}
<1>1. req'[r].pc \in Places
  BY DEF ReqRecord
<1>2. Counted(r)' = CountOf(req'[r].entry, req'[r].pc)
  BY CountedIs
<1>3. CASE req'[r].pc \in Dispatched
  BY <1>2, <1>3, CountOfIs
<1>4. CASE req'[r].pc \in {"idle", "opened", "stream", "done"}
  BY <1>2, <1>4, CountOfIs
<1>5. CASE req'[r].pc \in {"hearing", "speaking"}
  BY <1>2, <1>5, CountOfIs
<1>6. CASE req'[r].pc = "received"
  BY <1>2, <1>6, CountOfIs
<1> QED
  BY <1>1, <1>3, <1>4, <1>5, <1>6 DEF Places

(* The events of a result: an execution and the response it gave, each with*)
(* its alert where there is one.                                           *)
LEMMA PublishIs ==
  ASSUME NEW r \in Inputs, NEW result \in Results, PublishResult(r, result), FlowTypes
  PROVE  \E x, y \in {<<>>} \cup {<<a>> : a \in AlertTypes} :
           /\ trace' = [trace EXCEPT ![r] =
                trace[r] \o <<"agent.executed">> \o x \o <<"response.ready">> \o y]
           /\ \E m \in 0 .. Len(x \o y) : repairs' = [repairs EXCEPT ![r] = repairs[r] + m]
<1> DEFINE Said == {<<>>} \cup {<<a>> : a \in AlertTypes}
           x == Alerts("agent.executed", result)
           y == Alerts("response.ready", result)
<1>1. x \in Said /\ y \in Said
  BY DEF Alerts, AlertTypes
<1>2. /\ trace \in [Inputs -> Seq(Events)] /\ repairs \in [Inputs -> Nat]
  BY DEF FlowTypes
<1>3. /\ trace' = [trace EXCEPT ![r] =
                trace[r] \o <<"agent.executed">> \o x \o <<"response.ready">> \o y]
      /\ \E m \in 0 .. Len(x \o y) : repairs' = [repairs EXCEPT ![r] = repairs[r] + m]
  BY <1>2 DEF PublishResult, Reports
<1> HIDE DEF x, y
<1> QED
  BY <1>1, <1>3

(* The same, place by place.                                               *)
LEMMA ResultPlaces ==
  ASSUME NEW t \in Seq(Events),
         NEW x \in {<<>>} \cup {<<a>> : a \in AlertTypes},
         NEW y \in {<<>>} \cup {<<a>> : a \in AlertTypes}
  PROVE  LET u == t \o <<"agent.executed">> \o x \o <<"response.ready">> \o y
             n == Len(t)
         IN \E e, f \in {0, 1} :
              /\ u \in Seq(Events) /\ Len(u) = n + 2 + e + f /\ Len(x \o y) = e + f
              /\ \A i \in 1 .. n : u[i] = t[i]
              /\ u[n + 1] = "agent.executed" /\ u[n + 2 + e] = "response.ready"
              /\ e = 1 => u[n + 2] \in AlertTypes
              /\ f = 1 => u[n + 3 + e] \in AlertTypes
<1> DEFINE a == <<"agent.executed">>
           b == <<"response.ready">>
           t1 == t \o a
           t2 == t1 \o x
           t3 == t2 \o b
           u == t3 \o y
           n == Len(t)
<1>1. /\ a \in Seq(Events) /\ Len(a) = 1 /\ a[1] = "agent.executed"
      /\ b \in Seq(Events) /\ Len(b) = 1 /\ b[1] = "response.ready"
  BY DEF Events
<1>2. ASSUME NEW s \in {<<>>} \cup {<<c>> : c \in AlertTypes}
      PROVE  /\ s \in Seq(Events) /\ Len(s) \in {0, 1}
             /\ Len(s) = 1 => s[1] \in AlertTypes
  <2>1. CASE s = <<>>
    <3>1. <<>> \in Seq(Events) /\ Len(<<>>) = 0
      BY EmptySeq
    <3> QED
      BY <2>1, <3>1
  <2>2. CASE s \in {<<c>> : c \in AlertTypes}
    <3>1. PICK c \in AlertTypes : s = <<c>>
      BY <2>2
    <3>2. c \in Events
      BY DEF Events
    <3> QED
      BY <3>1, <3>2
  <2> QED
    BY <2>1, <2>2
<1>3. /\ x \in Seq(Events) /\ Len(x) \in {0, 1} /\ (Len(x) = 1 => x[1] \in AlertTypes)
      /\ y \in Seq(Events) /\ Len(y) \in {0, 1} /\ (Len(y) = 1 => y[1] \in AlertTypes)
  BY <1>2
<1> HIDE DEF a, b
<1>4. /\ t1 \in Seq(Events) /\ Len(t1) = n + 1
      /\ \A i \in 1 .. n + 1 : t1[i] = IF i <= n THEN t[i] ELSE a[i - n]
  BY <1>1, ConcatProperties
<1>5. n \in Nat
  BY LenProperties
<1>6. /\ \A i \in 1 .. n : t1[i] = t[i]
      /\ t1[n + 1] = "agent.executed"
  BY <1>1, <1>4, <1>5
<1> HIDE DEF t1
<1>7. /\ t2 \in Seq(Events) /\ Len(t2) = n + 1 + Len(x)
      /\ \A i \in 1 .. n + 1 + Len(x) : t2[i] = IF i <= n + 1 THEN t1[i] ELSE x[i - (n + 1)]
  <2>1. /\ t2 \in Seq(Events) /\ Len(t2) = Len(t1) + Len(x)
        /\ \A i \in 1 .. Len(t1) + Len(x) :
             t2[i] = IF i <= Len(t1) THEN t1[i] ELSE x[i - Len(t1)]
    BY <1>3, <1>4, ConcatProperties
  <2> QED
    BY <1>4, <2>1
<1>8. /\ \A i \in 1 .. n : t2[i] = t[i]
      /\ t2[n + 1] = "agent.executed"
      /\ Len(x) = 1 => t2[n + 2] \in AlertTypes
  BY <1>3, <1>5, <1>6, <1>7
<1> HIDE DEF t2
<1>9. /\ t3 \in Seq(Events) /\ Len(t3) = n + 2 + Len(x)
      /\ \A i \in 1 .. n + 2 + Len(x) :
           t3[i] = IF i <= n + 1 + Len(x) THEN t2[i] ELSE b[i - (n + 1 + Len(x))]
  <2>1. /\ t3 \in Seq(Events) /\ Len(t3) = Len(t2) + Len(b)
        /\ \A i \in 1 .. Len(t2) + Len(b) :
             t3[i] = IF i <= Len(t2) THEN t2[i] ELSE b[i - Len(t2)]
    BY <1>1, <1>7, ConcatProperties, ZenonT(40)
  <2>2. Len(t2) + Len(b) = n + 2 + Len(x)
    BY <1>1, <1>3, <1>5, <1>7
  <2> QED
    BY <1>7, <2>1, <2>2
<1>10. /\ \A i \in 1 .. n : t3[i] = t[i]
       /\ t3[n + 1] = "agent.executed" /\ t3[n + 2 + Len(x)] = "response.ready"
       /\ Len(x) = 1 => t3[n + 2] \in AlertTypes
  <2>1. \A i \in 1 .. n + 1 + Len(x) : t3[i] = t2[i]
    BY <1>3, <1>5, <1>9
  <2>2. t3[n + 2 + Len(x)] = b[1]
    <3>1. n + 2 + Len(x) \in 1 .. n + 2 + Len(x) /\ ~(n + 2 + Len(x) <= n + 1 + Len(x))
          /\ n + 2 + Len(x) - (n + 1 + Len(x)) = 1
      BY <1>3, <1>5
    <3> QED
      BY <1>9, <3>1
  <2>3. \A i \in 1 .. n + 1 : i \in 1 .. n + 1 + Len(x)
    BY <1>3, <1>5
  <2>4. Len(x) = 1 => n + 2 \in 1 .. n + 1 + Len(x)
    BY <1>5
  <2>5. n + 1 \in 1 .. n + 1 /\ \A i \in 1 .. n : i \in 1 .. n + 1
    BY <1>5
  <2> QED
    BY <1>1, <1>8, <2>1, <2>2, <2>3, <2>4, <2>5
<1> HIDE DEF t3
<1>11. /\ u \in Seq(Events) /\ Len(u) = n + 2 + Len(x) + Len(y)
       /\ \A i \in 1 .. n + 2 + Len(x) + Len(y) :
            u[i] = IF i <= n + 2 + Len(x) THEN t3[i] ELSE y[i - (n + 2 + Len(x))]
  <2>1. /\ u \in Seq(Events) /\ Len(u) = Len(t3) + Len(y)
        /\ \A i \in 1 .. Len(t3) + Len(y) :
             u[i] = IF i <= Len(t3) THEN t3[i] ELSE y[i - Len(t3)]
    <3>1. t3 \in Seq(Events) /\ y \in Seq(Events)
      BY <1>3, <1>9
    <3> QED
      BY <3>1, ConcatProperties
  <2> QED
    BY <1>9, <2>1
<1>12. /\ \A i \in 1 .. n : u[i] = t[i]
       /\ u[n + 1] = "agent.executed" /\ u[n + 2 + Len(x)] = "response.ready"
       /\ Len(x) = 1 => u[n + 2] \in AlertTypes
       /\ Len(y) = 1 => u[n + 3 + Len(x)] \in AlertTypes
  <2>1. \A i \in 1 .. n + 2 + Len(x) : u[i] = t3[i]
    BY <1>3, <1>5, <1>11
  <2>2. \A i \in 1 .. n : i \in 1 .. n + 2 + Len(x)
    BY <1>3, <1>5
  <2>3. n + 1 \in 1 .. n + 2 + Len(x) /\ n + 2 + Len(x) \in 1 .. n + 2 + Len(x)
    BY <1>3, <1>5
  <2>4. Len(x) = 1 => n + 2 \in 1 .. n + 2 + Len(x)
    BY <1>5
  <2>5. ASSUME Len(y) = 1 PROVE u[n + 3 + Len(x)] \in AlertTypes
    <3>1. /\ n + 3 + Len(x) \in 1 .. n + 2 + Len(x) + Len(y)
          /\ ~(n + 3 + Len(x) <= n + 2 + Len(x))
          /\ n + 3 + Len(x) - (n + 2 + Len(x)) = 1
      BY <1>3, <1>5, <2>5
    <3>2. u[n + 3 + Len(x)] = y[1]
      BY <1>11, <3>1
    <3> QED
      BY <1>3, <2>5, <3>2
  <2> QED
    BY <1>10, <2>1, <2>2, <2>3, <2>4, <2>5
<1>13. Len(x \o y) = Len(x) + Len(y)
  BY <1>3, ConcatProperties
<1> HIDE DEF u
<1>14. \E e, f \in {0, 1} :
              /\ u \in Seq(Events) /\ Len(u) = n + 2 + e + f /\ Len(x \o y) = e + f
              /\ \A i \in 1 .. n : u[i] = t[i]
              /\ u[n + 1] = "agent.executed" /\ u[n + 2 + e] = "response.ready"
              /\ e = 1 => u[n + 2] \in AlertTypes
              /\ f = 1 => u[n + 3 + e] \in AlertTypes
  BY <1>3, <1>11, <1>12, <1>13
<1> QED
  BY <1>14 DEF u, t3, t2, t1, a, b
LEMMA StepKeepsTypes ==
  ASSUME FlowTypes, NEW r \in Inputs, FlowStep(r)
  PROVE  FlowTypes'
<1>0. /\ req' \in [Inputs -> ReqRecord] /\ gauge \in Int /\ memory \in Seq(Exchanges)
      /\ unsaved \subseteq Inputs /\ trace \in [Inputs -> Seq(Events)]
      /\ repairs \in [Inputs -> Nat] /\ trace[r] \in Seq(Events)
  BY DEF FlowTypes, FlowStep, Moves
<1>1. gauge' \in Int
  <2>1. Counted(r) \in Int /\ Counted(r)' \in Int
    BY <1>0, CountedFinite, CountedFiniteNext
  <2> QED
    BY <1>0, <2>1 DEF FlowStep, Counts
<1>2. memory' \in Seq(Exchanges) /\ unsaved' \subseteq Inputs
  <2>1. CASE UNCHANGED <<memory, unsaved>>
    BY <1>0, <2>1
  <2>2. ASSUME NEW text \in {"answer", "part", "apology"}, Store(r, text)
        PROVE  memory' \in Seq(Exchanges) /\ unsaved' \subseteq Inputs
    <3> DEFINE e == [req |-> r, text |-> text]
    <3>1. e \in Exchanges
      BY DEF Exchanges
    <3>2. (memory' = Append(memory, e) /\ unsaved' = unsaved)
          \/ (unsaved' = unsaved \cup {r} /\ memory' = memory)
      BY <2>2 DEF Store
    <3> HIDE DEF e
    <3>3. Append(memory, e) \in Seq(Exchanges)
      BY <1>0, <3>1, AppendProperties
    <3> QED
      BY <1>0, <3>2, <3>3
  <2> QED
    BY <2>1, <2>2 DEF FlowStep, Remembers
<1>3. trace' \in [Inputs -> Seq(Events)] /\ repairs' \in [Inputs -> Nat]
  <2>1. CASE UNCHANGED <<trace, repairs>>
    BY <1>0, <2>1
  <2>2. ASSUME NEW new \in {<<"user.message.received", "intent.detected">>,
                            <<"user.message.received", "intent.detected", "agent.selected">>},
               trace' = [trace EXCEPT ![r] = trace[r] \o new], repairs' = repairs
        PROVE  trace' \in [Inputs -> Seq(Events)] /\ repairs' \in [Inputs -> Nat]
    <3>1. new \in Seq(Events)
      <4>1. /\ "user.message.received" \in Events /\ "intent.detected" \in Events
            /\ "agent.selected" \in Events
        BY DEF Events, Starts
      <4>2. CASE new = <<"user.message.received", "intent.detected">>
        BY <4>1, <4>2
      <4>3. CASE new = <<"user.message.received", "intent.detected", "agent.selected">>
        BY <4>1, <4>3
      <4> QED
        BY <2>2, <4>2, <4>3
    <3>2. trace[r] \o new \in Seq(Events)
      BY <1>0, <3>1, ConcatProperties
    <3> QED
      BY <1>0, <2>2, <3>2
  <2>3. ASSUME NEW result \in Results, PublishResult(r, result)
        PROVE  trace' \in [Inputs -> Seq(Events)] /\ repairs' \in [Inputs -> Nat]
    <3>1. PICK x, y \in {<<>>} \cup {<<a>> : a \in AlertTypes} :
            /\ trace' = [trace EXCEPT ![r] =
                 trace[r] \o <<"agent.executed">> \o x \o <<"response.ready">> \o y]
            /\ \E m \in 0 .. Len(x \o y) : repairs' = [repairs EXCEPT ![r] = repairs[r] + m]
      BY <2>3, PublishIs
    <3> DEFINE u == trace[r] \o <<"agent.executed">> \o x \o <<"response.ready">> \o y
    <3>2. u \in Seq(Events) /\ Len(x \o y) \in Nat
      BY <1>0, ResultPlaces
    <3> HIDE DEF u
    <3>3. trace' = [trace EXCEPT ![r] = u]
      BY <3>1 DEF u
    <3>4. trace' \in [Inputs -> Seq(Events)]
      BY <1>0, <3>2, <3>3
    <3> DEFINE l == Len(x \o y)
    <3>5. PICK n \in 0 .. l : repairs' = [repairs EXCEPT ![r] = repairs[r] + n]
      BY <3>1
    <3>6. n \in Nat
      BY <3>2
    <3> HIDE DEF l
    <3>7. repairs' \in [Inputs -> Nat]
      BY <1>0, <3>5, <3>6
    <3> QED
      BY <3>4, <3>7
  <2> QED
    BY <2>1, <2>2, <2>3 DEF FlowStep, Tells
<1> QED
  BY <1>0, <1>1, <1>2, <1>3 DEF FlowTypes

LEMMA StepKeepsPlaces ==
  ASSUME \A d \in Inputs : Placed(d), NEW r \in Inputs, FlowStep(r)
  PROVE  \A d \in Inputs : Placed(d)'
<1> SUFFICES ASSUME NEW d \in Inputs PROVE Placed(d)'
  OBVIOUS
<1>1. CASE d = r
  BY <1>1 DEF FlowStep
<1>2. CASE d # r
  BY <1>2 DEF FlowStep, Moves, Placed
<1> QED
  BY <1>1, <1>2

(* What is counted for one request is added to what is counted for others. *)
LEMMA CountsAdd ==
  ASSUME NEW S, IsFiniteSet(S), NEW r, \A x \in S : x[1] # r, NEW c \in {0, 1, 2}
  PROVE  LET T == S \cup {x \in {r} \X {1, 2} : x[2] <= c}
         IN IsFiniteSet(T) /\ Cardinality(T) = Cardinality(S) + c
<1> DEFINE own == {x \in {r} \X {1, 2} : x[2] <= c}
<1>0. Cardinality(S) \in Nat
  BY FS_CardinalityType
<1>1. <<r, 1>> \notin S /\ <<r, 2>> \notin S
  OBVIOUS
<1>2. CASE c = 0
  <2>1. S \cup own = S
    BY <1>2
  <2>2. Cardinality(S) = Cardinality(S) + c
    BY <1>0, <1>2
  <2> QED
    BY <2>1, <2>2
<1>3. CASE c = 1
  <2>1. own = {<<r, 1>>}
    BY <1>3
  <2> QED
    BY <1>1, <1>3, <2>1, FS_AddElement
<1>4. CASE c = 2
  <2>1. S \cup own = (S \cup {<<r, 1>>}) \cup {<<r, 2>>}
    BY <1>4
  <2>2. /\ IsFiniteSet(S \cup {<<r, 1>>})
        /\ Cardinality(S \cup {<<r, 1>>}) = Cardinality(S) + 1
    BY <1>1, FS_AddElement
  <2>3. <<r, 2>> \notin S \cup {<<r, 1>>}
    BY <1>1
  <2>4. /\ IsFiniteSet((S \cup {<<r, 1>>}) \cup {<<r, 2>>})
        /\ Cardinality((S \cup {<<r, 1>>}) \cup {<<r, 2>>}) = Cardinality(S) + 1 + 1
    BY <2>2, <2>3, FS_AddElement
  <2> QED
    BY <1>0, <1>4, <2>1, <2>4
<1> QED
  BY <1>2, <1>3, <1>4

LEMMA StepKeepsGauge ==
  ASSUME FlowTypes, GaugeSettles, NEW r \in Inputs, FlowStep(r)
  PROVE  GaugeSettles'
<1> DEFINE others == {x \in (Inputs \ {r}) \X {1, 2} : x[2] <= Counted(x[1])}
<1>0. /\ req' \in [Inputs -> ReqRecord] /\ gauge' = gauge + (Counted(r)' - Counted(r))
      /\ \A d \in Inputs \ {r} : req'[d] = req[d]
  BY DEF FlowStep, Moves, Counts
<1>1. Counted(r) \in {0, 1, 2} /\ Counted(r)' \in {0, 1, 2}
  BY <1>0, CountedFinite, CountedFiniteNext
<1>2. \A d \in Inputs \ {r} : Counted(d)' = Counted(d)
  BY <1>0, CountedIs
<1>3. InRoutes = others \cup {x \in {r} \X {1, 2} : x[2] <= Counted(r)}
  BY DEF InRoutes
<1>4. InRoutes' = others \cup {x \in {r} \X {1, 2} : x[2] <= Counted(r)'}
  <2>1. InRoutes' = {x \in Inputs \X {1, 2} : x[2] <= Counted(x[1])'}
    BY DEF InRoutes
  <2> QED
    BY <1>2, <2>1
<1>5. IsFiniteSet(others) /\ \A x \in others : x[1] # r
  <2>1. IsFiniteSet(Inputs \X {1, 2})
    <3>1. IsFiniteSet({1, 2})
      <4>1. {1, 2} = {1} \cup {2}
        OBVIOUS
      <4>2. IsFiniteSet({1})
        BY FS_Singleton
      <4>3. IsFiniteSet({1} \cup {2})
        BY <4>2, FS_AddElement
      <4> QED
        BY <4>1, <4>3
    <3> QED
      BY <3>1, InputsAssumption, FS_Product
  <2>2. others \in SUBSET (Inputs \X {1, 2})
    OBVIOUS
  <2> QED
    BY <2>1, <2>2, FS_Subset
<1> HIDE DEF others
<1>6. /\ Cardinality(InRoutes) = Cardinality(others) + Counted(r)
      /\ Cardinality(InRoutes') = Cardinality(others) + Counted(r)'
  BY <1>1, <1>3, <1>4, <1>5, CountsAdd, ZenonT(40)
<1>7. Cardinality(others) \in Nat
  BY <1>5, FS_CardinalityType
<1>8. gauge' = Cardinality(InRoutes')
  BY <1>0, <1>1, <1>6, <1>7 DEF GaugeSettles
<1> QED
  BY <1>8 DEF GaugeSettles
LEMMA StepKeepsMemory ==
  ASSUME FlowTypes, MemoryOfAnswers, NEW r \in Inputs, FlowStep(r)
  PROVE  MemoryOfAnswers'
<1> DEFINE Of(m, d) == {i \in DOMAIN m : m[i].req = d}
           Had(d) == Remembered(d) + (IF d \in unsaved THEN 1 ELSE 0)
           Due(d) == IF req[d].outcome = "answered" THEN 1 ELSE 0
<1>0. /\ req' \in [Inputs -> ReqRecord] /\ memory \in Seq(Exchanges)
      /\ \A d \in Inputs \ {r} : req'[d] = req[d]
  BY DEF FlowTypes, FlowStep, Moves
<1>1. /\ \A d \in Inputs : Remembered(d) = Cardinality(Of(memory, d))
      /\ \A d \in Inputs : Remembered(d)' = Cardinality(Of(memory', d))
  BY DEF Remembered
<1>2. ASSUME NEW d PROVE IsFiniteSet(Of(memory, d))
  <2>1. DOMAIN memory = 1 .. Len(memory) /\ Len(memory) \in Nat
    BY <1>0, LenProperties
  <2>2. IsFiniteSet(1 .. Len(memory))
    BY <2>1, FS_Interval
  <2>3. Of(memory, d) \in SUBSET (1 .. Len(memory))
    BY <2>1
  <2> QED
    BY <2>2, <2>3, FS_Subset
<1>3. \A d \in Inputs : Remembered(d) \in Nat
  BY <1>1, <1>2, FS_CardinalityType
<1>4. \A d \in Inputs : Had(d) = Due(d)
  BY DEF MemoryOfAnswers
<1> SUFFICES ASSUME NEW d \in Inputs
             PROVE  Remembered(d)' + (IF d \in unsaved' THEN 1 ELSE 0)
                      = (IF req'[d].outcome = "answered" THEN 1 ELSE 0)
  BY DEF MemoryOfAnswers
<1>5. CASE /\ UNCHANGED <<memory, unsaved>>
           /\ req'[r].outcome = "answered" <=> req[r].outcome = "answered"
  <2>1. Remembered(d)' = Remembered(d) /\ unsaved' = unsaved
    BY <1>1, <1>5, ZenonT(40)
  <2>2. req'[d].outcome = "answered" <=> req[d].outcome = "answered"
    BY <1>0, <1>5
  <2> QED
    BY <1>4, <2>1, <2>2
<1>6. ASSUME req[r].outcome = "none", req'[r].outcome = "answered",
             NEW text \in {"answer", "part", "apology"}, Store(r, text)
      PROVE  Remembered(d)' + (IF d \in unsaved' THEN 1 ELSE 0)
               = (IF req'[d].outcome = "answered" THEN 1 ELSE 0)
  <2>1. Remembered(r) = 0 /\ r \notin unsaved
    BY <1>3, <1>4, <1>6
  <2>2. CASE memory' = Append(memory, [req |-> r, text |-> text]) /\ UNCHANGED unsaved
    <3> DEFINE x == [req |-> r, text |-> text]
               n == Len(memory)
    <3>1. x \in Exchanges /\ x.req = r
      BY DEF Exchanges
    <3>2. memory' = Append(memory, x)
      BY <2>2
    <3> HIDE DEF x
    <3>3. /\ memory' \in Seq(Exchanges) /\ Len(memory') = n + 1
          /\ \A i \in 1 .. n : memory'[i] = memory[i]
          /\ memory'[n + 1] = x /\ n \in Nat
      BY <1>0, <3>1, <3>2, AppendProperties, LenProperties
    <3>4. DOMAIN memory = 1 .. n /\ DOMAIN memory' = 1 .. n + 1
      BY <1>0, <3>3, LenProperties
    <3>5. CASE d = r
      <4>1. Of(memory', r) = Of(memory, r) \cup {n + 1}
        BY <3>1, <3>3, <3>4
      <4>2. n + 1 \notin Of(memory, r)
        BY <3>3, <3>4
      <4>3. Cardinality(Of(memory', r)) = Cardinality(Of(memory, r)) + 1
        <5> DEFINE S == Of(memory, r)
        <5>1. IsFiniteSet(S) /\ n + 1 \notin S
          BY <1>2, <4>2
        <5> HIDE DEF S
        <5>2. Cardinality(S \cup {n + 1}) = Cardinality(S) + 1
          BY <5>1, FS_AddElement
        <5> QED
          BY <4>1, <5>2 DEF S
      <4> QED
        BY <1>1, <1>6, <2>1, <2>2, <3>5, <4>3
    <3>6. CASE d # r
      <4>1. Of(memory', d) = Of(memory, d)
        BY <3>1, <3>3, <3>4, <3>6
      <4> QED
        BY <1>0, <1>1, <1>4, <2>2, <3>6, <4>1
    <3> QED
      BY <3>5, <3>6
  <2>3. CASE unsaved' = unsaved \cup {r} /\ UNCHANGED memory
    <3>1. Remembered(d)' = Remembered(d)
      BY <1>1, <2>3, ZenonT(40)
    <3>2. CASE d = r
      BY <1>6, <2>1, <2>3, <3>1, <3>2
    <3>3. CASE d # r
      BY <1>0, <1>4, <2>3, <3>1, <3>3
    <3> QED
      BY <3>2, <3>3
  <2> QED
    BY <1>6, <2>2, <2>3 DEF Store
<1> QED
  BY <1>5, <1>6 DEF FlowStep, Remembers

-----------------------------------------------------------------------------
(* What has been told of a request: no result; or one, of the agent that   *)
(* was selected last, and the request is over and did not fail.  At most   *)
(* its alerts have reports.                                                *)
Started(t, reports) == (\A i \in 1 .. Len(t) : t[i] \in Starts) /\ reports = 0

ResultAt(t, reports, n, e, f) ==
  /\ Len(t) = n + 2 + e + f /\ reports \in 0 .. e + f
  /\ (\A i \in 1 .. n : t[i] \in Starts) /\ t[n] = "agent.selected"
  /\ t[n + 1] = "agent.executed" /\ t[n + 2 + e] = "response.ready"
  /\ e = 1 => t[n + 2] \in AlertTypes
  /\ f = 1 => t[n + 3 + e] \in AlertTypes

HasResult(t, reports) ==
  \E n \in Nat \ {0}, e, f \in {0, 1} : ResultAt(t, reports, n, e, f)

Selected(t) == t # <<>> /\ t[Len(t)] = "agent.selected"

Telling(r) ==
  /\ \/ Started(trace[r], repairs[r])
     \/ HasResult(trace[r], repairs[r]) /\ req[r].pc \in Over /\ req[r].outcome # "failed"
  /\ req[r].pc \in Announced => Selected(trace[r])

LEMMA StepKeepsTold ==
  ASSUME FlowTypes, \A d \in Inputs : Telling(d), NEW r \in Inputs, FlowStep(r)
  PROVE  \A d \in Inputs : Telling(d)'
<1>0. /\ trace \in [Inputs -> Seq(Events)] /\ repairs \in [Inputs -> Nat]
      /\ trace[r] \in Seq(Events) /\ Len(trace[r]) \in Nat
      /\ \A d \in Inputs \ {r} : req'[d] = req[d]
      /\ req[r].pc \in Over => req'[r].pc \in Over /\ req'[r].outcome = req[r].outcome
  BY DEF FlowTypes, FlowStep, Moves
<1>1. ASSUME NEW d \in Inputs \ {r} PROVE Telling(d)'
  <2>1. trace'[d] = trace[d] /\ repairs'[d] = repairs[d]
    <3>1. CASE UNCHANGED <<trace, repairs>>
      BY <3>1
    <3>2. ASSUME NEW new, trace' = [trace EXCEPT ![r] = trace[r] \o new], repairs' = repairs
          PROVE  trace'[d] = trace[d] /\ repairs'[d] = repairs[d]
      BY <1>0, <3>2
    <3>3. ASSUME NEW result \in Results, PublishResult(r, result)
          PROVE  trace'[d] = trace[d] /\ repairs'[d] = repairs[d]
      BY <1>0, <3>3 DEF PublishResult
    <3> QED
      BY <3>1, <3>2, <3>3 DEF FlowStep, Tells
  <2>2. req'[d] = req[d] /\ Telling(d)
    BY <1>0
  <2> QED
    BY <2>1, <2>2 DEF Telling
<1>2. CASE /\ UNCHANGED <<trace, repairs>>
           /\ req'[r].pc \in Announced => req[r].pc \in Announced
  <2>1. Telling(r) /\ trace'[r] = trace[r] /\ repairs'[r] = repairs[r]
    BY <1>2
  <2>2. Telling(r)'
    BY <1>0, <1>2, <2>1 DEF Telling
  <2> QED
    BY <1>1, <2>2
<1>3. ASSUME req[r].pc = "received", repairs' = repairs,
             NEW new \in {<<"user.message.received", "intent.detected">>,
                          <<"user.message.received", "intent.detected", "agent.selected">>},
             trace' = [trace EXCEPT ![r] = trace[r] \o new],
             req'[r].pc \in Announced => new[Len(new)] = "agent.selected"
      PROVE  Telling(r)'
  <2>1. Started(trace[r], repairs[r])
    BY <1>3 DEF Telling, Over
  <2>2. new \in Seq(Events) /\ Len(new) \in {2, 3} /\ \A i \in 1 .. Len(new) : new[i] \in Starts
    <3>1. /\ "user.message.received" \in Starts /\ "intent.detected" \in Starts
          /\ "agent.selected" \in Starts /\ Starts \subseteq Events
      BY DEF Events, Starts
    <3>2. CASE new = <<"user.message.received", "intent.detected">>
      BY <3>1, <3>2
    <3>3. CASE new = <<"user.message.received", "intent.detected", "agent.selected">>
      BY <3>1, <3>3
    <3> QED
      BY <1>3, <3>2, <3>3
  <2> DEFINE u == trace[r] \o new
             n == Len(trace[r])
  <2>3. /\ u \in Seq(Events) /\ Len(u) = n + Len(new)
        /\ \A i \in 1 .. n + Len(new) : u[i] = IF i <= n THEN trace[r][i] ELSE new[i - n]
    BY <1>0, <2>2, ConcatProperties
  <2>4. trace'[r] = u /\ repairs'[r] = repairs[r]
    BY <1>0, <1>3
  <2> HIDE DEF u
  <2>5. \A i \in 1 .. Len(u) : u[i] \in Starts
    <3> SUFFICES ASSUME NEW i \in 1 .. Len(u) PROVE u[i] \in Starts
      OBVIOUS
    <3>1. CASE i <= n
      <4>1. i \in 1 .. n /\ i \in 1 .. n + Len(new)
        BY <1>0, <2>3, <3>1
      <4>2. u[i] = trace[r][i] /\ trace[r][i] \in Starts
        BY <2>1, <2>3, <3>1, <4>1 DEF Started
      <4> QED
        BY <4>2
    <3>2. CASE ~(i <= n)
      <4>1. i - n \in 1 .. Len(new)
        BY <1>0, <2>2, <2>3, <3>2
      <4> QED
        BY <1>0, <2>2, <2>3, <3>2, <4>1
    <3> QED
      BY <3>1, <3>2
  <2>6. u # <<>> /\ u[Len(u)] = new[Len(new)]
    <3>1. Len(u) # 0 /\ Len(u) \in 1 .. n + Len(new) /\ ~(Len(u) <= n) /\ Len(u) - n = Len(new)
      <4>1. n \in Nat /\ Len(new) \in {2, 3} /\ Len(u) = n + Len(new)
        BY <1>0, <2>2, <2>3
      <4> DEFINE k == Len(new)
                 l == Len(u)
      <4>2. n \in Nat /\ k \in {2, 3} /\ l = n + k
        BY <4>1
      <4> HIDE DEF n, k, l
      <4>3. l # 0 /\ l \in 1 .. n + k /\ ~(l <= n) /\ l - n = k
        BY <4>2
      <4> QED
        BY <4>3 DEF k, l
    <3>2. u # <<>>
      BY <3>1, EmptySeq
    <3> QED
      BY <2>3, <3>1, <3>2
  <2>7. Started(u, repairs'[r])
    BY <2>1, <2>4, <2>5 DEF Started
  <2> QED
    BY <1>3, <2>4, <2>6, <2>7 DEF Telling, Selected
<1>4. ASSUME req[r].pc \in Announced, req'[r].pc \in Over, req'[r].outcome # "failed",
             NEW result \in Results, PublishResult(r, result)
      PROVE  Telling(r)'
  <2>1. /\ Started(trace[r], repairs[r]) /\ Selected(trace[r])
        /\ req'[r].pc \notin Announced
    BY <1>4 DEF Telling, Over, Announced
  <2>2. PICK x, y \in {<<>>} \cup {<<a>> : a \in AlertTypes} :
          /\ trace' = [trace EXCEPT ![r] =
               trace[r] \o <<"agent.executed">> \o x \o <<"response.ready">> \o y]
          /\ \E m \in 0 .. Len(x \o y) : repairs' = [repairs EXCEPT ![r] = repairs[r] + m]
    BY <1>4, PublishIs
  <2> DEFINE t == trace[r]
             u == t \o <<"agent.executed">> \o x \o <<"response.ready">> \o y
             n == Len(t)
  <2>3. PICK e, f \in {0, 1} :
          /\ u \in Seq(Events) /\ Len(u) = n + 2 + e + f /\ Len(x \o y) = e + f
          /\ \A i \in 1 .. n : u[i] = t[i]
          /\ u[n + 1] = "agent.executed" /\ u[n + 2 + e] = "response.ready"
          /\ e = 1 => u[n + 2] \in AlertTypes
          /\ f = 1 => u[n + 3 + e] \in AlertTypes
    BY <1>0, ResultPlaces
  <2>4. trace'[r] = u /\ repairs'[r] \in 0 .. e + f
    <3>1. trace'[r] = u
      BY <1>0, <2>2
    <3>2. \E m \in 0 .. Len(x \o y) : repairs'[r] = repairs[r] + m
      BY <1>0, <2>2
    <3>3. repairs[r] = 0
      BY <2>1 DEF Started
    <3> HIDE DEF u
    <3> QED
      BY <2>3, <3>1, <3>2, <3>3
  <2> HIDE DEF u
  <2>5. n \in Nat \ {0} /\ t[n] = "agent.selected"
    BY <1>0, <2>1, EmptySeq DEF Selected
  <2>6. (\A i \in 1 .. n : u[i] \in Starts) /\ u[n] = "agent.selected"
    BY <2>1, <2>3, <2>5, SMTT(30) DEF Started
  <2>7. ResultAt(u, repairs'[r], n, e, f)
    BY <2>3, <2>4, <2>6 DEF ResultAt
  <2>8. HasResult(u, repairs'[r])
    BY <2>5, <2>7 DEF HasResult
  <2> QED
    BY <1>4, <2>1, <2>4, <2>8 DEF Telling
<1>5. Telling(r)'
  BY <1>2, <1>3, <1>4 DEF FlowStep, Tells
<1> QED
  BY <1>1, <1>5
At(t, type) == {i \in DOMAIN t : t[i] = type}
AlertsAt(t) == {i \in DOMAIN t : t[i] \in AlertTypes}

(* A telling that has its result has it once, in order and with its alerts.*)
LEMMA ResultInOrder ==
  ASSUME NEW t \in Seq(Events), NEW reports, NEW n \in Nat \ {0},
         NEW e \in {0, 1}, NEW f \in {0, 1}, ResultAt(t, reports, n, e, f)
  PROVE  /\ At(t, "agent.executed") = {n + 1}
         /\ At(t, "response.ready") = {n + 2 + e}
         /\ \E k \in DOMAIN t : t[k] = "agent.selected" /\ k < n + 1
         /\ \A k \in (n + 1 + 1) .. (n + 2 + e - 1) : t[k] \in AlertTypes
         /\ reports <= Cardinality(AlertsAt(t))
<1>0. DOMAIN t = 1 .. n + 2 + e + f
  BY LenProperties DEF ResultAt
<1>1. /\ \A i \in 1 .. n : t[i] \in Starts
      /\ t[n] = "agent.selected" /\ t[n + 1] = "agent.executed"
      /\ t[n + 2 + e] = "response.ready" /\ reports \in 0 .. e + f
      /\ e = 1 => t[n + 2] \in AlertTypes
      /\ f = 1 => t[n + 3 + e] \in AlertTypes
  BY DEF ResultAt
<1>2. \A i \in DOMAIN t :
        \/ i \in 1 .. n \/ i = n + 1 \/ (e = 1 /\ i = n + 2)
        \/ i = n + 2 + e \/ (f = 1 /\ i = n + 3 + e)
  BY <1>0
<1>3. /\ n \in DOMAIN t /\ n + 1 \in DOMAIN t /\ n + 2 + e \in DOMAIN t
      /\ e = 1 => n + 2 \in DOMAIN t
      /\ f = 1 => n + 3 + e \in DOMAIN t
  BY <1>0
<1>4. /\ \A s \in Starts : s # "agent.executed" /\ s # "response.ready" /\ s \notin AlertTypes
      /\ \A s \in AlertTypes : s # "agent.executed" /\ s # "response.ready"
      /\ "agent.executed" \notin AlertTypes /\ "response.ready" \notin AlertTypes
  BY DEF Starts, AlertTypes
<1>5. At(t, "agent.executed") = {n + 1}
  <2>1. ASSUME NEW i \in DOMAIN t, t[i] = "agent.executed" PROVE i = n + 1
    BY <1>1, <1>2, <1>4, <2>1
  <2> QED
    BY <1>1, <1>3, <2>1 DEF At
<1>6. At(t, "response.ready") = {n + 2 + e}
  <2>1. ASSUME NEW i \in DOMAIN t, t[i] = "response.ready" PROVE i = n + 2 + e
    BY <1>1, <1>2, <1>4, <2>1
  <2> QED
    BY <1>1, <1>3, <2>1 DEF At
<1>7. \E k \in DOMAIN t : t[k] = "agent.selected" /\ k < n + 1
  BY <1>1, <1>3
<1>8. \A k \in (n + 1 + 1) .. (n + 2 + e - 1) : t[k] \in AlertTypes
  <2>1. ASSUME NEW k \in (n + 1 + 1) .. (n + 2 + e - 1) PROVE e = 1 /\ k = n + 2
    OBVIOUS
  <2> QED
    BY <1>1, <2>1
<1>9. reports <= Cardinality(AlertsAt(t))
  <2> DEFINE A == AlertsAt(t)
             S == IF e = 1 THEN {n + 2} ELSE {}
  <2>1. \A i \in A : (e = 1 /\ i = n + 2) \/ (f = 1 /\ i = n + 3 + e)
    BY <1>1, <1>2, <1>4 DEF AlertsAt
  <2>2. A = S \cup (IF f = 1 THEN {n + 3 + e} ELSE {})
    BY <1>1, <1>3, <2>1 DEF AlertsAt
  <2>3. IsFiniteSet(S) /\ Cardinality(S) = e
    BY FS_EmptySet, FS_Singleton
  <2>4. n + 3 + e \notin S
    OBVIOUS
  <2> HIDE DEF A, S
  <2>5. ASSUME f = 1 PROVE Cardinality(A) = e + f
    <3>1. A = S \cup {n + 3 + e}
      BY <2>2, <2>5
    <3>2. Cardinality(A) = e + 1
      BY <2>3, <2>4, <3>1, FS_AddElement
    <3> QED
      BY <2>5, <3>2
  <2>6. ASSUME f = 0 PROVE Cardinality(A) = e + f
    <3>1. A = S
      BY <2>2, <2>6
    <3>2. e + f = e
      BY <2>6
    <3> QED
      BY <2>3, <3>1, <3>2
  <2>7. reports <= Cardinality(A)
    BY <1>1, <2>5, <2>6
  <2> QED
    BY <2>7 DEF A
<1> QED
  BY <1>5, <1>6, <1>7, <1>8, <1>9

LEMMA ToldIsOrdered ==
  ASSUME FlowTypes, NEW r \in Inputs, Telling(r)
  PROVE  LET executed == Positions(r, "agent.executed")
             ready == Positions(r, "response.ready")
         IN /\ Cardinality(executed) = Cardinality(ready) /\ Cardinality(ready) <= 1
            /\ \A i \in executed, j \in ready :
                 /\ \E k \in Positions(r, "agent.selected") : k < i
                 /\ \A k \in (i + 1) .. (j - 1) : trace[r][k] \in AlertTypes
            /\ req[r].outcome = "failed" => executed = {}
            /\ repairs[r] <= Cardinality({i \in DOMAIN trace[r] : trace[r][i] \in AlertTypes})
<1> DEFINE t == trace[r]
           executed == At(t, "agent.executed")
           ready == At(t, "response.ready")
           alarms == AlertsAt(t)
<1>0. t \in Seq(Events) /\ DOMAIN t = 1 .. Len(t)
  BY LenProperties DEF FlowTypes
<1>1. CASE Started(t, repairs[r])
  <2>1. \A i \in DOMAIN t :
          t[i] # "agent.executed" /\ t[i] # "response.ready" /\ t[i] \notin AlertTypes
    BY <1>0, <1>1 DEF Started, Starts, AlertTypes
  <2>2. executed = {} /\ ready = {} /\ alarms = {}
    BY <2>1 DEF At, AlertsAt
  <2>3. repairs[r] = 0 /\ Cardinality({}) = 0
    BY <1>1, FS_EmptySet DEF Started
  <2>4. Cardinality(executed) = 0 /\ Cardinality(ready) = 0 /\ repairs[r] <= Cardinality(alarms)
    BY <2>2, <2>3
  <2> QED
    BY <2>2, <2>4 DEF Positions, At, AlertsAt
<1>2. CASE HasResult(t, repairs[r]) /\ req[r].outcome # "failed"
  <2>1. PICK n \in Nat \ {0}, e \in {0, 1}, f \in {0, 1} : ResultAt(t, repairs[r], n, e, f)
    BY <1>2 DEF HasResult
  <2> HIDE DEF t
  <2>2. /\ executed = {n + 1} /\ ready = {n + 2 + e}
        /\ \E k \in DOMAIN t : t[k] = "agent.selected" /\ k < n + 1
        /\ \A k \in (n + 1 + 1) .. (n + 2 + e - 1) : t[k] \in AlertTypes
        /\ repairs[r] <= Cardinality(alarms)
    <3> DEFINE reports == repairs[r]
    <3>1. ResultAt(t, reports, n, e, f) /\ t \in Seq(Events)
      BY <1>0, <2>1
    <3> HIDE DEF reports
    <3>2. /\ executed = {n + 1} /\ ready = {n + 2 + e}
          /\ \E k \in DOMAIN t : t[k] = "agent.selected" /\ k < n + 1
          /\ \A k \in (n + 1 + 1) .. (n + 2 + e - 1) : t[k] \in AlertTypes
          /\ reports <= Cardinality(alarms)
      BY <3>1, ResultInOrder
    <3> QED
      BY <3>2 DEF reports
  <2>3. Cardinality({n + 1}) = 1 /\ Cardinality({n + 2 + e}) = 1
    BY FS_Singleton
  <2>4. /\ Cardinality(executed) = 1 /\ Cardinality(ready) = 1
    BY <2>2, <2>3
  <2>5. \A i \in executed, j \in ready :
          /\ \E k \in DOMAIN t : t[k] = "agent.selected" /\ k < i
          /\ \A k \in (i + 1) .. (j - 1) : t[k] \in AlertTypes
    BY <2>2
  <2> QED
    BY <1>2, <2>2, <2>4, <2>5 DEF Positions, At, AlertsAt, t
<1> QED
  BY <1>1, <1>2 DEF Telling

-----------------------------------------------------------------------------
FlowInv ==
  /\ FlowTypes /\ MemoryOfAnswers /\ GaugeSettles
  /\ \A r \in Inputs : Placed(r) /\ Telling(r)

LEMMA FlowInit == RequestInit => FlowInv
<1> SUFFICES ASSUME RequestInit PROVE FlowInv
  OBVIOUS
<1>0. /\ req = [r \in Inputs |-> Fresh] /\ memory = <<>> /\ unsaved = {} /\ gauge = 0
      /\ trace = [r \in Inputs |-> <<>>] /\ repairs = [r \in Inputs |-> 0]
  BY DEF RequestInit
<1>1. Fresh \in ReqRecord
  BY DEF Fresh, ReqRecord, Places, Outcomes
<1>2. \A S : <<>> \in Seq(S) /\ Len(<<>>) = 0
  BY EmptySeq
<1>3. /\ req \in [Inputs -> ReqRecord] /\ trace \in [Inputs -> Seq(Events)]
      /\ repairs \in [Inputs -> Nat]
  BY <1>0, <1>1, <1>2
<1>4. FlowTypes
  BY <1>0, <1>2, <1>3 DEF FlowTypes
<1>5. \A r \in Inputs : req[r].pc = "idle" /\ req[r].outcome = "none"
  BY <1>0 DEF Fresh
<1>6. MemoryOfAnswers
  <2>1. ASSUME NEW r \in Inputs PROVE Remembered(r) = 0
    <3>1. DOMAIN memory = {}
      BY <1>0
    <3>2. {i \in DOMAIN memory : memory[i].req = r} = {}
      BY <3>1
    <3> QED
      BY <3>2, FS_EmptySet DEF Remembered
  <2> QED
    BY <1>0, <1>5, <2>1 DEF MemoryOfAnswers
<1>7. GaugeSettles
  <2>1. \A r \in Inputs : Counted(r) = 0
    BY <1>5, CountedIs, CountOfIs
  <2>2. InRoutes = {}
    BY <2>1 DEF InRoutes
  <2> QED
    BY <1>0, <2>2, FS_EmptySet DEF GaugeSettles
<1>8. ASSUME NEW r \in Inputs PROVE Placed(r) /\ Telling(r)
  <2>1. Placed(r)
    BY <1>5 DEF Placed, Over
  <2>2. Len(trace[r]) = 0 /\ repairs[r] = 0
    BY <1>0, <1>2
  <2>3. Telling(r)
    BY <1>5, <2>2 DEF Telling, Started, Announced
  <2> QED
    BY <2>1, <2>3
<1> QED
  BY <1>4, <1>6, <1>7, <1>8 DEF FlowInv

LEMMA FlowNext == FlowInv /\ [RequestNext]_requestVars => FlowInv'
<1> SUFFICES ASSUME FlowInv, [RequestNext]_requestVars PROVE FlowInv'
  OBVIOUS
<1>1. CASE UNCHANGED requestVars
  BY <1>1 DEF requestVars, FlowInv, FlowTypes, MemoryOfAnswers, Remembered, GaugeSettles,
     InRoutes, Counted, Depth, Placed, Telling
<1>2. CASE RequestNext
  <2>1. PICK r \in Inputs : FlowStep(r)
    BY <1>2, RequestStep DEF FlowInv
  <2> QED
    BY <2>1, StepKeepsTypes, StepKeepsPlaces, StepKeepsGauge, StepKeepsMemory, StepKeepsTold
       DEF FlowInv
<1> QED
  BY <1>1, <1>2

LEMMA FlowIsSafe == RequestSpec => []FlowInv
BY FlowInit, FlowNext, PTL DEF RequestSpec

(* The conversation remembers one exchange of each request that was        *)
(* answered, if SQLite stored it, and nothing of the others: no refusal,   *)
(* nothing an agent raised, no search answered twice (app.py, _store_memory*)
(* and its callers): for any number of requests and any texts.             *)
THEOREM MemoryOfAnswersCorrect == RequestSpec => []MemoryOfAnswers
<1>1. FlowInv => MemoryOfAnswers
  BY DEF FlowInv
<1> QED
  BY <1>1, FlowIsSafe, PTL

(* The gauge of requests in flight is what the routes in progress have     *)
(* counted, whichever way each of them ends (app.py, the "finally" of      *)
(* text_input and of the spoken routes): 0 when none is in progress.       *)
THEOREM GaugeSettlesCorrect == RequestSpec => []GaugeSettles
<1>1. FlowInv => GaugeSettles
  BY DEF FlowInv
<1> QED
  BY <1>1, FlowIsSafe, PTL

(* An execution is told after its agent was selected and right before its  *)
(* response, both once at most and never of a request that failed; between *)
(* them are alerts only, and no alert has more than one report (app.py,    *)
(* text_input, the analyzer its events go to and self_repair/subscriber.py,*)
(* whose reports may fail).                                                *)
THEOREM ToldInOrderCorrect == RequestSpec => []ToldInOrder
<1>1. FlowInv => ToldInOrder
  BY ToldIsOrdered DEF FlowInv, ToldInOrder
<1> QED
  BY <1>1, FlowIsSafe, PTL

(* A request keeps the way it came in and one of the four outcomes, and    *)
(* the gauge neron_requests_in_flight never falls below 0, whatever routes *)
(* raise: for any number of requests.                                      *)
THEOREM RequestTypeCorrect == RequestSpec => []RequestTypeOK
<1>1. FlowInv => RequestTypeOK
  <2> SUFFICES ASSUME FlowInv PROVE RequestTypeOK
    OBVIOUS
  <2>1. /\ req \in [Inputs -> ReqRecord] /\ unsaved \subseteq Inputs
        /\ repairs \in [Inputs -> Nat] /\ gauge = Cardinality(InRoutes)
    BY DEF FlowInv, FlowTypes, GaugeSettles
  <2>2. gauge \in Nat
    <3>1. IsFiniteSet(Inputs \X {1, 2})
      <4>1. IsFiniteSet({1}) /\ {1} \cup {2} = {1, 2}
        BY FS_Singleton
      <4>2. IsFiniteSet({1, 2})
        BY <4>1, FS_AddElement
      <4> QED
        BY <4>2, InputsAssumption, FS_Product
    <3>2. InRoutes \subseteq Inputs \X {1, 2}
      BY DEF InRoutes
    <3> QED
      BY <2>1, <3>1, <3>2, FS_Subset, FS_CardinalityType
  <2> QED
    BY <2>1, <2>2 DEF RequestTypeOK, ReqRecord
<1> QED
  BY <1>1, FlowIsSafe, PTL

-----------------------------------------------------------------------------
(* The promise of Conversation.                                            *)

Chosen(r) == At(trace[r], "agent.selected") # {}
Responded(r) == At(trace[r], "response.ready") # {}

(* As long as a request has no outcome, an agent was announced for it just *)
(* if one is at work.                                                      *)
Selecting(r) == req[r].outcome = "none" => (req[r].pc \in Announced <=> Chosen(r))

LEMMA AtConcat ==
  ASSUME NEW s \in Seq(Events), NEW t \in Seq(Events), NEW x
  PROVE  /\ s \o t \in Seq(Events)
         /\ (At(s \o t, x) # {}) <=> (At(s, x) # {} \/ At(t, x) # {})
<1> DEFINE u == s \o t
<1>1. /\ u \in Seq(Events) /\ Len(u) = Len(s) + Len(t)
      /\ \A i \in 1 .. Len(s) + Len(t) : u[i] = IF i <= Len(s) THEN s[i] ELSE t[i - Len(s)]
  BY ConcatProperties
<1>2. /\ DOMAIN s = 1 .. Len(s) /\ DOMAIN t = 1 .. Len(t) /\ DOMAIN u = 1 .. Len(u)
      /\ Len(s) \in Nat /\ Len(t) \in Nat
  BY <1>1, LenProperties
<1> HIDE DEF u
<1>3. ASSUME NEW i \in DOMAIN u, u[i] = x PROVE At(s, x) # {} \/ At(t, x) # {}
  <2>1. CASE i <= Len(s)
    <3>1. i \in DOMAIN s /\ s[i] = x
      BY <1>1, <1>2, <1>3, <2>1
    <3> QED
      BY <3>1 DEF At
  <2>2. CASE ~(i <= Len(s))
    <3>1. i - Len(s) \in DOMAIN t /\ t[i - Len(s)] = x
      BY <1>1, <1>2, <1>3, <2>2
    <3> QED
      BY <3>1 DEF At
  <2> QED
    BY <2>1, <2>2
<1>4. ASSUME NEW i \in DOMAIN s, s[i] = x PROVE At(u, x) # {}
  <2>1. i \in DOMAIN u /\ u[i] = x
    BY <1>1, <1>2, <1>4
  <2> QED
    BY <2>1 DEF At
<1>5. ASSUME NEW i \in DOMAIN t, t[i] = x PROVE At(u, x) # {}
  <2>1. /\ i + Len(s) \in 1 .. Len(s) + Len(t) /\ ~(i + Len(s) <= Len(s))
        /\ i + Len(s) - Len(s) = i
    BY <1>2, <1>5
  <2>2. i + Len(s) \in DOMAIN u /\ u[i + Len(s)] = x
    BY <1>1, <1>2, <1>5, <2>1
  <2> QED
    BY <2>2 DEF At
<1>6. /\ At(u, x) # {} => \E i \in DOMAIN u : u[i] = x
      /\ At(s, x) # {} => \E i \in DOMAIN s : s[i] = x
      /\ At(t, x) # {} => \E i \in DOMAIN t : t[i] = x
  BY DEF At
<1>7. (At(u, x) # {}) <=> (At(s, x) # {} \/ At(t, x) # {})
  BY <1>3, <1>4, <1>5, <1>6
<1> QED
  BY <1>1, <1>7 DEF u

(* What the events of a result announce.                                   *)
LEMMA ResultAnnounces ==
  ASSUME NEW t \in Seq(Events),
         NEW x \in {<<>>} \cup {<<a>> : a \in AlertTypes},
         NEW y \in {<<>>} \cup {<<a>> : a \in AlertTypes}
  PROVE  LET u == t \o <<"agent.executed">> \o x \o <<"response.ready">> \o y
         IN /\ (At(u, "agent.selected") # {}) <=> (At(t, "agent.selected") # {})
            /\ At(u, "response.ready") # {}
<1> DEFINE a == <<"agent.executed">>
           b == <<"response.ready">>
           t1 == t \o a
           t2 == t1 \o x
           t3 == t2 \o b
           u == t3 \o y
<1>1. /\ a \in Seq(Events) /\ At(a, "agent.selected") = {}
      /\ b \in Seq(Events) /\ At(b, "agent.selected") = {}
      /\ At(b, "response.ready") # {}
  <2>1. /\ a \in Seq(Events) /\ DOMAIN a = {1} /\ a[1] = "agent.executed"
        /\ b \in Seq(Events) /\ DOMAIN b = {1} /\ b[1] = "response.ready"
    BY DEF Events
  <2> HIDE DEF a, b
  <2> QED
    BY <2>1 DEF At
<1>2. ASSUME NEW s \in {<<>>} \cup {<<c>> : c \in AlertTypes}
      PROVE  s \in Seq(Events) /\ At(s, "agent.selected") = {}
  <2>1. CASE s = <<>>
    <3>1. s \in Seq(Events) /\ DOMAIN s = {}
      BY <2>1, EmptySeq
    <3> QED
      BY <3>1 DEF At
  <2>2. CASE s \in {<<c>> : c \in AlertTypes}
    <3>1. PICK c \in AlertTypes : s = <<c>>
      BY <2>2
    <3>2. c \in Events /\ c # "agent.selected"
      BY DEF Events, AlertTypes
    <3>3. s \in Seq(Events) /\ DOMAIN s = {1} /\ s[1] = c
      BY <3>1, <3>2
    <3> QED
      BY <3>2, <3>3 DEF At
  <2> QED
    BY <2>1, <2>2
<1>3. x \in Seq(Events) /\ At(x, "agent.selected") = {}
  BY <1>2
<1>4. y \in Seq(Events) /\ At(y, "agent.selected") = {}
  BY <1>2
<1> HIDE DEF a, b
<1>5. /\ t1 \in Seq(Events)
      /\ (At(t1, "agent.selected") # {}) <=> (At(t, "agent.selected") # {})
  BY <1>1, AtConcat
<1> HIDE DEF t1
<1>6. /\ t2 \in Seq(Events)
      /\ (At(t2, "agent.selected") # {}) <=> (At(t1, "agent.selected") # {})
  BY <1>3, <1>5, AtConcat
<1> HIDE DEF t2
<1>7. /\ t3 \in Seq(Events) /\ At(t3, "response.ready") # {}
      /\ (At(t3, "agent.selected") # {}) <=> (At(t2, "agent.selected") # {})
  BY <1>1, <1>6, AtConcat
<1> HIDE DEF t3
<1>8. /\ At(u, "response.ready") # {}
      /\ (At(u, "agent.selected") # {}) <=> (At(t3, "agent.selected") # {})
  BY <1>4, <1>7, AtConcat
<1> HIDE DEF u
<1>9. /\ (At(u, "agent.selected") # {}) <=> (At(t, "agent.selected") # {})
      /\ At(u, "response.ready") # {}
  BY <1>5, <1>6, <1>7, <1>8
<1> QED
  BY <1>9 DEF u, t3, t2, t1, a, b

(* What a step announces.                                                  *)
LEMMA StepAnnounces ==
  ASSUME FlowTypes, NEW r \in Inputs, FlowStep(r)
  PROVE  /\ \A d \in Inputs \ {r} : (Chosen(d)' <=> Chosen(d)) /\ (Responded(d)' <=> Responded(d))
         /\ \/ /\ Chosen(r)' <=> Chosen(r)
               /\ Responded(r)' <=> Responded(r)
               /\ req'[r].pc \in Announced => req[r].pc \in Announced
               /\ req[r].pc \in Announced => req'[r].pc \in Announced \/ req'[r].outcome = "failed"
            \/ /\ Chosen(r)' <=> Chosen(r) \/ req'[r].pc \in Announced
               /\ Responded(r)' <=> Responded(r)
               /\ req[r].pc = "received" /\ req'[r].outcome = "none"
            \/ /\ Chosen(r)' <=> Chosen(r)
               /\ Responded(r)'
               /\ req[r].pc \in Announced /\ req'[r].pc \in Over
               /\ req'[r].outcome # "failed"
<1>0. trace \in [Inputs -> Seq(Events)] /\ trace[r] \in Seq(Events)
  BY DEF FlowTypes
<1>1. CASE /\ UNCHANGED <<trace, repairs>>
           /\ req'[r].pc \in Announced => req[r].pc \in Announced
           /\ req[r].pc \in Announced => req'[r].pc \in Announced \/ req'[r].outcome = "failed"
  BY <1>1 DEF Chosen, Responded
<1>2. ASSUME req[r].pc = "received", req'[r].outcome = "none",
             NEW new \in {<<"user.message.received", "intent.detected">>,
                          <<"user.message.received", "intent.detected", "agent.selected">>},
             trace' = [trace EXCEPT ![r] = trace[r] \o new],
             req'[r].pc \in Announced <=> new[Len(new)] = "agent.selected"
      PROVE  /\ \A d \in Inputs \ {r} :
                  (Chosen(d)' <=> Chosen(d)) /\ (Responded(d)' <=> Responded(d))
             /\ Chosen(r)' <=> Chosen(r) \/ req'[r].pc \in Announced
             /\ Responded(r)' <=> Responded(r)
  <2>1. /\ new \in Seq(Events) /\ At(new, "response.ready") = {}
        /\ (At(new, "agent.selected") # {}) <=> (new[Len(new)] = "agent.selected")
    <3>1. /\ "user.message.received" \in Events /\ "intent.detected" \in Events
          /\ "agent.selected" \in Events
      BY DEF Events, Starts
    <3>2. CASE new = <<"user.message.received", "intent.detected">>
      <4>1. /\ new \in Seq(Events) /\ Len(new) = 2 /\ DOMAIN new = {1, 2}
            /\ new[1] = "user.message.received" /\ new[2] = "intent.detected"
        BY <3>1, <3>2
      <4> QED
        BY <4>1 DEF At
    <3>3. CASE new = <<"user.message.received", "intent.detected", "agent.selected">>
      <4>1. /\ new \in Seq(Events) /\ Len(new) = 3 /\ DOMAIN new = {1, 2, 3}
            /\ new[1] = "user.message.received" /\ new[2] = "intent.detected"
            /\ new[3] = "agent.selected"
        BY <3>1, <3>3
      <4> QED
        BY <4>1 DEF At
    <3> QED
      BY <1>2, <3>2, <3>3
  <2>2. trace'[r] = trace[r] \o new /\ \A d \in Inputs \ {r} : trace'[d] = trace[d]
    BY <1>0, <1>2
  <2> DEFINE u == trace[r] \o new
  <2>3. /\ (At(u, "agent.selected") # {})
             <=> (At(trace[r], "agent.selected") # {} \/ At(new, "agent.selected") # {})
        /\ (At(u, "response.ready") # {})
             <=> (At(trace[r], "response.ready") # {} \/ At(new, "response.ready") # {})
    BY <1>0, <2>1, AtConcat, Zenon
  <2> HIDE DEF u
  <2>4. trace'[r] = u
    BY <2>2 DEF u
  <2>5. /\ Chosen(r)' <=> Chosen(r) \/ req'[r].pc \in Announced
        /\ Responded(r)' <=> Responded(r)
    BY <1>2, <2>1, <2>3, <2>4, Zenon DEF Chosen, Responded
  <2> QED
    BY <2>2, <2>5 DEF Chosen, Responded
<1>3. ASSUME NEW result \in Results, PublishResult(r, result)
      PROVE  /\ \A d \in Inputs \ {r} :
                  (Chosen(d)' <=> Chosen(d)) /\ (Responded(d)' <=> Responded(d))
             /\ Chosen(r)' <=> Chosen(r)
             /\ Responded(r)'
  <2>1. PICK x, y \in {<<>>} \cup {<<a>> : a \in AlertTypes} :
          trace' = [trace EXCEPT ![r] =
            trace[r] \o <<"agent.executed">> \o x \o <<"response.ready">> \o y]
    BY <1>3, PublishIs
  <2> DEFINE u == trace[r] \o <<"agent.executed">> \o x \o <<"response.ready">> \o y
  <2>2. /\ (At(u, "agent.selected") # {}) <=> (At(trace[r], "agent.selected") # {})
        /\ At(u, "response.ready") # {}
    BY <1>0, ResultAnnounces
  <2>3. trace' = [trace EXCEPT ![r] = u]
    BY <2>1
  <2> HIDE DEF u
  <2>4. trace'[r] = u /\ \A d \in Inputs \ {r} : trace'[d] = trace[d]
    BY <1>0, <2>3
  <2> QED
    BY <2>2, <2>4 DEF Chosen, Responded
<1> QED
  BY <1>1, <1>2, <1>3 DEF FlowStep, Tells

LEMMA StepKeepsChoice ==
  ASSUME FlowTypes, \A d \in Inputs : Placed(d) /\ Selecting(d), NEW r \in Inputs, FlowStep(r)
  PROVE  \A d \in Inputs : Selecting(d)'
<1>1. /\ \A d \in Inputs \ {r} : req'[d] = req[d]
      /\ req[r].pc \in Over => req'[r].pc \in Over /\ req'[r].outcome = req[r].outcome
      /\ Placed(r)'
  BY DEF FlowStep, Moves
<1>2. ASSUME NEW d \in Inputs \ {r} PROVE Selecting(d)'
  BY <1>1, <1>2, StepAnnounces DEF Selecting
<1>3. Selecting(r)'
  <2> SUFFICES ASSUME req'[r].outcome = "none"
               PROVE  req'[r].pc \in Announced <=> Chosen(r)'
    BY DEF Selecting
  <2>1. req'[r].pc \notin Over /\ req[r].pc \notin Over /\ req[r].outcome = "none"
    BY <1>1 DEF Placed
  <2>2. req[r].pc \in Announced <=> Chosen(r)
    BY <2>1 DEF Selecting
  <2>3. req[r].pc = "received" => req[r].pc \notin Announced
    BY DEF Announced
  <2> QED
    BY <2>1, <2>2, <2>3, StepAnnounces
<1> QED
  BY <1>2, <1>3

ConversationInv ==
  FlowTypes /\ \A r \in Inputs : Placed(r) /\ Selecting(r)

LEMMA ConversationInvIsSafe == RequestSpec => []ConversationInv
<1>1. RequestInit => \A r \in Inputs : Selecting(r)
  <2> SUFFICES ASSUME RequestInit, NEW r \in Inputs PROVE Selecting(r)
    OBVIOUS
  <2>1. trace[r] = <<>> /\ req[r].pc = "idle"
    BY DEF RequestInit, Fresh
  <2>2. DOMAIN trace[r] = {}
    BY <2>1
  <2> QED
    BY <2>1, <2>2 DEF Selecting, Chosen, At, Announced
<1>2. RequestInit => ConversationInv
  BY <1>1, FlowInit DEF FlowInv, ConversationInv
<1>3. ConversationInv /\ [RequestNext]_requestVars => ConversationInv'
  <2> SUFFICES ASSUME ConversationInv, [RequestNext]_requestVars PROVE ConversationInv'
    OBVIOUS
  <2>1. CASE UNCHANGED requestVars
    BY <2>1 DEF requestVars, ConversationInv, FlowTypes, Placed, Selecting, Chosen
  <2>2. CASE RequestNext
    <3>1. PICK r \in Inputs : FlowStep(r)
      BY <2>2, RequestStep DEF ConversationInv
    <3> QED
      BY <3>1, StepKeepsTypes, StepKeepsPlaces, StepKeepsChoice DEF ConversationInv
  <2> QED
    BY <2>1, <2>2
<1> QED
  BY <1>2, <1>3, PTL DEF RequestSpec

(* The exchanges, by the request they are of.                              *)
LEMMA RemembersOne ==
  ASSUME NEW m \in Seq(Exchanges), NEW x \in Exchanges
  PROVE  LET n == Append(m, x)
         IN [i \in DOMAIN n |-> n[i].req] = Append([i \in DOMAIN m |-> m[i].req], x.req)
<1> DEFINE n == Append(m, x)
           old == [i \in DOMAIN m |-> m[i].req]
           new == [i \in DOMAIN n |-> n[i].req]
           long == Append(old, x.req)
<1>1. /\ n \in Seq(Exchanges) /\ Len(n) = Len(m) + 1
      /\ \A i \in 1 .. Len(m) : n[i] = m[i]
      /\ n[Len(m) + 1] = x
  BY AppendProperties
<1>2. /\ Len(m) \in Nat /\ DOMAIN m = 1 .. Len(m) /\ DOMAIN n = 1 .. Len(m) + 1
  BY <1>1, LenProperties
<1>3. \A e \in Exchanges : e.req \in Inputs
  BY DEF Exchanges
<1>4. \A i \in 1 .. Len(m) : m[i] \in Exchanges
  BY ElementOfSeq
<1>5. \A i \in 1 .. Len(m) + 1 : n[i] \in Exchanges
  BY <1>1, ElementOfSeq
<1> HIDE DEF n
<1>6. old \in Seq(Inputs) /\ Len(old) = Len(m) /\ \A i \in 1 .. Len(m) : old[i] = m[i].req
  <2>1. old \in [1 .. Len(m) -> Inputs]
    BY <1>2, <1>3, <1>4
  <2> QED
    BY <1>2, <2>1
<1>7. new \in Seq(Inputs) /\ Len(new) = Len(m) + 1
      /\ \A i \in 1 .. Len(m) + 1 : new[i] = n[i].req
  <2>1. new \in [1 .. Len(m) + 1 -> Inputs]
    BY <1>2, <1>3, <1>5
  <2> QED
    BY <1>2, <2>1
<1> HIDE DEF old, new
<1>8. /\ long \in Seq(Inputs) /\ Len(long) = Len(m) + 1
      /\ \A i \in 1 .. Len(m) : long[i] = old[i]
      /\ long[Len(m) + 1] = x.req
  BY <1>3, <1>6, AppendProperties
<1> HIDE DEF long
<1>9. \A i \in 1 .. Len(new) : new[i] = long[i]
  <2>1. \A i \in 1 .. Len(m) + 1 : i \in 1 .. Len(m) \/ i = Len(m) + 1
    BY <1>2
  <2> QED
    BY <1>1, <1>6, <1>7, <1>8, <2>1
<1>10. new = long
  BY <1>7, <1>8, <1>9, SeqEqual
<1> QED
  BY <1>10 DEF new, long, old, n

(* Each step of a route is a step of Conversation, or none.                *)
LEMMA ConversationStep ==
  ASSUME ConversationInv, [RequestNext]_requestVars
  PROVE  [Conversing!Next]_(Conversing!conversationVars)
<1> DEFINE out == [r \in Inputs |-> req[r].outcome]
           kept == [i \in DOMAIN memory |-> memory[i].req]
           selected == {r \in Inputs : Positions(r, "agent.selected") # {}}
           told == {r \in Inputs : Positions(r, "response.ready") # {}}
<1>0. /\ selected = {r \in Inputs : Chosen(r)} /\ selected' = {r \in Inputs : Chosen(r)'}
      /\ told = {r \in Inputs : Responded(r)} /\ told' = {r \in Inputs : Responded(r)'}
  BY DEF Positions, Chosen, Responded, At
<1>1. CASE UNCHANGED requestVars
  <2>1. /\ out' = out /\ kept' = kept /\ unsaved' = unsaved
        /\ selected' = selected /\ told' = told
    BY <1>1 DEF requestVars, Positions
  <2> QED
    BY <2>1 DEF Conversing!conversationVars
<1>2. CASE RequestNext
  <2>1. PICK r \in Inputs : FlowStep(r)
    BY <1>2, RequestStep DEF ConversationInv
  <2>2. /\ FlowTypes /\ Placed(r) /\ Placed(r)' /\ Selecting(r)
        /\ \A d \in Inputs \ {r} : req'[d] = req[d]
        /\ req[r].pc \in Over => req'[r].pc \in Over /\ req'[r].outcome = req[r].outcome
        /\ memory \in Seq(Exchanges) /\ req[r] \in ReqRecord /\ req'[r] \in ReqRecord
    BY <2>1 DEF ConversationInv, FlowStep, Moves, FlowTypes
  <2>3. out' = [out EXCEPT ![r] = req'[r].outcome]
    BY <2>2
  <2>4. ASSUME req'[r].outcome # req[r].outcome
        PROVE  IF req'[r].outcome = "answered"
               THEN \/ kept' = Append(kept, r) /\ unsaved' = unsaved
                    \/ unsaved' = unsaved \cup {r} /\ kept' = kept
               ELSE kept' = kept /\ unsaved' = unsaved
    <3>1. ASSUME req'[r].outcome # "answered"
          PROVE  kept' = kept /\ unsaved' = unsaved
      BY <2>1, <3>1 DEF FlowStep, Remembers
    <3>2. ASSUME req'[r].outcome = "answered"
          PROVE  \/ kept' = Append(kept, r) /\ unsaved' = unsaved
                 \/ unsaved' = unsaved \cup {r} /\ kept' = kept
      <4>1. PICK text \in {"answer", "part", "apology"} : Store(r, text)
        BY <2>1, <2>4, <3>2 DEF FlowStep, Remembers
      <4> DEFINE x == [req |-> r, text |-> text]
      <4>2. /\ x \in Exchanges /\ x.req = r
            /\ \/ memory' = Append(memory, x) /\ unsaved' = unsaved
               \/ unsaved' = unsaved \cup {r} /\ memory' = memory
        BY <4>1 DEF Exchanges, Store
      <4> HIDE DEF x
      <4>3. memory' = Append(memory, x) => kept' = Append(kept, r)
        BY <2>2, <4>2, RemembersOne
      <4>4. memory' = memory => kept' = kept
        OBVIOUS
      <4> QED
        BY <4>2, <4>3, <4>4, Zenon
    <3> QED
      BY <3>1, <3>2
  <2>5. req'[r].outcome = req[r].outcome => kept' = kept /\ unsaved' = unsaved
    <3>1. ASSUME req'[r].outcome = req[r].outcome PROVE UNCHANGED <<memory, unsaved>>
      BY <2>1, <3>1 DEF FlowStep, Remembers
    <3> QED
      BY <3>1
  <2>6. ASSUME req'[r].outcome # req[r].outcome
        PROVE  /\ req[r].outcome = "none" /\ req'[r].pc \in Over /\ req[r].pc \notin Over
               /\ req'[r].outcome \in {"handled", "answered", "failed"}
    BY <2>2, <2>6 DEF Placed, ReqRecord, Outcomes
  <2>7. /\ \A d \in Inputs \ {r} :
             (Chosen(d)' <=> Chosen(d)) /\ (Responded(d)' <=> Responded(d))
    BY <2>1, <2>2, StepAnnounces
  <2>8. CASE /\ Chosen(r)' <=> Chosen(r)
             /\ Responded(r)' <=> Responded(r)
             /\ req[r].pc \in Announced => req'[r].pc \in Announced \/ req'[r].outcome = "failed"
    <3>1. selected' = selected /\ told' = told
      BY <1>0, <2>7, <2>8, Zenon
    <3>2. CASE req'[r].outcome = req[r].outcome
      <4>1. out' = out
        BY <2>2, <3>2
      <4> QED
        BY <2>5, <3>1, <3>2, <4>1 DEF Conversing!conversationVars
    <3>3. CASE req'[r].outcome # req[r].outcome
      <4>1. r \notin selected \/ req'[r].outcome = "failed"
        <5>1. req'[r].pc \notin Announced
          BY <2>6, <3>3 DEF Over, Announced
        <5>2. ~Chosen(r) \/ req'[r].outcome = "failed"
          BY <2>2, <2>6, <2>8, <3>3, <5>1 DEF Selecting
        <5> QED
          BY <1>0, <5>2
      <4>2. PICK o \in {"handled", "answered", "failed"} : o = req'[r].outcome
        BY <2>6, <3>3
      <4>3. out[r] = "none"
        BY <2>6, <3>3
      <4> HIDE DEF out, kept, selected, told
      <4>4. /\ out' = [out EXCEPT ![r] = o]
            /\ IF o = "answered"
               THEN \/ kept' = Append(kept, r) /\ unsaved' = unsaved
                    \/ unsaved' = unsaved \cup {r} /\ kept' = kept
               ELSE kept' = kept /\ unsaved' = unsaved
            /\ told' = IF r \in selected /\ o # "failed" THEN told \cup {r} ELSE told
            /\ UNCHANGED selected
        BY <2>3, <2>4, <3>1, <3>3, <4>1, <4>2
      <4>5. Conversing!End(r, o)
        BY <4>3, <4>4 DEF Conversing!End, Conversing!Remember, out, kept, selected, told
      <4> QED
        BY <4>5 DEF Conversing!Next
    <3> QED
      BY <3>2, <3>3
  <2>9. CASE /\ Chosen(r)' <=> Chosen(r) \/ req'[r].pc \in Announced
             /\ Responded(r)' <=> Responded(r)
             /\ req[r].pc = "received" /\ req'[r].outcome = "none"
    <3>1. req[r].outcome = "none" /\ ~Chosen(r) /\ told' = told
      <4>1. req[r].outcome = "none"
        BY <2>2, <2>9 DEF Placed, Over
      <4>2. ~Chosen(r)
        BY <2>2, <2>9, <4>1 DEF Selecting, Announced
      <4>3. told' = told
        BY <1>0, <2>7, <2>9, Zenon
      <4> QED
        BY <4>1, <4>2, <4>3
    <3>2. out' = out /\ kept' = kept /\ unsaved' = unsaved
      BY <2>2, <2>5, <2>9, <3>1
    <3>3. CASE req'[r].pc \in Announced
      <4>1. selected' = selected \cup {r} /\ r \notin selected /\ out[r] = "none"
        <5>1. \A d \in Inputs : Chosen(d)' <=> (Chosen(d) \/ d = r)
          BY <2>7, <2>9, <3>3
        <5>2. r \notin selected /\ out[r] = "none"
          BY <1>0, <3>1
        <5>3. selected' = selected \cup {r}
          BY <1>0, <5>1, Zenon
        <5> QED
          BY <5>2, <5>3
      <4> HIDE DEF out, kept, selected, told
      <4>2. Conversing!Select(r)
        BY <3>1, <3>2, <4>1 DEF Conversing!Select, out, kept, selected, told
      <4> QED
        BY <4>2 DEF Conversing!Next
    <3>4. CASE req'[r].pc \notin Announced
      <4>1. selected' = selected
        <5>1. \A d \in Inputs : Chosen(d)' <=> Chosen(d)
          BY <2>7, <2>9, <3>4
        <5> QED
          BY <1>0, <5>1, Zenon
      <4> QED
        BY <3>1, <3>2, <4>1 DEF Conversing!conversationVars
    <3> QED
      BY <3>3, <3>4
  <2>10. CASE /\ Chosen(r)' <=> Chosen(r)
              /\ Responded(r)'
              /\ req[r].pc \in Announced /\ req'[r].pc \in Over
              /\ req'[r].outcome # "failed"
    <3>1. req'[r].outcome # req[r].outcome /\ req[r].outcome = "none"
      BY <2>2, <2>10 DEF Placed, Announced, Over
    <3>2. Chosen(r)
      BY <2>2, <2>10, <3>1 DEF Selecting
    <3>3. selected' = selected /\ r \in selected
      <4>1. \A d \in Inputs : Chosen(d)' <=> Chosen(d)
        BY <2>7, <2>10
      <4>2. selected' = selected
        BY <1>0, <4>1, Zenon
      <4> QED
        BY <1>0, <3>2, <4>2
    <3>4. told' = told \cup {r}
      <4>1. \A d \in Inputs : Responded(d)' <=> (Responded(d) \/ d = r)
        BY <2>7, <2>10
      <4> QED
        BY <1>0, <4>1, Zenon
    <3>5. PICK o \in {"handled", "answered", "failed"} : o = req'[r].outcome
      BY <2>6, <3>1
    <3>6. out[r] = "none"
      BY <3>1
    <3> HIDE DEF out, kept, selected, told
    <3>7. /\ out' = [out EXCEPT ![r] = o]
          /\ IF o = "answered"
             THEN \/ kept' = Append(kept, r) /\ unsaved' = unsaved
                  \/ unsaved' = unsaved \cup {r} /\ kept' = kept
             ELSE kept' = kept /\ unsaved' = unsaved
          /\ told' = IF r \in selected /\ o # "failed" THEN told \cup {r} ELSE told
          /\ UNCHANGED selected
      BY <2>3, <2>4, <2>10, <3>1, <3>3, <3>4, <3>5
    <3>8. Conversing!End(r, o)
      BY <3>6, <3>7 DEF Conversing!End, Conversing!Remember, out, kept, selected, told
    <3> QED
      BY <3>8 DEF Conversing!Next
  <2> QED
    BY <2>1, <2>2, <2>8, <2>9, <2>10, StepAnnounces
<1> QED
  BY <1>1, <1>2

(* The routes implement Conversation: whatever they, the agents and a      *)
(* failing SQLite make of any number of overlapping requests, each gets one*)
(* outcome for good, its answer is remembered with it once or known to be  *)
(* lost, and no agent is announced without its response, but for a failure.*)
THEOREM ConversationCorrect == RequestSpec => ImplementsConversation
<1>1. RequestInit => Conversing!Init
  <2> SUFFICES ASSUME RequestInit PROVE Conversing!Init
    OBVIOUS
  <2>1. /\ req = [r \in Inputs |-> Fresh] /\ memory = <<>> /\ unsaved = {}
        /\ trace = [r \in Inputs |-> <<>>]
    BY DEF RequestInit
  <2>2. [r \in Inputs |-> req[r].outcome] = [r \in Inputs |-> "none"]
    BY <2>1 DEF Fresh
  <2>3. [i \in DOMAIN memory |-> memory[i].req] = <<>>
    BY <2>1
  <2>4. \A r \in Inputs : \A x : Positions(r, x) = {}
    BY <2>1 DEF Positions
  <2> QED
    BY <2>1, <2>2, <2>3, <2>4 DEF Conversing!Init
<1>2. ConversationInv /\ [RequestNext]_requestVars
        => [Conversing!Next]_(Conversing!conversationVars)
  BY ConversationStep
<1> QED
  BY <1>1, <1>2, ConversationInvIsSafe, PTL
  DEF RequestSpec, Conversing!Spec, ImplementsConversation
-----------------------------------------------------------------------------
(* The settings and their log (Personality).                               *)

(* A log explains a state, and so does every part of it: the invariant     *)
(* adds that nothing logged leaves a section empty, so a table that was    *)
(* changed is never filled again.                                          *)
Books(db, from) ==
  /\ \E S : db.changes \in Seq(S)
  /\ DOMAIN db.persona = Keys
  /\ \A i \in 1 .. Len(db.changes) :
       db.changes[i].key \in Keys /\ db.changes[i].new # Absent
  /\ Explained(db, from)

(* The last entry of a section, or what there was before the log.          *)
ChangesOf(log, k, n) == {i \in 1 .. n : log[i].key = k}

LEMMA NoValueYet ==
  ASSUME NEW log, NEW from, NEW k, NEW n, ChangesOf(log, k, n) = {}
  PROVE  ValueAfter(log, from, k, n) = from[k]
BY Zenon DEF ValueAfter, ChangesOf

LEMMA ValueIs ==
  ASSUME NEW log, NEW from, NEW k, NEW n \in Nat, NEW i \in ChangesOf(log, k, n),
         \A j \in ChangesOf(log, k, n) : j <= i
  PROVE  ValueAfter(log, from, k, n) = log[i].new
<1> DEFINE at == ChangesOf(log, k, n)
<1>1. at \subseteq Nat
  BY DEF ChangesOf
<1>2. ValueAfter(log, from, k, n) = IF at = {} THEN from[k] ELSE log[Max(at)].new
  BY Zenon DEF ValueAfter, ChangesOf
<1>3. i \in at /\ \A j \in at : j <= i
  OBVIOUS
<1> HIDE DEF at
<1>4. \A j \in at : i >= j
  BY <1>1, <1>3
<1> DEFINE m == CHOOSE x \in at : \A j \in at : x >= j
<1>5. m \in at /\ \A j \in at : m >= j
  BY <1>3, <1>4
<1>6. Max(at) = m
  BY DEF Max
<1> HIDE DEF m
<1>7. m = i
  BY <1>1, <1>3, <1>4, <1>5
<1> QED
  BY <1>2, <1>3, <1>6, <1>7

(* An entry appended tells the new value of its section and of no other.   *)
LEMMA ValueOfLast ==
  ASSUME NEW m \in Nat \ {0}, NEW all, NEW from
  PROVE  ValueAfter(all, from, all[m].key, m) = all[m].new
<1> DEFINE k == all[m].key
<1>1. m \in ChangesOf(all, k, m) /\ \A j \in ChangesOf(all, k, m) : j <= m
  BY DEF ChangesOf
<1> HIDE DEF k
<1>2. ValueAfter(all, from, k, m) = all[m].new
  BY <1>1, ValueIs
<1> QED
  BY <1>2 DEF k

LEMMA ValueOfAppend ==
  ASSUME NEW l \in Nat, NEW log, NEW all, NEW from, NEW k,
         \A i \in 1 .. l : all[i] = log[i]
  PROVE  /\ \A n \in 0 .. l : ValueAfter(all, from, k, n) = ValueAfter(log, from, k, n)
         /\ all[l + 1].key # k
              => ValueAfter(all, from, k, l + 1) = ValueAfter(log, from, k, l)
<1>1. ASSUME NEW n \in 0 .. l
      PROVE  ValueAfter(all, from, k, n) = ValueAfter(log, from, k, n)
  <2>1. n \in Nat /\ ChangesOf(all, k, n) = ChangesOf(log, k, n)
    BY DEF ChangesOf
  <2>2. CASE ChangesOf(log, k, n) = {}
    BY <2>1, <2>2, NoValueYet
  <2>3. CASE ChangesOf(log, k, n) # {}
    <3>1. ChangesOf(log, k, n) \in SUBSET (1 .. n)
      BY DEF ChangesOf
    <3>2. PICK i \in ChangesOf(log, k, n) : \A j \in ChangesOf(log, k, n) : j <= i
      BY <2>1, <2>3, <3>1, GreatestOf
    <3>3. ValueAfter(log, from, k, n) = log[i].new
      BY <2>1, <3>2, ValueIs
    <3>4. i \in ChangesOf(all, k, n) /\ \A j \in ChangesOf(all, k, n) : j <= i
      BY <2>1, <3>2
    <3>5. ValueAfter(all, from, k, n) = all[i].new
      BY <2>1, <3>4, ValueIs
    <3>6. all[i] = log[i]
      BY <3>1, <3>2
    <3> QED
      BY <3>3, <3>5, <3>6
  <2> QED
    BY <2>2, <2>3
<1>2. CASE all[l + 1].key # k
  <2>1. ChangesOf(all, k, l + 1) = ChangesOf(all, k, l)
    BY <1>2 DEF ChangesOf
  <2>2. ValueAfter(all, from, k, l + 1) = ValueAfter(all, from, k, l)
    BY <2>1, Zenon DEF ValueAfter, ChangesOf
  <2>3. ValueAfter(all, from, k, l) = ValueAfter(log, from, k, l)
    BY <1>1
  <2> QED
    BY <1>1, <1>2, <2>2, <2>3
<1> QED
  BY <1>1, <1>2

LEMMA WrittenKeepsBooks ==
  ASSUME NEW db, NEW from, Books(db, from), NEW row, row.key \in Keys
  PROVE  Books(Written(db, row), from)
<1> DEFINE log == db.changes
           old == db.persona[row.key]
           new == With(old, row)
           e == [key |-> row.key, old |-> old, new |-> new]
           all == Append(log, e)
           p == [db.persona EXCEPT ![row.key] = new]
<1>1. CASE old = new
  BY <1>1 DEF Written
<1>2. CASE old # new
  <2>1. Written(db, row) = [persona |-> p, changes |-> all]
    BY <1>2 DEF Written
  <2>2. PICK S : log \in Seq(S)
    BY DEF Books
  <2>3. e.key = row.key /\ e.old = old /\ e.new = new
    OBVIOUS
  <2>4. new # Absent
    <3>1. row.field \in DOMAIN new
      BY DEF With
    <3>2. DOMAIN Absent = {}
      BY DEF Absent
    <3> HIDE DEF new
    <3> QED
      BY <3>1, <3>2
  <2>5. DOMAIN p = Keys /\ \A k \in Keys : p[k] = IF k = row.key THEN new ELSE db.persona[k]
    BY DEF Books
  <2>6. /\ \A k \in Keys : db.persona[k] = ValueAfter(log, from, k, Len(log))
        /\ \A i \in 1 .. Len(log) : /\ log[i].key \in Keys /\ log[i].new # Absent
                                    /\ log[i].old = ValueAfter(log, from, log[i].key, i - 1)
                                    /\ log[i].old # log[i].new
    <3>1. DOMAIN log = 1 .. Len(log)
      BY <2>2, LenProperties
    <3> QED
      BY <3>1 DEF Books, Explained
  <2> HIDE DEF log, old, new, e, p
  <2>7. /\ Len(log) \in Nat /\ all \in Seq(S \cup {e}) /\ Len(all) = Len(log) + 1
        /\ DOMAIN all = 1 .. Len(log) + 1
        /\ all[Len(log) + 1] = e
        /\ \A i \in 1 .. Len(log) : all[i] = log[i]
    <3>1. log \in Seq(S \cup {e}) /\ e \in S \cup {e}
      BY <2>2, SeqMonotonic
    <3> QED
      BY <2>2, <3>1, LenProperties, AppendProperties
  <2> HIDE DEF all
  <2>9. \A k : /\ \A n \in 0 .. Len(log) :
                    ValueAfter(all, from, k, n) = ValueAfter(log, from, k, n)
               /\ ValueAfter(all, from, k, Len(log) + 1)
                    = IF e.key = k THEN e.new ELSE ValueAfter(log, from, k, Len(log))
    <3> TAKE k
    <3> DEFINE l == Len(log)
    <3>0. l \in Nat /\ \A i \in 1 .. l : all[i] = log[i]
      BY <2>7
    <3>4. all[l + 1] = e
      BY <2>7
    <3> HIDE DEF l
    <3>1. \A n \in 0 .. l :
            ValueAfter(all, from, k, n) = ValueAfter(log, from, k, n)
      BY <3>0, ValueOfAppend
    <3>2. ValueAfter(all, from, all[l + 1].key, l + 1) = all[l + 1].new
      <4>1. l + 1 \in Nat \ {0}
        BY <3>0
      <4> QED
        BY <4>1, ValueOfLast
    <3>3. all[l + 1].key # k
            => ValueAfter(all, from, k, l + 1) = ValueAfter(log, from, k, l)
      BY <3>0, ValueOfAppend
    <3> QED
      BY <3>0, <3>1, <3>2, <3>3, <3>4 DEF l
  <2>10. ASSUME NEW k \in Keys
         PROVE  p[k] = ValueAfter(all, from, k, Len(log) + 1)
    BY <2>3, <2>5, <2>6, <2>9
  <2>11. ASSUME NEW i \in 1 .. Len(log) + 1
         PROVE  /\ all[i].key \in Keys /\ all[i].new # Absent
                /\ all[i].old = ValueAfter(all, from, all[i].key, i - 1)
                /\ all[i].old # all[i].new
    <3>1. CASE i \in 1 .. Len(log)
      <4>1. i - 1 \in 0 .. Len(log) /\ all[i] = log[i]
        BY <2>7, <3>1
      <4>2. ValueAfter(all, from, log[i].key, i - 1) = ValueAfter(log, from, log[i].key, i - 1)
        BY <2>9, <4>1
      <4> QED
        BY <2>6, <3>1, <4>1, <4>2
    <3>2. CASE i = Len(log) + 1
      <4>1. all[i] = e /\ i - 1 = Len(log) /\ i - 1 \in 0 .. Len(log)
        BY <2>7, <3>2
      <4>2. ValueAfter(all, from, row.key, i - 1) = ValueAfter(log, from, row.key, Len(log))
        BY <2>9, <4>1
      <4>3. old = ValueAfter(log, from, row.key, Len(log))
        BY <2>6 DEF old
      <4> QED
        BY <1>2, <2>3, <2>4, <4>1, <4>2, <4>3
    <3> QED
      BY <2>7, <3>1, <3>2
  <2> DEFINE d == [persona |-> p, changes |-> all]
  <2>12. d.persona = p /\ d.changes = all /\ Written(db, row) = d
    BY <2>1
  <2> HIDE DEF d
  <2>13. Explained(d, from)
    BY <2>7, <2>10, <2>11, <2>12 DEF Explained
  <2>14. \E X : d.changes \in Seq(X)
    BY <2>7, <2>12
  <2> QED
    BY <2>5, <2>7, <2>11, <2>12, <2>13, <2>14 DEF Books
<1> QED
  BY <1>1, <1>2

-----------------------------------------------------------------------------
(* The rows of a remark, one after the other.                              *)
Writing(g, before, rows, m) ==
  g = [k \in 0 .. m |-> IF k = 0 THEN before ELSE Written(g[k - 1], rows[k])]

LEMMA WritingExists ==
  ASSUME NEW before, NEW rows
  PROVE  \A m \in Nat : \E g : Writing(g, before, rows, m)
<1> DEFINE T == {m \in Nat : \E g : Writing(g, before, rows, m)}
<1>1. 0 \in T
  <2> DEFINE g == [k \in 0 .. 0 |-> before]
  <2>1. Writing(g, before, rows, 0)
    BY DEF Writing
  <2> QED
    BY <2>1
<1>2. ASSUME NEW m \in Nat, m \in T PROVE m + 1 \in T
  <2>1. PICK g : Writing(g, before, rows, m)
    BY <1>2
  <2> DEFINE h == [k \in 0 .. (m + 1) |->
                     IF k <= m THEN g[k] ELSE Written(g[m], rows[m + 1])]
             f == [k \in 0 .. (m + 1) |->
                     IF k = 0 THEN before ELSE Written(h[k - 1], rows[k])]
  <2>2. \A k \in 0 .. m : g[k] = IF k = 0 THEN before ELSE Written(g[k - 1], rows[k])
    <3> DEFINE e(k) == IF k = 0 THEN before ELSE Written(g[k - 1], rows[k])
    <3>1. g = [k \in 0 .. m |-> e(k)]
      BY <2>1 DEF Writing
    <3> HIDE DEF e
    <3>2. \A k \in 0 .. m : g[k] = e(k)
      BY <3>1
    <3> QED
      BY <3>2 DEF e
  <2>3. ASSUME NEW k \in 0 .. (m + 1) PROVE h[k] = f[k]
    <3>1. CASE k = 0
      BY <2>2, <3>1
    <3>2. CASE k \in 1 .. m
      <4>1. h[k] = g[k] /\ k \in 0 .. m /\ k # 0 /\ k - 1 \in 0 .. (m + 1) /\ k - 1 <= m
        BY <3>2
      <4>2. h[k - 1] = g[k - 1]
        BY <4>1
      <4>3. f[k] = Written(h[k - 1], rows[k])
        BY <4>1
      <4> HIDE DEF h, f
      <4> QED
        BY <2>2, <4>1, <4>2, <4>3
    <3>3. CASE k = m + 1
      <4>1. h[k] = Written(g[m], rows[m + 1])
        BY <3>3
      <4>2. h[m] = g[m] /\ k - 1 = m /\ k # 0
        BY <3>3
      <4>3. f[k] = Written(h[k - 1], rows[k])
        BY <4>2
      <4> HIDE DEF h, f
      <4> QED
        BY <3>3, <4>1, <4>2, <4>3
    <3> QED
      BY <3>1, <3>2, <3>3
  <2>4. h = f
    BY <2>3
  <2>5. Writing(h, before, rows, m + 1)
    BY <2>4 DEF Writing
  <2> QED
    BY <2>5
<1> HIDE DEF T
<1>3. \A m \in Nat : m \in T
  BY <1>1, <1>2, Induction
<1> QED
  BY <1>3 DEF T

LEMMA RowsKeepBooks ==
  ASSUME NEW before, NEW from, Books(before, from), NEW rows, NEW n \in Nat,
         \A i \in 1 .. n : rows[i].key \in Keys
  PROVE  Books(AfterRows(before, rows, n), from)
<1> DEFINE f == CHOOSE g : Writing(g, before, rows, n)
<1>1. AfterRows(before, rows, n) = f[n]
  BY DEF AfterRows, Writing
<1>2. Writing(f, before, rows, n)
  BY WritingExists
<1> HIDE DEF f
<1>3. \A k \in 0 .. n : f[k] = IF k = 0 THEN before ELSE Written(f[k - 1], rows[k])
  <2> DEFINE e(k) == IF k = 0 THEN before ELSE Written(f[k - 1], rows[k])
  <2>1. f = [k \in 0 .. n |-> e(k)]
    BY <1>2, Zenon DEF Writing
  <2> HIDE DEF e
  <2>2. \A k \in 0 .. n : f[k] = e(k)
    BY <2>1
  <2> QED
    BY <2>2 DEF e
<1> DEFINE T == {k \in Nat : k <= n => Books(f[k], from)}
<1>4. 0 \in T
  BY <1>3
<1>5. ASSUME NEW k \in Nat, k \in T PROVE k + 1 \in T
  <2>1. SUFFICES ASSUME k + 1 <= n PROVE Books(f[k + 1], from)
    OBVIOUS
  <2>2. Books(f[k], from)
    BY <1>5, <2>1
  <2>3. k + 1 \in 0 .. n /\ k + 1 \in 1 .. n /\ k + 1 # 0 /\ (k + 1) - 1 = k
    BY <2>1
  <2>4. f[k + 1] = Written(f[k], rows[k + 1])
    BY <1>3, <2>3
  <2>5. rows[k + 1].key \in Keys
    BY <2>3
  <2> QED
    BY <2>2, <2>4, <2>5, WrittenKeepsBooks
<1> HIDE DEF T
<1>6. n \in T
  BY <1>4, <1>5, Induction
<1> QED
  BY <1>1, <1>6 DEF T

-----------------------------------------------------------------------------
Db == [persona |-> persona, changes |-> changes]

PersonaInv == Books(Db, seeded) /\ PersonaTypeOK

LEMMA PersonaInvInit == PersonaInit => PersonaInv
<1> SUFFICES ASSUME PersonaInit PROVE PersonaInv
  OBVIOUS
<1>1. /\ persona = NoRows /\ seeded = NoRows /\ changes = <<>> /\ outcome = "none"
      /\ DOMAIN NoRows = Keys
  BY DEF PersonaInit, NoRows
<1>2. Db.persona = NoRows /\ Db.changes = <<>> /\ Len(Db.changes) = 0
  BY <1>1 DEF Db
<1>3. \A k : ValueAfter(<<>>, seeded, k, 0) = seeded[k]
  <2>1. \A k : ChangesOf(<<>>, k, 0) = {}
    BY DEF ChangesOf
  <2> QED
    BY <2>1, NoValueYet
<1>4. Explained(Db, seeded)
  BY <1>1, <1>2, <1>3 DEF Explained
<1>5. \E S : Db.changes \in Seq(S)
  BY <1>2, EmptySeq
<1> QED
  BY <1>1, <1>2, <1>4, <1>5, PersonaAssumption DEF PersonaInv, Books, PersonaTypeOK

(* A table without rows was never changed, so it may be filled: then the   *)
(* log starts from what it is filled with.                                 *)
LEMMA ConnectedHasBooks ==
  ASSUME Books(Db, seeded), NEW filled \in {NoRows, Seed},
         NEW from, from = (IF persona = NoRows THEN filled ELSE seeded),
         NEW db, db = [persona |-> Connected(filled), changes |-> changes]
  PROVE  Books(db, from)
<1>1. CASE persona # NoRows
  BY <1>1 DEF Connected, Db
<1>2. CASE persona = NoRows
  <2>1. PICK S : changes \in Seq(S)
    BY DEF Books, Db
  <2>2. Len(changes) \in Nat /\ DOMAIN changes = 1 .. Len(changes)
    BY <2>1, LenProperties
  <2>3. Len(changes) = 0
    <3>1. SUFFICES ASSUME Len(changes) \in Nat \ {0} PROVE FALSE
      BY <2>2
    <3> DEFINE m == Len(changes)
               k == changes[m].key
    <3>2. m \in 1 .. m /\ k \in Keys /\ changes[m].new # Absent
      BY <2>2, <3>1 DEF Books, Db
    <3>3. m \in ChangesOf(changes, k, m) /\ \A j \in ChangesOf(changes, k, m) : j <= m
      BY <3>1 DEF ChangesOf
    <3>4. ValueAfter(changes, seeded, k, m) = changes[m].new
      <4> HIDE DEF m, k
      <4> QED
        BY <3>1, <3>3, ValueIs DEF m
    <3>5. persona[k] = changes[m].new
      BY <3>2, <3>4 DEF Books, Explained, Db
    <3>6. persona[k] = Absent
      BY <1>2, <3>2 DEF NoRows
    <3> QED
      BY <3>2, <3>5, <3>6
  <2>4. DOMAIN NoRows = Keys /\ DOMAIN Seed = Keys
    BY DEF NoRows, Seed
  <2>5. db.persona = filled /\ db.changes = changes /\ from = filled
    BY <1>2 DEF Connected
  <2>6. \A k : ValueAfter(changes, from, k, 0) = from[k]
    <3>1. \A k : ChangesOf(changes, k, 0) = {}
      BY DEF ChangesOf
    <3> QED
      BY <3>1, NoValueYet
  <2>7. Explained(db, from)
    BY <2>2, <2>3, <2>5, <2>6 DEF Explained
  <2> QED
    BY <2>1, <2>3, <2>4, <2>5, <2>7 DEF Books
<1> QED
  BY <1>1, <1>2

LEMMA WriteKeepsPersona ==
  ASSUME PersonaInv, NEW rows, Len(rows) \in Nat, WriteRows(rows),
         \A i \in 1 .. Len(rows) : rows[i].key \in Keys
  PROVE  PersonaInv'
<1>1. PICK filled \in {NoRows, Seed}, n \in 0 .. Len(rows) :
        LET before == [persona |-> Connected(filled), changes |-> changes]
            after == AfterRows(before, rows, n)
        IN /\ Len(after.changes) <= MaxHistory
           /\ persona' = after.persona /\ changes' = after.changes
           /\ seeded' = IF persona = NoRows THEN filled ELSE seeded
           /\ outcome' = IF n = Len(rows) /\ after.changes # changes THEN "changed"
                        ELSE "nothing to change"
  BY Zenon DEF WriteRows
<1> DEFINE before == [persona |-> Connected(filled), changes |-> changes]
           after == AfterRows(before, rows, n)
           from == IF persona = NoRows THEN filled ELSE seeded
<1>2. /\ Len(after.changes) <= MaxHistory
      /\ persona' = after.persona /\ changes' = after.changes /\ seeded' = from
      /\ outcome' \in {"changed", "nothing to change"}
  BY <1>1
<1>3. Books(before, from)
  BY ConnectedHasBooks DEF PersonaInv
<1> HIDE DEF before, from
<1>4. n \in Nat /\ \A i \in 1 .. n : rows[i].key \in Keys
  OBVIOUS
<1>5. Books(after, from)
  BY <1>3, <1>4, RowsKeepBooks
<1> HIDE DEF after
<1>6. Db'.persona = after.persona /\ Db'.changes = after.changes
  BY <1>2 DEF Db
<1>7. Books(Db', seeded')
  BY <1>2, <1>5, <1>6 DEF Books, Explained
<1>8. Books(Db, seeded)'
  BY <1>7, Zenon DEF Books, Explained
<1>9. PersonaTypeOK'
  BY <1>2, <1>5 DEF PersonaTypeOK, Books
<1> QED
  BY <1>8, <1>9 DEF PersonaInv

LEMMA RowsOfMatrix ==
  /\ \A i \in DOMAIN IntentMatrix : IntentMatrix[i].key \in Keys
  /\ Row("mood", "value", "neutre").key \in Keys
  /\ Row("energy_level", "value", "normal").key \in Keys
<1>1. \A i \in DOMAIN IntentMatrix : IntentMatrix[i].key \in Keys
  BY DEF Keys
<1>2. /\ 14 \in DOMAIN IntentMatrix /\ IntentMatrix[14] = Row("mood", "value", "neutre")
      /\ 13 \in DOMAIN IntentMatrix /\ IntentMatrix[13] = Row("energy_level", "value", "normal")
  BY DEF IntentMatrix
<1> QED
  BY <1>1, <1>2

LEMMA PersonaInvStep == PersonaInv /\ [PersonaNext]_personaVars => PersonaInv'
<1> SUFFICES ASSUME PersonaInv, [PersonaNext]_personaVars PROVE PersonaInv'
  OBVIOUS
<1>1. CASE Remark
  <2>0. PICK n \in 1 .. MaxPhrases :
          \E at \in [1 .. n -> DOMAIN IntentMatrix] :
            WriteRows([i \in 1 .. n |-> IntentMatrix[at[i]]])
    BY <1>1 DEF Remark
  <2>1. PICK at \in [1 .. n -> DOMAIN IntentMatrix] :
          WriteRows([i \in 1 .. n |-> IntentMatrix[at[i]]])
    BY <2>0
  <2> DEFINE rows == [i \in 1 .. n |-> IntentMatrix[at[i]]]
  <2>2. \A i \in 1 .. n : rows[i].key \in Keys
    BY RowsOfMatrix
  <2>3. n \in Nat /\ Len(rows) = n
    BY PersonaAssumption
  <2>4. WriteRows(rows)
    BY <2>1
  <2> HIDE DEF rows
  <2> QED
    BY <2>2, <2>3, <2>4, WriteKeepsPersona
<1>2. CASE Reset
  <2> DEFINE a == Row("mood", "value", "neutre")
             b == Row("energy_level", "value", "normal")
  <2>1. a.key \in Keys /\ b.key \in Keys
    BY RowsOfMatrix
  <2>2. PICK rows \in {<<a, b>>, <<a>>, <<b>>} : WriteRows(rows)
    BY <1>2, Zenon DEF Reset
  <2> HIDE DEF a, b
  <2>3. rows = <<a, b>> => Len(rows) \in Nat /\ \A i \in 1 .. Len(rows) : rows[i].key \in Keys
    <3> SUFFICES ASSUME rows = <<a, b>>
                 PROVE  Len(rows) \in Nat /\ \A i \in 1 .. Len(rows) : rows[i].key \in Keys
      OBVIOUS
    <3>1. Len(rows) = 2 /\ rows[1] = a /\ rows[2] = b
      OBVIOUS
    <3> QED
      BY <2>1, <3>1
  <2>4. ASSUME NEW x, x.key \in Keys, rows = <<x>>
        PROVE  Len(rows) \in Nat /\ \A i \in 1 .. Len(rows) : rows[i].key \in Keys
    <3>1. Len(rows) = 1 /\ rows[1] = x
      BY <2>4
    <3> QED
      BY <2>4, <3>1
  <2>5. Len(rows) \in Nat /\ \A i \in 1 .. Len(rows) : rows[i].key \in Keys
    BY <2>1, <2>2, <2>3, <2>4
  <2> QED
    BY <2>2, <2>5, WriteKeepsPersona
<1>3. CASE UNCHANGED personaVars
  <2>1. Db' = Db /\ seeded' = seeded /\ UNCHANGED <<persona, changes, outcome>>
    BY <1>3 DEF personaVars, Db
  <2> QED
    BY <2>1 DEF PersonaInv, PersonaTypeOK, Books, Explained
<1> QED
  BY <1>1, <1>2, <1>3 DEF PersonaNext

(* The log of changes, read from its beginning, explains the settings of   *)
(* the assistant, however many rows a remark has and whichever of their    *)
(* transactions fails.                                                     *)
THEOREM HistoryExplainsStateCorrect == PersonaSpec => []HistoryExplainsState
<1>1. PersonaInv => HistoryExplainsState
  BY DEF PersonaInv, Books, HistoryExplainsState, Db
<1> QED
  BY <1>1, PersonaInvInit, PersonaInvStep, PTL DEF PersonaSpec

(* Every section of the persona keeps its row whatever is asked, and the   *)
(* log of changes stays in its bound.                                      *)
THEOREM PersonaTypeCorrect == PersonaSpec => []PersonaTypeOK
<1>1. PersonaInv => PersonaTypeOK
  BY DEF PersonaInv
<1> QED
  BY <1>1, PersonaInvInit, PersonaInvStep, PTL DEF PersonaSpec
-----------------------------------------------------------------------------
(* The rules over the events (AnomalyRules).                               *)
Choosing(g, s, S, m) ==
  g = [n \in 0 .. m |->
         IF n = 0 THEN <<>>
         ELSE IF s[n] \in S THEN Append(g[n - 1], s[n]) ELSE g[n - 1]]

LEMMA ChoosingExists ==
  ASSUME NEW s, NEW S
  PROVE  \A m \in Nat : \E g : Choosing(g, s, S, m)
<1> DEFINE T == {m \in Nat : \E g : Choosing(g, s, S, m)}
           one(q, n) == IF s[n] \in S THEN Append(q, s[n]) ELSE q
<1>0. \A g, m : Choosing(g, s, S, m)
                  <=> g = [n \in 0 .. m |-> IF n = 0 THEN <<>> ELSE one(g[n - 1], n)]
  BY DEF Choosing
<1> HIDE DEF one
<1>1. 0 \in T
  <2> DEFINE g == [n \in 0 .. 0 |-> <<>>]
  <2>1. g = [n \in 0 .. 0 |-> IF n = 0 THEN <<>> ELSE one(g[n - 1], n)]
    OBVIOUS
  <2> QED
    BY <1>0, <2>1
<1>2. ASSUME NEW m \in Nat, m \in T PROVE m + 1 \in T
  <2>1. PICK g : Choosing(g, s, S, m)
    BY <1>2
  <2> DEFINE h == [n \in 0 .. (m + 1) |-> IF n <= m THEN g[n] ELSE one(g[m], m + 1)]
             f == [n \in 0 .. (m + 1) |-> IF n = 0 THEN <<>> ELSE one(h[n - 1], n)]
  <2>2. \A n \in 0 .. m : g[n] = IF n = 0 THEN <<>> ELSE one(g[n - 1], n)
    <3> DEFINE e(n) == IF n = 0 THEN <<>> ELSE one(g[n - 1], n)
    <3>1. g = [n \in 0 .. m |-> e(n)]
      BY <1>0, <2>1
    <3> HIDE DEF e
    <3>2. \A n \in 0 .. m : g[n] = e(n)
      BY <3>1
    <3> QED
      BY <3>2 DEF e
  <2>3. ASSUME NEW n \in 0 .. (m + 1) PROVE h[n] = f[n]
    <3>1. CASE n = 0
      BY <2>2, <3>1
    <3>2. CASE n \in 1 .. m
      <4>1. h[n] = g[n] /\ n \in 0 .. m /\ n # 0 /\ n - 1 \in 0 .. (m + 1) /\ n - 1 <= m
        BY <3>2
      <4>2. h[n - 1] = g[n - 1]
        BY <4>1
      <4>3. f[n] = one(h[n - 1], n)
        BY <4>1
      <4> HIDE DEF h, f
      <4> QED
        BY <2>2, <4>1, <4>2, <4>3
    <3>3. CASE n = m + 1
      <4>1. h[n] = one(g[m], m + 1)
        BY <3>3
      <4>2. h[m] = g[m] /\ n - 1 = m /\ n # 0
        BY <3>3
      <4>3. f[n] = one(h[n - 1], n)
        BY <4>2
      <4> HIDE DEF h, f
      <4> QED
        BY <3>3, <4>1, <4>2, <4>3
    <3> QED
      BY <3>1, <3>2, <3>3
  <2>4. h = f
    BY <2>3
  <2>5. Choosing(h, s, S, m + 1)
    BY <1>0, <2>4
  <2> QED
    BY <2>5
<1> HIDE DEF T
<1>3. \A m \in Nat : m \in T
  BY <1>1, <1>2, Induction
<1> QED
  BY <1>3 DEF T

(* A selection of entries is a list of entries.                            *)
LEMMA AmongIs ==
  ASSUME NEW s \in Seq(Entry), NEW S
  PROVE  Among(s, S) \in Seq(Entry)
<1> DEFINE l == Len(s)
           f == CHOOSE g : Choosing(g, s, S, l)
<1>1. l \in Nat /\ \A n \in 1 .. l : s[n] \in Entry
  BY LenProperties, ElementOfSeq
<1>2. Among(s, S) = f[l]
  BY DEF Among, Choosing
<1>3. Choosing(f, s, S, l)
  BY <1>1, ChoosingExists
<1> HIDE DEF f, l
<1>4. \A n \in 0 .. l : f[n] = IF n = 0 THEN <<>>
                               ELSE IF s[n] \in S THEN Append(f[n - 1], s[n]) ELSE f[n - 1]
  <2> DEFINE e(n) == IF n = 0 THEN <<>>
                     ELSE IF s[n] \in S THEN Append(f[n - 1], s[n]) ELSE f[n - 1]
  <2>1. f = [n \in 0 .. l |-> e(n)]
    BY <1>3, Zenon DEF Choosing
  <2> HIDE DEF e
  <2>2. \A n \in 0 .. l : f[n] = e(n)
    BY <2>1
  <2> QED
    BY <2>2 DEF e
<1> DEFINE T == {n \in Nat : n <= l => f[n] \in Seq(Entry)}
<1>5. 0 \in T
  <2>1. 0 \in 0 .. l
    BY <1>1
  <2>2. f[0] = <<>>
    BY <1>4, <2>1
  <2>3. <<>> \in Seq(Entry)
    BY EmptySeq
  <2> QED
    BY <2>2, <2>3
<1>6. ASSUME NEW n \in Nat, n \in T PROVE n + 1 \in T
  <2>1. SUFFICES ASSUME n + 1 <= l PROVE f[n + 1] \in Seq(Entry)
    OBVIOUS
  <2>2. f[n] \in Seq(Entry)
    BY <1>1, <1>6, <2>1
  <2>3. n + 1 \in 0 .. l /\ n + 1 # 0 /\ (n + 1) - 1 = n /\ s[n + 1] \in Entry
    BY <1>1, <2>1
  <2>4. f[n + 1] = IF s[n + 1] \in S THEN Append(f[n], s[n + 1]) ELSE f[n]
    BY <1>4, <2>3
  <2> QED
    BY <2>2, <2>3, <2>4, AppendProperties
<1> HIDE DEF T
<1>7. l \in T
  BY <1>1, <1>5, <1>6, Induction
<1> QED
  BY <1>1, <1>2, <1>7 DEF T

LEMMA OfKindIs ==
  ASSUME NEW s \in Seq(Entry), NEW k
  PROVE  OfKind(s, k) \in Seq(Entry)
BY AmongIs DEF OfKind

(* The window of a crash ends with the last crash within a minute of it.   *)
LEMMA WindowEndIs ==
  ASSUME NEW c \in Seq(Entry), NEW i \in 1 .. Len(c)
  PROVE  /\ WindowEnd(c, i) \in i .. Len(c)
         /\ \A k \in 1 .. Len(c) : c[k].at - c[i].at <= Minute => k <= WindowEnd(c, i)
<1> DEFINE T == {j \in i .. Len(c) : c[j].at - c[i].at <= Minute}
<1>1. Len(c) \in Nat /\ \A j \in 1 .. Len(c) : c[j].at \in Nat
  <2>1. Len(c) \in Nat /\ \A j \in 1 .. Len(c) : c[j] \in Entry
    BY LenProperties, ElementOfSeq
  <2> QED
    BY <2>1 DEF Entry
<1>2. Minute \in Nat
  BY AnomalyAssumption
<1>3. i \in T /\ T \in SUBSET (1 .. Len(c))
  BY <1>1, <1>2
<1>4. PICK j \in T : \A x \in T : x <= j
  <2> HIDE DEF T
  <2> QED
    BY <1>1, <1>3, GreatestOf
<1>5. \A k \in j + 1 .. Len(c) : c[k].at - c[i].at > Minute
  <2> TAKE k \in j + 1 .. Len(c)
  <2>1. k \in i .. Len(c) /\ ~(k <= j) /\ c[k].at \in Nat /\ c[i].at \in Nat
    BY <1>1, <1>4
  <2>2. k \notin T
    BY <1>4, <2>1
  <2> QED
    BY <1>2, <2>1, <2>2
<1> DEFINE w == WindowEnd(c, i)
<1>6. /\ w \in i .. Len(c)
      /\ \A k \in w + 1 .. Len(c) : c[k].at - c[i].at > Minute
  BY <1>4, <1>5 DEF WindowEnd
<1> HIDE DEF w
<1>7. ASSUME NEW k \in 1 .. Len(c), c[k].at - c[i].at <= Minute PROVE k <= w
  <2>1. c[k].at \in Nat /\ c[i].at \in Nat
    BY <1>1
  <2>2. k \notin w + 1 .. Len(c)
    BY <1>2, <1>6, <1>7, <2>1
  <2> QED
    BY <1>1, <1>6, <2>2
<1> QED
  BY <1>6, <1>7 DEF w

(* One walk over the crashes.                                              *)
FromHere(c, g, i) ==
  IF i > Len(c) THEN {}
  ELSE IF WindowEnd(c, i) >= i + 2 THEN {i} \cup g[WindowEnd(c, i) + 1] ELSE g[i + 1]

Walking(g, c, a) == g = [i \in a .. Len(c) + 1 |-> FromHere(c, g, i)]

LEMMA WalkExists ==
  ASSUME NEW c \in Seq(Entry)
  PROVE  \E g : Walking(g, c, 1)
<1> DEFINE l == Len(c)
           T == {d \in Nat : d <= l => \E g : Walking(g, c, l + 1 - d)}
<1>1. l \in Nat
  BY LenProperties
<1>2. 0 \in T
  <2> DEFINE g == [i \in l + 1 .. l + 1 |-> {}]
  <2>1. \A i \in l + 1 .. l + 1 : FromHere(c, g, i) = {}
    BY <1>1 DEF FromHere
  <2>2. g = [i \in l + 1 .. l + 1 |-> FromHere(c, g, i)]
    BY <2>1
  <2>3. Walking(g, c, l + 1)
    BY <2>2 DEF Walking
  <2>4. l + 1 - 0 = l + 1
    BY <1>1
  <2> QED
    BY <2>3, <2>4
<1>3. ASSUME NEW d \in Nat, d \in T PROVE d + 1 \in T
  <2>1. SUFFICES ASSUME d + 1 <= l PROVE \E g : Walking(g, c, l + 1 - (d + 1))
    OBVIOUS
  <2> DEFINE a == l - d
  <2>2. a \in 1 .. l /\ l + 1 - (d + 1) = a /\ l + 1 - d = a + 1
    BY <1>1, <2>1
  <2>3. PICK g : Walking(g, c, a + 1)
    BY <1>1, <1>3, <2>1, <2>2
  <2> HIDE DEF a
  <2> DEFINE h == [i \in a .. l + 1 |-> IF i = a THEN FromHere(c, g, a) ELSE g[i]]
  <2>4. \A i \in a + 1 .. l + 1 : g[i] = FromHere(c, g, i)
    <3>1. g = [i \in a + 1 .. l + 1 |-> FromHere(c, g, i)]
      BY <2>3 DEF Walking
    <3> QED
      BY <3>1
  <2>5. \A i \in a + 1 .. l + 1 : h[i] = g[i]
    BY <1>1, <2>2
  <2>6. ASSUME NEW i \in a .. l + 1 PROVE FromHere(c, h, i) = FromHere(c, g, i)
    <3>1. CASE i = l + 1
      BY <1>1, <3>1 DEF FromHere
    <3>2. CASE i \in a .. l
      <4>1. i \in 1 .. l
        BY <1>1, <2>2, <3>2
      <4>2. WindowEnd(c, i) \in i .. l
        BY <4>1, WindowEndIs
      <4>3. WindowEnd(c, i) + 1 \in a + 1 .. l + 1 /\ i + 1 \in a + 1 .. l + 1
        BY <1>1, <2>2, <3>2, <4>2
      <4>4. h[WindowEnd(c, i) + 1] = g[WindowEnd(c, i) + 1] /\ h[i + 1] = g[i + 1]
        BY <2>5, <4>3
      <4> HIDE DEF h
      <4> QED
        BY <4>4 DEF FromHere
    <3> QED
      BY <1>1, <2>2, <3>1, <3>2
  <2>7. ASSUME NEW i \in a .. l + 1 PROVE h[i] = FromHere(c, h, i)
    <3>1. CASE i = a
      <4>1. h[i] = FromHere(c, g, a)
        BY <3>1
      <4> HIDE DEF h
      <4> QED
        BY <2>6, <3>1, <4>1
    <3>2. CASE i # a
      <4>1. i \in a + 1 .. l + 1
        BY <1>1, <2>2, <3>2
      <4> HIDE DEF h
      <4> QED
        BY <2>4, <2>5, <2>6, <4>1
    <3> QED
      BY <3>1, <3>2
  <2> DEFINE e(i) == FromHere(c, h, i)
  <2>8. h = [i \in a .. l + 1 |-> e(i)]
    <3>1. \A i \in a .. l + 1 : h[i] = e(i)
      BY <2>7
    <3> HIDE DEF e
    <3> QED
      BY <3>1
  <2>9. Walking(h, c, a)
    <3> HIDE DEF h
    <3> QED
      BY <2>8 DEF Walking
  <2> QED
    BY <2>2, <2>9
<1>4. l \in T
  <2> HIDE DEF T, l
  <2> QED
    BY <1>1, <1>2, <1>3, Induction
<1>5. l + 1 - l = 1
  BY <1>1
<1> QED
  BY <1>1, <1>4, <1>5

(* From crash i on, all that begins three within a minute is in a window   *)
(* of a start found there, and no two of these windows meet.               *)
Covered(c, S, i) ==
  /\ S \subseteq i .. Len(c)
  /\ \A m \in i .. Len(c) :
       m + 2 <= Len(c) /\ c[m + 2].at - c[m].at <= Minute
         => \E s \in S : m \in s .. WindowEnd(c, s)
  /\ \A s, t \in S, m \in 1 .. Len(c) :
       m \in s .. WindowEnd(c, s) /\ m \in t .. WindowEnd(c, t) => s = t

LEMMA StartsPart ==
  ASSUME NEW c \in Seq(Entry)
  PROVE  Covered(c, CascadeStarts(c), 1)
<1> DEFINE l == Len(c)
           f == CHOOSE g : Walking(g, c, 1)
<1>1. l \in Nat
  BY LenProperties
<1>2. CascadeStarts(c) = f[1]
  BY DEF CascadeStarts, Walking, FromHere
<1>3. Walking(f, c, 1)
  BY WalkExists
<1> HIDE DEF f
<1>4. \A i \in 1 .. l + 1 : f[i] = FromHere(c, f, i)
  <2>1. f = [i \in 1 .. l + 1 |-> FromHere(c, f, i)]
    BY <1>3, Zenon DEF Walking
  <2> QED
    BY <2>1
<1> DEFINE T == {d \in Nat : \A i \in 1 .. l + 1 : l + 1 - i <= d => Covered(c, f[i], i)}
<1>5. ASSUME NEW i \in 1 .. l,
             Covered(c, f[i + 1], i + 1),
             Covered(c, f[WindowEnd(c, i) + 1], WindowEnd(c, i) + 1)
      PROVE  Covered(c, f[i], i)
  <2> DEFINE w == WindowEnd(c, i)
  <2>1. /\ w \in i .. l
        /\ \A k \in 1 .. l : c[k].at - c[i].at <= Minute => k <= w
    BY WindowEndIs
  <2>2. f[i] = IF w >= i + 2 THEN {i} \cup f[w + 1] ELSE f[i + 1]
    <3>1. i \in 1 .. l + 1 /\ ~(i > l)
      BY <1>1
    <3> QED
      BY <1>4, <3>1 DEF FromHere
  <2>3. i + 2 <= l /\ c[i + 2].at - c[i].at <= Minute => w >= i + 2
    <3>1. i + 2 <= l => i + 2 \in 1 .. l
      BY <1>1
    <3> QED
      BY <2>1, <3>1
  <2>4. CASE w >= i + 2
    <3> DEFINE S == f[w + 1]
    <3>1. f[i] = {i} \cup S
      BY <2>2, <2>4
    <3>2. /\ S \subseteq (w + 1) .. l
          /\ \A m \in w + 1 .. l :
               m + 2 <= l /\ c[m + 2].at - c[m].at <= Minute
                 => \E s \in S : m \in s .. WindowEnd(c, s)
          /\ \A s, t \in S, m \in 1 .. l :
               m \in s .. WindowEnd(c, s) /\ m \in t .. WindowEnd(c, t) => s = t
      BY <1>5 DEF Covered
    <3> HIDE DEF S
    <3>3. f[i] \subseteq i .. l
      <4>1. w \in i .. l /\ i \in i .. l
        BY <1>1, <2>1
      <4> HIDE DEF w
      <4>2. (w + 1) .. l \subseteq i .. l
        BY <1>1, <4>1
      <4> QED
        BY <3>1, <3>2, <4>1, <4>2
    <3>4. ASSUME NEW m \in i .. l, m + 2 <= l, c[m + 2].at - c[m].at <= Minute
          PROVE  \E s \in f[i] : m \in s .. WindowEnd(c, s)
      <4>1. CASE m <= w
        <5>1. m \in i .. w
          BY <1>1, <2>1, <4>1
        <5> QED
          BY <3>1, <5>1
      <4>2. CASE ~(m <= w)
        <5>1. m \in w + 1 .. l
          BY <1>1, <2>1, <4>2
        <5> QED
          BY <3>1, <3>2, <3>4, <5>1
      <4> QED
        BY <4>1, <4>2
    <3>5. ASSUME NEW t \in S, NEW m \in 1 .. l, m \in i .. w, m \in t .. WindowEnd(c, t)
          PROVE  FALSE
      <4>1. t \in w + 1 .. l
        BY <3>2
      <4>2. m <= w /\ t <= m
        BY <3>5, <4>1, <2>1
      <4> QED
        BY <2>1, <4>1, <4>2
    <3>6. ASSUME NEW s \in f[i], NEW t \in f[i], NEW m \in 1 .. l,
                 m \in s .. WindowEnd(c, s), m \in t .. WindowEnd(c, t)
          PROVE  s = t
      <4>1. CASE s \in S /\ t \in S
        BY <3>2, <3>6, <4>1
      <4>2. CASE s = i /\ t \in S
        BY <3>5, <3>6, <4>2
      <4>3. CASE t = i /\ s \in S
        BY <3>5, <3>6, <4>3
      <4> QED
        BY <3>1, <4>1, <4>2, <4>3
    <3> QED
      BY <3>3, <3>4, <3>6 DEF Covered
  <2>5. CASE ~(w >= i + 2)
    <3> DEFINE S == f[i + 1]
    <3>1. f[i] = S
      BY <2>2, <2>5
    <3>2. /\ S \subseteq (i + 1) .. l
          /\ \A m \in i + 1 .. l :
               m + 2 <= l /\ c[m + 2].at - c[m].at <= Minute
                 => \E s \in S : m \in s .. WindowEnd(c, s)
          /\ \A s, t \in S, m \in 1 .. l :
               m \in s .. WindowEnd(c, s) /\ m \in t .. WindowEnd(c, t) => s = t
      BY <1>5 DEF Covered
    <3> HIDE DEF S
    <3>3. S \subseteq i .. l
      BY <1>1, <3>2
    <3>4. ASSUME NEW m \in i .. l, m + 2 <= l, c[m + 2].at - c[m].at <= Minute
          PROVE  \E s \in S : m \in s .. WindowEnd(c, s)
      <4>1. m # i
        BY <2>3, <2>5, <3>4
      <4>2. m \in i + 1 .. l
        BY <1>1, <4>1
      <4> QED
        BY <3>2, <3>4, <4>2
    <3> QED
      BY <3>1, <3>2, <3>3, <3>4 DEF Covered
  <2> QED
    BY <2>4, <2>5
<1>6. Covered(c, f[l + 1], l + 1)
  <2>1. f[l + 1] = {}
    <3>1. l + 1 \in 1 .. l + 1 /\ l + 1 > l
      BY <1>1
    <3>2. f[l + 1] = FromHere(c, f, l + 1)
      BY <1>4, <3>1
    <3> QED
      BY <3>1, <3>2 DEF FromHere
  <2> QED
    BY <1>1, <2>1 DEF Covered
<1>7. 0 \in T
  <2> SUFFICES ASSUME NEW i \in 1 .. l + 1, l + 1 - i <= 0 PROVE Covered(c, f[i], i)
    OBVIOUS
  <2>1. i = l + 1
    BY <1>1
  <2> QED
    BY <1>6, <2>1
<1>8. ASSUME NEW d \in Nat, d \in T PROVE d + 1 \in T
  <2> SUFFICES ASSUME NEW i \in 1 .. l + 1, l + 1 - i <= d + 1 PROVE Covered(c, f[i], i)
    OBVIOUS
  <2>1. CASE i = l + 1
    BY <1>6, <2>1
  <2>2. CASE i # l + 1
    <3>1. i \in 1 .. l
      BY <1>1, <2>2
    <3>2. WindowEnd(c, i) \in i .. l
      BY <3>1, WindowEndIs
    <3>3. /\ i + 1 \in 1 .. l + 1 /\ l + 1 - (i + 1) <= d
          /\ WindowEnd(c, i) + 1 \in 1 .. l + 1 /\ l + 1 - (WindowEnd(c, i) + 1) <= d
      BY <1>1, <3>1, <3>2
    <3>4. Covered(c, f[i + 1], i + 1) /\ Covered(c, f[WindowEnd(c, i) + 1], WindowEnd(c, i) + 1)
      BY <1>8, <3>3
    <3> QED
      BY <1>5, <3>1, <3>4
  <2> QED
    BY <2>1, <2>2
<1>9. l \in T
  <2> HIDE DEF T, l
  <2> QED
    BY <1>1, <1>7, <1>8, Induction
<1>10. 1 \in 1 .. l + 1 /\ l + 1 - 1 <= l
  BY <1>1
<1> QED
  BY <1>2, <1>9, <1>10

-----------------------------------------------------------------------------
LEMMA TableIsEntries == AnomalySpec => [](table \in Seq(Entry))
<1>1. AnomalyInit => table \in Seq(Entry)
  BY EmptySeq DEF AnomalyInit
<1>2. table \in Seq(Entry) /\ [AnomalyNext]_anomalyVars => (table \in Seq(Entry))'
  <2> SUFFICES ASSUME table \in Seq(Entry), [AnomalyNext]_anomalyVars
               PROVE  table' \in Seq(Entry)
    OBVIOUS
  <2>1. ASSUME NEW k \in Kinds, NEW v \in Services, LogEvent(k, v)
        PROVE  table' \in Seq(Entry)
    <3>1. PICK gap \in 0 .. MaxGap :
            table' = Append(table, [type |-> k, service |-> v,
              at |-> (IF table = <<>> THEN 0 ELSE Last(table).at) + gap])
      BY <2>1 DEF LogEvent
    <3> DEFINE at == (IF table = <<>> THEN 0 ELSE Last(table).at) + gap
               e == [type |-> k, service |-> v, at |-> at]
    <3>2. table # <<>> => Last(table).at \in Nat
      <4> SUFFICES ASSUME table # <<>> PROVE Last(table).at \in Nat
        OBVIOUS
      <4>1. Len(table) \in Nat \ {0}
        BY EmptySeq, LenProperties
      <4>2. table[Len(table)] \in Entry
        BY <4>1, ElementOfSeq
      <4> QED
        BY <4>2 DEF Last, Entry
    <3>3. at \in Nat
      BY <3>2, AnomalyAssumption
    <3>4. table' = Append(table, e)
      BY <3>1
    <3> HIDE DEF at
    <3>5. e \in Entry
      BY <3>3 DEF Entry
    <3> HIDE DEF e
    <3> QED
      BY <3>4, <3>5, AppendProperties
  <2>2. CASE ClearEvents
    BY <2>2, EmptySeq DEF ClearEvents
  <2>3. CASE Analyse
    BY <2>3 DEF Analyse
  <2>4. CASE UNCHANGED anomalyVars
    BY <2>4 DEF anomalyVars
  <2> QED
    BY <2>1, <2>2, <2>3, <2>4 DEF AnomalyNext
<1> QED
  BY <1>1, <1>2, PTL DEF AnomalySpec

(* detect_cascade, which walks the crashes once, finds every three within  *)
(* a minute and counts no crash in two cascades, for any events table.     *)
THEOREM CascadesPartitionCorrect == AnomalySpec => []CascadesPartition
<1>1. table \in Seq(Entry) => CascadesPartition
  <2> SUFFICES ASSUME table \in Seq(Entry) PROVE CascadesPartition
    OBVIOUS
  <2> DEFINE c == OfKind(table, "crash")
             S == CascadeStarts(c)
  <2>1. c \in Seq(Entry)
    BY OfKindIs
  <2>2. CascadesPartition <=>
          \A i \in DOMAIN c :
            /\ i + 2 <= Len(c) /\ c[i + 2].at - c[i].at <= Minute
                 => \E s \in S : i \in s .. WindowEnd(c, s)
            /\ \A s, t \in S :
                 i \in s .. WindowEnd(c, s) /\ i \in t .. WindowEnd(c, t) => s = t
    BY Zenon DEF CascadesPartition
  <2> HIDE DEF c
  <2>3. DOMAIN c = 1 .. Len(c)
    BY <2>1, LenProperties
  <2>4. Covered(c, S, 1)
    BY <2>1, StartsPart
  <2> HIDE DEF S
  <2> QED
    BY <2>2, <2>3, <2>4 DEF Covered
<1> QED
  BY <1>1, TableIsEntries, PTL

(* What the rules find in any list of entries.                             *)
LEMMA FoundTypes ==
  ASSUME NEW s \in Seq(Entry)
  PROVE  /\ Anomalies(s) \in [recurring_crash : SUBSET Services, cascade : Nat,
                              crash_after_restart : SUBSET Services,
                              increasing_frequency : SUBSET Services]
         /\ HealthScore(s) \in 0 .. 100
         /\ Level(HealthScore(s)) \in {"excellent", "good", "degraded", "critical"}
<1> DEFINE c == OfKind(s, "crash")
<1>1. c \in Seq(Entry)
  BY OfKindIs
<1>2. Cardinality(CascadeStarts(c)) \in Nat
  <2> HIDE DEF c
  <2>1. Len(c) \in Nat /\ CascadeStarts(c) \subseteq 1 .. Len(c)
    BY <1>1, StartsPart, LenProperties DEF Covered
  <2>2. IsFiniteSet(1 .. Len(c))
    BY <2>1, FS_Interval
  <2> QED
    BY <2>1, <2>2, FS_Subset, FS_CardinalityType
<1>3. Recurring(s) \in SUBSET Services /\ AfterRestart(s) \in SUBSET Services
  BY DEF Recurring, AfterRestart
<1>4. Faster(s) \in SUBSET Services
  BY Zenon DEF Faster
<1>5. \A k : Len(OfKind(s, k)) \in Nat
  BY OfKindIs, LenProperties
<1>6. HealthScore(s) \in 0 .. 100
  <2> DEFINE n(k) == Len(OfKind(s, k))
             raw == 100 - 2 * n("crash") - 15 * n("manual_required")
                      - 5 * n("instability") + n("recovery")
  <2>1. n("crash") \in Nat /\ n("manual_required") \in Nat
        /\ n("instability") \in Nat /\ n("recovery") \in Nat
    BY <1>5
  <2>2. raw \in Int
    <3> HIDE DEF n
    <3> QED
      BY <2>1
  <2>3. HealthScore(s) = IF raw < 0 THEN 0 ELSE IF raw > 100 THEN 100 ELSE raw
    BY DEF HealthScore
  <2> HIDE DEF raw
  <2> QED
    BY <2>2, <2>3
<1>7. Level(HealthScore(s)) \in {"excellent", "good", "degraded", "critical"}
  <2> DEFINE score == HealthScore(s)
  <2> HIDE DEF score
  <2>1. score \in 0 .. 100
    BY <1>6 DEF score
  <2>2. score >= 90 \/ score \in 75 .. 89 \/ score \in 50 .. 74 \/ score < 50
    BY <2>1
  <2> DEFINE a == score >= 90  b == score \in 75 .. 89  g == score \in 50 .. 74  d == score < 50
             word == CASE a -> "excellent" [] b -> "good" [] g -> "degraded" [] d -> "critical"
  <2>3. Level(score) = word
    BY DEF Level
  <2>4. a \/ b \/ g \/ d
    BY <2>1, <2>2
  <2> HIDE DEF a, b, g, d
  <2>5. word \in {"excellent", "good", "degraded", "critical"}
    BY <2>4
  <2> HIDE DEF word, score
  <2> QED
    BY <2>3, <2>5, Zenon DEF score
<1> QED
  BY <1>2, <1>3, <1>4, <1>6, <1>7 DEF Anomalies

(* Whatever is logged, cleared and analysed, get_anomalies names services  *)
(* that are watched, and the health score has one of the four levels.      *)
THEOREM AnomalyTypeCorrect == AnomalySpec => []AnomalyTypeOK
<1>1. AnomalyInit => AnomalyTypeOK
  <2>1. <<>> \in Seq(Entry)
    BY EmptySeq
  <2>2. AnomalyInit => /\ table = <<>> /\ found.anomalies = Anomalies(<<>>)
                       /\ found.level = Level(HealthScore(<<>>))
    BY DEF AnomalyInit
  <2> QED
    BY <2>1, <2>2, FoundTypes, Zenon DEF AnomalyTypeOK
<1>2. AnomalyTypeOK /\ (table \in Seq(Entry))' /\ [AnomalyNext]_anomalyVars => AnomalyTypeOK'
  <2> SUFFICES ASSUME AnomalyTypeOK, table' \in Seq(Entry), [AnomalyNext]_anomalyVars
               PROVE  AnomalyTypeOK'
    OBVIOUS
  <2>1. CASE Analyse
    <3>1. Read \in Seq(Entry)
      BY AmongIs DEF Read, AnomalyTypeOK
    <3> HIDE DEF Read
    <3>2. found' = [anomalies |-> Anomalies(Read), level |-> Level(HealthScore(Read))]
      BY <2>1 DEF Analyse
    <3> QED
      BY <3>1, <3>2, FoundTypes DEF AnomalyTypeOK
  <2>2. CASE UNCHANGED found
    BY <2>2 DEF AnomalyTypeOK
  <2> QED
    BY <2>1, <2>2 DEF AnomalyNext, LogEvent, ClearEvents, anomalyVars
<1> QED
  BY <1>1, <1>2, TableIsEntries, PTL DEF AnomalySpec
=============================================================================
