----------------------------- MODULE HostLifecycle -----------------------------
(***************************************************************************)
(* The lifespan of the FastAPI application in core/app.py: the background  *)
(* parts it starts in a fixed order, any of which may be switched off by   *)
(* the settings or fail, and the finally block that stops them.            *)
(*                                                                         *)
(* A bot is "half" up when its Application runs but polling could not be   *)
(* started (updater.start_polling raised): Updater.stop() of               *)
(* python-telegram-bot then raises, so stop_bot and stop_watchdog_bot skip *)
(* the stop() and shutdown() that follow it and only drop the object.      *)
(***************************************************************************)
EXTENDS Naturals, Sequences

(* "objects" stands for the agents, the router and memory_init_db, which   *)
(* may raise but leave nothing running.                                    *)
StartOrder == <<"monitor", "objects", "ha", "scheduler", "gateway",
                "telegram", "watchdog", "wdbot">>
StopOrder  == <<"monitor", "scheduler", "ha", "gateway", "wdbot",
                "watchdog", "telegram">>
Parts == {StartOrder[i] : i \in DOMAIN StartOrder}
Bots  == {"telegram", "wdbot"}

VARIABLES
  hostPhase, \* "starting", "serving", "stopping" or "down"
  hostAt,    \* position in StartOrder or StopOrder
  up,        \* what every part is: "off", "on", or "half"
  enabled,   \* the parts the settings switch on
  telegramSeen \* telegram_enabled, read from the settings only when reached

lifecycleVars == <<hostPhase, hostAt, up, enabled, telegramSeen>>

HostLifecycleTypeOK ==
  /\ hostPhase \in {"starting", "serving", "stopping", "down"}
  /\ hostAt \in 1..8
  /\ up \in [Parts -> {"off", "on", "half"}]
  /\ \A p \in Parts \ Bots : up[p] # "half"
  /\ enabled \subseteq Parts
  /\ telegramSeen \in BOOLEAN

LifecycleInit ==
  /\ hostPhase = "starting" /\ hostAt = 1
  /\ up = [p \in Parts |-> "off"]
  /\ \E s \in SUBSET {"ha", "scheduler", "telegram", "watchdog", "wdbot"} :
       enabled = s \cup {"monitor", "objects", "gateway"}
  /\ telegramSeen = FALSE

(* What one start may leave behind, and whether it raises out of the       *)
(* lifespan.  Failures of the gateway's construction and of start_bot are  *)
(* caught; those of HAAgent.on_start, scheduler_start and the watchdog bot *)
(* are not.  The watchdog bot is started only with the watchdog.           *)
Wanted(p) == p \in enabled /\ (p = "wdbot" => "watchdog" \in enabled)

StartOutcomes(p) ==
  IF ~Wanted(p) THEN {[leaves |-> "off", raises |-> FALSE]}
  ELSE CASE p \in {"monitor", "watchdog"} -> {[leaves |-> "on", raises |-> FALSE]}
         [] p = "objects"               -> {[leaves |-> "off", raises |-> r] :
                                              r \in BOOLEAN}
         [] p \in {"ha", "scheduler"}   -> {[leaves |-> "on", raises |-> FALSE],
                                            [leaves |-> "off", raises |-> TRUE]}
         [] p = "gateway"               -> {[leaves |-> s, raises |-> FALSE] :
                                              s \in {"on", "off"}}
         [] p = "telegram"              -> {[leaves |-> s, raises |-> FALSE] :
                                              s \in {"on", "half", "off"}}
         [] p = "wdbot"                 -> {[leaves |-> "on", raises |-> FALSE],
                                            [leaves |-> "half", raises |-> TRUE]}

StartPart ==
  LET p == StartOrder[hostAt]
  IN /\ hostPhase = "starting"
     /\ telegramSeen' = IF p = "telegram" THEN "telegram" \in enabled ELSE telegramSeen
     /\ \E o \in StartOutcomes(p) :
          /\ up' = [up EXCEPT ![p] = o.leaves]
          /\ hostPhase' = IF o.raises THEN "stopping"
                      ELSE IF hostAt = 8 THEN "serving" ELSE hostPhase
          /\ hostAt' = IF o.raises \/ hostAt = 8 THEN 1 ELSE hostAt + 1
     /\ UNCHANGED enabled

(* The gateway task ends by itself when its port is taken (errno 98) or    *)
(* websockets.serve raises; nobody is told.                                *)
GatewayEnds ==
  /\ hostPhase \in {"starting", "serving"} /\ up["gateway"] = "on"
  /\ up' = [up EXCEPT !["gateway"] = "off"]
  /\ UNCHANGED <<hostPhase, hostAt, enabled, telegramSeen>>

Shutdown ==
  /\ hostPhase = "serving"
  /\ hostPhase' = "stopping" /\ hostAt' = 1
  /\ UNCHANGED <<up, enabled, telegramSeen>>

(* Mutant: the bot is stopped only under the watchdog's switch.           *)
GuardedBySwitch(p) ==
  IF p = "monitor" \/ p = "scheduler" THEN TRUE ELSE "watchdog" \in enabled

(* One part of the finally block; an exception in one does not keep the    *)
(* next from being stopped.                                                *)
Guarded(p) ==
  CASE p \in {"watchdog", "wdbot"} -> "watchdog" \in enabled
    [] p = "telegram"              -> telegramSeen
    [] OTHER                       -> TRUE

StopPart ==
  LET p == StopOrder[hostAt]
  IN /\ hostPhase = "stopping"
     /\ up' = IF Guarded(p) /\ up[p] = "on"
                THEN [up EXCEPT ![p] = "off"] ELSE up
     /\ hostPhase' = IF hostAt = 7 THEN "down" ELSE hostPhase
     /\ hostAt' = IF hostAt = 7 THEN hostAt ELSE hostAt + 1
     /\ UNCHANGED <<enabled, telegramSeen>>

LifecycleNext == StartPart \/ GatewayEnds \/ Shutdown \/ StopPart

LifecycleSpec == LifecycleInit /\ [][LifecycleNext]_lifecycleVars

-----------------------------------------------------------------------------
(* However far the start came and whatever failed, the finally block       *)
(* leaves no task, job or polling bot running; only a bot whose polling    *)
(* never started may be left half up.                                      *)
NothingLeftRunning ==
  hostPhase = "down" => \A p \in Parts : up[p] # "on"
=============================================================================
