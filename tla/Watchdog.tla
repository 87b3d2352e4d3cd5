------------------------------- MODULE Watchdog -------------------------------
(***************************************************************************)
(* The watchdog of the server: core/agents/automation/watchdog_agent.py.   *)
(* A loop samples the machine and alerts when a threshold is passed; a     *)
(* Telegram bot of its own takes commands, one at a time; the scheduler's  *)
(* jobs and the event subscribers notify through the same function.        *)
(*                                                                         *)
(* One action is a stretch of event-loop code between two awaits; while    *)
(* the loop is "alerting" it has not yielded and nothing else runs.  Time  *)
(* is time.monotonic() in ticks.  check_agents only mirrors the agents     *)
(* into the WorldModel; the reading commands (/status, /score, /history,   *)
(* ...) change nothing and are left out.  _check_system, _check_agents     *)
(* (the automatic restart) and run_analysis are called by nothing in the   *)
(* repository, so they are not modelled.                                   *)
(***************************************************************************)
EXTENDS Naturals, Sequences

CONSTANTS
  Chats,        \* chats that write to the bot
  Allowed,      \* the chats of WATCHDOG_CHAT_ID
  HasToken,     \* is WATCHDOG_BOT_TOKEN set?
  Cooldowns,    \* values ALERT_COOLDOWN takes, the first is the default
  ConfirmTTL,   \* the 30 seconds a confirmation waits
  MuteTicks,    \* duration asked by /mute
  Loads,        \* resources that may pass their threshold
  MaxClock,     \* bound: ticks
  MaxPerformed  \* bound: confirmed actions

ASSUME WatchdogAssumption ==
  /\ Allowed \subseteq Chats
  /\ Loads \subseteq {"ram", "cpu", "disk"}
  /\ HasToken \in BOOLEAN
  /\ Cooldowns \in Seq(Nat) /\ Cooldowns # <<>>
  /\ {ConfirmTTL, MuteTicks, MaxClock, MaxPerformed} \subseteq Nat
  /\ 1 <= MaxClock /\ Cooldowns[1] <= MaxClock

(* check_alert looks at the resources in this order.                       *)
Order == <<"ram", "cpu", "disk">>
Resources == {"ram", "cpu", "disk"}
NoPending == [action |-> "none", expires |-> 0]

VARIABLES
  clock,      \* time.monotonic()
  bot,        \* _watchdog_bot_app: "off", or "up" once it polls
  loop,       \* watchdog_loop: where it is, and the resource it looks at
  sample,     \* WorldModel system/resources: the high ones
  quiet,      \* resources whose threshold /config has put out of reach
  cooldown,   \* ALERT_COOLDOWN
  muteUntil,  \* _mute_until
  lastAlert,  \* _last_alert, 0 when the key is absent
  pending,    \* _pending_confirm
  alerts,     \* WorldModel "alerts"
  events,     \* does the events table hold anything?
  (* history *)
  wish,       \* last confirmable request of a chat and its state
  performed   \* number, chat and kind of the last confirmed action

volatile == <<bot, loop, sample, quiet, cooldown, muteUntil, lastAlert,
              pending, alerts>>
history  == <<wish, performed>>
watchdogVars == <<clock, volatile, events, history>>

Times == 0..(MaxClock + ConfirmTTL + MuteTicks)
Actions == {"restart_core", "clear_events"}

WatchdogTypeOK ==
  /\ clock \in 0..MaxClock
  /\ bot \in {"off", "up"}
  /\ loop \in [pc : {"sleep", "cpu", "alerting", "send"}, at : 1..3]
  /\ sample \in SUBSET Resources
  /\ quiet \in SUBSET Resources
  /\ cooldown \in {Cooldowns[i] : i \in DOMAIN Cooldowns}
  /\ muteUntil \in Times
  /\ lastAlert \in [Resources -> Times]
  /\ pending \in [Chats -> [action : Actions \cup {"none"}, expires : Times]]
  /\ alerts \in SUBSET Resources
  /\ events \in BOOLEAN
  /\ wish \in [Chats -> [action : Actions \cup {"none"}, at : Times,
                         live : BOOLEAN]]
  /\ performed \in [n : 0..MaxPerformed, chat : Chats, action : Actions]

-----------------------------------------------------------------------------
WatchdogInit ==
  /\ bot = "off"
  /\ loop = [pc |-> "sleep", at |-> 1]
  /\ sample = {} /\ quiet = {} /\ alerts = {}
  /\ cooldown = Cooldowns[1] /\ muteUntil = 0
  /\ lastAlert = [r \in Resources |-> 0]
  /\ pending = [c \in Chats |-> NoPending]
  /\ clock \in {1, Cooldowns[1]}
  /\ events = FALSE
  /\ wish = [c \in Chats |-> [action |-> "none", at |-> 0, live |-> FALSE]]
  /\ performed \in [n : {0}, chat : Chats, action : {"clear_events"}]

(* No coroutine holds the event loop.                                      *)
Yielded == loop.pc # "alerting"

Tick ==
  /\ Yielded /\ clock < MaxClock
  /\ clock' = clock + 1
  /\ UNCHANGED <<volatile, events, history>>

StartBot ==
  /\ HasToken /\ bot = "off" /\ Yielded
  /\ bot' = "up"
  /\ UNCHANGED <<clock, loop, sample, quiet, cooldown, muteUntil, lastAlert,
                 pending, alerts, events, history>>

(* The loop wakes and awaits the CPU measure; afterwards it stores a new   *)
(* sample, or keeps the old one when psutil fails, and goes on to alert.   *)
LoopWake ==
  /\ loop.pc = "sleep"
  /\ loop' = [loop EXCEPT !.pc = "cpu"]
  /\ UNCHANGED <<clock, bot, sample, quiet, cooldown, muteUntil, lastAlert,
                 pending, alerts, events, history>>

Measured ==
  /\ loop.pc = "cpu"
  /\ sample' \in (SUBSET Loads) \cup {sample}
  /\ loop' = [pc |-> "alerting", at |-> 1]
  /\ UNCHANGED <<clock, bot, quiet, cooldown, muteUntil, lastAlert, pending,
                 alerts, events, history>>

(* Mutant: one resource too many.                                         *)
NextResourceLate == IF loop.at <= 3 THEN [pc |-> "alerting", at |-> loop.at + 1]
                    ELSE [pc |-> "sleep", at |-> 1]

NextResource == IF loop.at < 3 THEN [pc |-> "alerting", at |-> loop.at + 1]
                ELSE [pc |-> "sleep", at |-> 1]

Cooling(r) == clock - lastAlert[r] < cooldown
Muted == muteUntil > clock

(* _notify stamps the key after both tests; a muted alert stamps nothing.   *)
Stamps(r) == ~Muted /\ ~Cooling(r)

(* check_alert on one resource.  Without a bot _notify calls _notify_fn,   *)
(* which app.py sets to send_watchdog_notification, that is _notify again, *)
(* until the interpreter's recursion limit ends it in the except branch.   *)
CheckAlert ==
  LET r == Order[loop.at]
      high == r \in sample /\ r \notin quiet
      due == high /\ Stamps(r) /\ ~Muted
  IN /\ loop.pc = "alerting"
     /\ alerts' = IF high THEN alerts \cup {r} ELSE alerts
     /\ lastAlert' = IF high /\ Stamps(r) THEN [lastAlert EXCEPT ![r] = clock] ELSE lastAlert
     /\ loop' = IF due /\ bot = "up" THEN [loop EXCEPT !.pc = "send"]
                ELSE NextResource
     /\ UNCHANGED <<clock, bot, sample, quiet, cooldown, muteUntil, pending,
                    events, history>>

(* The awaited send_message ends; its exception is only logged.            *)
AlertSent ==
  /\ loop.pc = "send"
  /\ loop' = NextResource
  /\ UNCHANGED <<clock, bot, sample, quiet, cooldown, muteUntil, lastAlert,
                 pending, alerts, events, history>>

-----------------------------------------------------------------------------
(* Commands of the bot.                                                    *)
Command(c) == bot = "up" /\ Yielded /\ (Allowed = {} \/ c \in Allowed)
AlertVars == <<clock, bot, loop, sample, alerts, lastAlert>>
ConfirmVars == <<pending, wish, performed, events>>

Config(c) ==
  /\ Command(c)
  /\ \/ \E r \in Loads :
          quiet' \in {quiet \cup {r}, quiet \ {r}} /\ UNCHANGED cooldown
     \/ \E i \in DOMAIN Cooldowns : cooldown' = Cooldowns[i] /\ UNCHANGED quiet
  /\ UNCHANGED <<AlertVars, ConfirmVars, muteUntil>>

Mute(c) ==
  /\ Command(c)
  /\ muteUntil' \in {0, clock + MuteTicks}
  /\ UNCHANGED <<AlertVars, ConfirmVars, quiet, cooldown>>

(* /clear and /restart core: one confirmation is kept per chat.            *)
Request(c, a) ==
  /\ Command(c)
  /\ pending' = [pending EXCEPT ![c] = [action |-> a,
                                        expires |-> clock + ConfirmTTL]]
  /\ wish' = [wish EXCEPT ![c] = [action |-> a, at |-> clock, live |-> TRUE]]
  /\ UNCHANGED <<AlertVars, quiet, cooldown, muteUntil, performed, events>>

Cancel(c) ==
  /\ Command(c)
  /\ pending[c] # NoPending
  /\ pending' = [pending EXCEPT ![c] = NoPending]
  /\ wish' = [wish EXCEPT ![c].live = FALSE]
  /\ UNCHANGED <<AlertVars, quiet, cooldown, muteUntil, performed, events>>

(* Mutant: the age of a confirmation is not looked at.                    *)
NeverExpired(c) == c \notin Chats
Expired(c) == clock > pending[c].expires

ConfirmTooLate(c) ==
  /\ Command(c) /\ pending[c] # NoPending /\ Expired(c)
  /\ pending' = [pending EXCEPT ![c] = NoPending]
  /\ UNCHANGED <<AlertVars, quiet, cooldown, muteUntil, wish, performed, events>>

(* Clearing the events runs in an executor; a restart ends this process,   *)
(* systemd starts a new one, and everything in memory is new.              *)
Record(c, a) ==
  /\ performed.n < MaxPerformed
  /\ performed' = [n |-> performed.n + 1, chat |-> c, action |-> a]
  /\ wish' = [wish EXCEPT ![c].live = FALSE]

ConfirmClear(c) ==
  /\ Command(c) /\ pending[c].action = "clear_events" /\ ~Expired(c)
  /\ pending' = [pending EXCEPT ![c] = NoPending]
  /\ events' \in {FALSE, events}
  /\ Record(c, "clear_events")
  /\ UNCHANGED <<AlertVars, quiet, cooldown, muteUntil>>

ConfirmRestart(c) ==
  /\ Command(c) /\ pending[c].action = "restart_core" /\ ~Expired(c)
  /\ Record(c, "restart_core")
  /\ events' = TRUE
  /\ \/ /\ bot' = "off" /\ loop' = [pc |-> "sleep", at |-> 1]
        /\ sample' = {} /\ quiet' = {} /\ alerts' = {}
        /\ cooldown' = Cooldowns[1] /\ muteUntil' = 0
        /\ lastAlert' = [r \in Resources |-> 0]
        /\ pending' = [d \in Chats |-> NoPending]
     \/ /\ pending' = [pending EXCEPT ![c] = NoPending]   \* systemctl failed
        /\ UNCHANGED <<bot, loop, sample, quiet, cooldown, muteUntil, lastAlert,
                       alerts>>
  /\ UNCHANGED clock

(* /reload and /restart <agent> reload agents and log how each one ended.  *)
ReloadAgents(c) ==
  /\ Command(c)
  /\ events' = TRUE
  /\ UNCHANGED <<AlertVars, quiet, cooldown, muteUntil, pending, wish, performed>>

WatchdogNext ==
  \/ Tick \/ StartBot \/ LoopWake \/ Measured \/ CheckAlert \/ AlertSent
  \/ \E c \in Chats :
       \/ Config(c) \/ Mute(c) \/ Cancel(c) \/ ConfirmTooLate(c)
       \/ \E a \in Actions : Request(c, a)
       \/ ConfirmClear(c) \/ ConfirmRestart(c) \/ ReloadAgents(c)

-----------------------------------------------------------------------------
(* A confirmed action, a restart of the server or the loss of the event    *)
(* log, is the last thing its chat asked for, was neither cancelled nor    *)
(* already done, is at most 30 s old, and comes from a chat of the list,   *)
(* whatever requests, cancellations and restarts lie between.              *)
ConfirmedByRequest ==
  [][performed' # performed =>
       LET p == performed' IN
         /\ wish[p.chat].live /\ wish[p.chat].action = p.action
         /\ clock - wish[p.chat].at <= ConfirmTTL
         /\ Allowed # {} => p.chat \in Allowed]_watchdogVars

WatchdogSpec == WatchdogInit /\ [][WatchdogNext]_watchdogVars

=============================================================================
