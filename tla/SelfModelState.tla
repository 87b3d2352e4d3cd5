---------------------------- MODULE SelfModelState ----------------------------
(***************************************************************************)
(* The self model: core/self_model/self_model.py with the governor that    *)
(* listens to it (core/runtime/governor.py).  Two processes refresh it:    *)
(* the neron-self-model-loop service every five seconds, and the server    *)
(* when a route asks.  Both keep all they know in one JSON file, which     *)
(* every method reads, merges and replaces through the same .tmp file.     *)
(*                                                                         *)
(* One action is one file access.  Of the file the model keeps the runtime *)
(* mode and its bookkeeping (the cognitive state has the same life), what  *)
(* the refresh concludes from it, and what the server notes of its events. *)
(***************************************************************************)
EXTENDS Integers, Sequences, FiniteSetsExt, Functions, TLC

CONSTANTS
  Refreshers,  \* the processes that refresh: {"loop"}, {"loop", "server"}
  Samples,     \* readings of the machine the instance tells apart
  Actions,     \* tallies of the last 50 actions of action_history.jsonl
  Kinds,       \* events the server hears of: {"intent", "agent", "alert"}
  Settle,      \* refreshes in the 30 s before an ordinary change is recorded
  HistMax,     \* the 20 entries runtime_mode_history keeps
  SampleMax,   \* the 10 readings runtime_history keeps
  Many,        \* the 5 of them that make a machine unstable, its peaks frequent
  EventMax,    \* the 10 of recent_events
  ActivityMax, \* the 8 of recent_activity
  IntentMax,   \* the 5 of intent_history
  MaxRefresh,  \* bound: refreshes
  MaxEvents,   \* bound: events and intents noted
  MaxKills     \* bound: crashes of a process between two file accesses

(* units: do all five critical services answer "active"?  systemctl timing *)
(* out after 2 s is "unknown", so not; health does not look at the fifth,  *)
(* the cognitive loop.                                                     *)
Units == {"all", "no_loop", "fewer"}
Readings == [cpu : 0..100, ram : 0..100, disk : 0..100, swap : 0..100, units : Units]

Tallies == [success : 0..50, blocked : 0..50, failed : 0..50, noop : 0..50]

ASSUME SelfModelAssumption ==
  /\ Refreshers \subseteq {"loop", "server"}
  /\ Samples \subseteq Readings /\ Samples # {} /\ Actions \subseteq Tallies
  /\ Kinds \subseteq {"intent", "agent", "voice", "alert", "other"}
  /\ {Settle, HistMax, SampleMax, Many, EventMax, ActivityMax, IntentMax,
      MaxRefresh, MaxEvents, MaxKills} \subseteq Nat

Modes == {"normal", "prudent", "degraded", "survival"}

(* compute_cognitive_state and compute_runtime_mode.                       *)
Severity(r) ==
  Max({0} \cup (IF r.cpu >= 90 THEN {70} ELSE IF r.cpu >= 75 THEN {45} ELSE {})
              \cup (IF r.ram >= 90 THEN {75} ELSE IF r.ram >= 80 THEN {45} ELSE {})
              \cup (IF r.disk >= 90 THEN {80} ELSE {})
              \cup (IF r.swap >= 50 THEN {50} ELSE {})
              \cup (IF r.units = "all" THEN {} ELSE {85}))

(* The tests are made one after the other: each overwrites the one before. *)
Pressure(r) ==
  CASE r.swap >= 50                                 -> "moderate"
    [] r.swap < 50 /\ (r.disk >= 90 \/ r.ram >= 90) -> "high"
    [] r.swap < 50 /\ r.disk < 90 /\ r.ram \in 80..89 -> "moderate"
    [] r.swap < 50 /\ r.disk < 90 /\ r.ram < 80     ->
         IF r.cpu >= 90 THEN "high" ELSE IF r.cpu >= 75 THEN "moderate" ELSE "normal"

ModeOf(r) ==
  CASE Severity(r) >= 85                    -> "survival"
    [] Severity(r) \in 70..84 \/ (Pressure(r) = "high"
                                   /\ Severity(r) < 85) -> "degraded"
    [] Severity(r) \in 45..69 /\ Pressure(r) # "high"     -> "prudent"
    [] Severity(r) < 45 /\ Pressure(r) = "normal"         -> "normal"

(* RuntimeGovernor.update_from_cognitive_state.                            *)
PolicyFor(mode, severity) == IF severity >= 85 THEN "survival" ELSE mode

LastOf(s, n) == SubSeq(s, (IF Len(s) > n THEN Len(s) - n ELSE 0) + 1, Len(s))
Cut(cond, n) == IF cond THEN n ELSE 0
LevelOf(score, names) ==
  names[IF score >= 80 THEN 1 ELSE IF score >= 50 THEN 2 ELSE 3]

(* compute_runtime_trend over the readings kept, the new one included.     *)
HighPressure(r) == r.cpu >= 90 \/ r.ram >= 90 \/ r.disk >= 90
Spikes(samples) == Cardinality({i \in DOMAIN samples : samples[i].cpu >= 90})
Trend(samples) ==
  LET high == Cardinality({i \in DOMAIN samples : HighPressure(samples[i])})
  IN IF high >= Many THEN "unstable" ELSE IF high >= 2 THEN "variable" ELSE "stable"

(* compute_health, which replaces what _compute_health said before.        *)
Warning(r) == HighPressure(r) \/ r.units = "fewer"

(* compute_cognitive_state: the first test that finds something names the  *)
(* issue, but for a service that is down.                                  *)
Issue(r) ==
  IF r.units # "all" THEN "service"
  ELSE IF r.cpu >= 75 THEN "cpu" ELSE IF r.ram >= 80 THEN "ram"
  ELSE IF r.disk >= 90 THEN "disk" ELSE IF r.swap >= 50 THEN "swap" ELSE "none"

Causes == {"service", "cpu", "ram", "disk", "swap", "none", "voice", "agent",
           "runtime", "unknown"}

(* compute_probable_cause: only for an overloaded processor do the recent  *)
(* activity and events matter.                                             *)
Cause(r, f) ==
  LET mentioned == {x.kind : x \in Range(LastOf(f.activity, 5))}
      alerted == \E x \in Range(LastOf(f.events, 5)) : x.kind = "alert"
  IN IF Issue(r) # "cpu" THEN Issue(r)
     ELSE IF "voice" \in mentioned THEN "voice"
     ELSE IF "agent" \in mentioned THEN "agent"
     ELSE IF alerted THEN "runtime" ELSE "unknown"

(* compute_diagnostics, and from it and the machine the score and the load *)
(* of update_cognitive_snapshot.                                           *)
Diagnostics(r) ==
  (IF Severity(r) >= 45 THEN {"state"} ELSE {})
  \cup (IF Issue(r) # "none" THEN {Issue(r)} ELSE {})
  \cup (IF Pressure(r) # "normal" THEN {"pressure"} ELSE {})
  \cup (IF r.units # "all" THEN {"autonomy", "inactive"} ELSE {})

Stability(r) ==
  LET cut(x, high, low) == IF x >= high THEN 20 ELSE IF x >= low THEN 10 ELSE 0
  IN 100 - cut(r.cpu, 90, 70) - cut(r.ram, 90, 70) - cut(r.disk, 90, 85)
         - Min({Cardinality(Diagnostics(r)) * 10, 30})

Snapshot(r) ==
  [load |-> IF r.cpu >= 85 \/ r.ram >= 85 THEN "high"
            ELSE IF r.cpu >= 50 \/ r.ram >= 60 THEN "moderate" ELSE "low",
   mind |-> IF Diagnostics(r) # {} THEN "diagnostic" ELSE "monitoring",
   stability |-> Stability(r)]

(* The score compute_long_term_state_memory makes of the counts.           *)
Counted(c) == c["normal"] + c["prudent"] + c["degraded"] + c["survival"]
Instability(c) ==
  IF Counted(c) = 0 THEN 0
  ELSE Min({100, ((c["prudent"] + 2 * c["degraded"] + 3 * c["survival"]) * 100)
                 \div Counted(c)})

(* compute_capabilities: what the machine allows the autonomous part.      *)
Autonomy(r) ==
  IF r.units # "all" THEN "unavailable"
  ELSE CASE ModeOf(r) = "survival" -> "minimal"
         [] ModeOf(r) \in {"prudent", "degraded"} -> "partial"
         [] ModeOf(r) = "normal" -> "operational"

(* compute_self_confidence.                                                *)
Confidence(r, samples, c) ==
  LevelOf(100 - Cut(Instability(c) >= 80, 25) - Cut(Instability(c) \in 50..79, 10)
              - Cut(Pressure(r) = "high", 20) - Cut(Pressure(r) = "moderate", 10)
              - Cut(Warning(r), 15) - Cut(r.units # "all", 30)
              - Cut(Spikes(samples) >= Many, 10),
          <<"high", "medium", "low">>)

(* compute_performance_self_evaluation.                                    *)
Evaluation(a, trend, confidence, instability) ==
  LET total == a.success + a.blocked + a.failed + a.noop
      rate == IF total = 0 THEN 0 ELSE (a.success * 100) \div total
  IN LevelOf(100 - Cut(total = 0, 20)
                 - Cut(total > 0 /\ rate < 50, 30)
                 - Cut(total > 0 /\ rate \in 50..79, 15)
                 - Min({20, a.blocked * 5}) - Min({30, a.failed * 10})
                 - Cut(trend = "unstable", 20) - Cut(trend = "variable", 10)
                 - Cut(confidence = "low", 15) - Cut(confidence = "medium", 5)
                 - Cut(instability >= 80, 10),
             <<"good", "medium", "poor">>)

NoTime == 0
NoMode == "unset"
NoCounts == [m \in Modes |-> 0]
NoFile == [mode |-> NoMode, since |-> NoTime, hist |-> <<>>, counted |-> NoCounts,
           seen |-> NoTime, told |-> NoTime, samples |-> <<>>,
           autonomy |-> "none", confidence |-> "none", evaluation |-> "none",
           load |-> "none", mind |-> "none", stability |-> 100,
           listed |-> FALSE,   \* is recent_events in the file yet?
           events |-> <<>>, activity |-> <<>>, intents |-> <<>>, noted |-> 0]
NoPatch == <<>>
NoOwn == [counted |-> NoCounts, seen |-> NoTime, hist |-> <<>>, since |-> NoTime,
          samples |-> <<>>,
          autonomy |-> "none", confidence |-> "none", evaluation |-> "none"]
NoObs == [reading |-> CHOOSE r \in Samples : TRUE, at |-> 0]

VARIABLES
  saved,     \* the JSON file
  tmp,      \* content of the .json.tmp file: <<>> when there is none
  stage,    \* refresh of a process: what it computes
  io,       \* and the file access it is at
  obs,      \* the reading it took, and when
  patch,    \* what it is about to merge
  buf,      \* what it is about to write
  own,      \* what it has computed and will save
  policy,   \* mode of the governor in the server process
  refreshes,    \* refreshes begun so far
  heard,    \* events and intents the server has begun to note
  kills,
  (* history *)
  raced,    \* have refreshes of two processes ever overlapped?
  recorded, \* transitions that entered the file
  emitted   \* times of the transitions published on an event bus

selfVars == <<saved, tmp, stage, io, obs, patch, buf, own, policy,
              refreshes, heard, kills, raced, recorded, emitted>>

Stages == {"idle", "trend", "temporal", "longterm", "capabilities", "confidence",
           "evaluation", "publish", "emit", "save", "snapshot",
           "event", "intent", "activity"}
Change == [at : 0..MaxRefresh, to : Modes, severity : 0..85, cause : Causes]
Item   == [no : 1..MaxEvents, kind : Kinds \cup {"intent"}]

SelfModelTypeOK ==
  /\ \A f \in {saved} \cup {buf[p] : p \in Refreshers} \cup Range(tmp) :
       /\ DOMAIN f = DOMAIN NoFile
       /\ f.mode \in Modes \cup {NoMode} /\ f.hist \in Seq(Change)
       /\ f.counted \in [Modes -> Nat] /\ f.samples \in Seq(Samples)
       /\ {f.events, f.activity, f.intents} \subseteq Seq(Item)
       /\ Len(f.hist) <= HistMax /\ Len(f.samples) <= SampleMax
       /\ Len(f.events) <= EventMax /\ Len(f.activity) <= ActivityMax
       /\ Len(f.intents) <= IntentMax
  /\ Len(tmp) <= 1
  /\ stage \in [Refreshers -> Stages]
  /\ io \in [Refreshers -> {"read", "load", "write", "replace"}]
  /\ obs \in [Refreshers -> [reading : Samples, at : 0..MaxRefresh]]
  /\ policy \in Modes
  /\ refreshes \in 0..MaxRefresh /\ heard \in 0..MaxEvents
  /\ kills \in 0..MaxKills
  /\ raced \in BOOLEAN /\ recorded \in Nat
  /\ emitted \in Seq(0..MaxRefresh)

SelfModelInit ==
  /\ saved = NoFile /\ tmp = <<>>
  /\ stage = [p \in Refreshers |-> "idle"] /\ io = [p \in Refreshers |-> "read"]
  /\ obs = [p \in Refreshers |-> NoObs]
  /\ patch = [p \in Refreshers |-> NoPatch]
  /\ buf = [p \in Refreshers |-> NoFile]
  /\ own = [p \in Refreshers |-> NoOwn]
  /\ policy = "normal" /\ refreshes = 0 /\ heard = 0 /\ kills = 0
  /\ raced = FALSE /\ recorded = 0 /\ emitted = <<>>

-----------------------------------------------------------------------------
Goto(p, s, i) == /\ stage' = [stage EXCEPT ![p] = s]
                 /\ io' = [io EXCEPT ![p] = i]

(* The refresh ends, or dies: what it held is gone.                        *)
Drop(p) == /\ obs' = [obs EXCEPT ![p] = NoObs]
           /\ patch' = [patch EXCEPT ![p] = NoPatch]
           /\ buf' = [buf EXCEPT ![p] = NoFile]
           /\ own' = [own EXCEPT ![p] = NoOwn]

Begins(p) == /\ stage[p] = "idle"
             /\ raced' = (raced \/ \E q \in Refreshers : stage[q] # "idle")

Refresh(p) ==
  /\ Begins(p) /\ refreshes < MaxRefresh
  /\ refreshes' = refreshes + 1
  /\ \E r \in Samples : obs' = [obs EXCEPT ![p] = [reading |-> r, at |-> refreshes + 1]]
  /\ Goto(p, "trend", "read")
  /\ UNCHANGED <<saved, tmp, patch, buf, own, policy, heard, kills, recorded, emitted>>

(* compute_temporal_state: a change is recorded when the previous mode     *)
(* lasted 30 s, or when the new one is survival.                           *)
TemporalPatch(p) ==
  LET o == obs[p]
      mode == ModeOf(o.reading)
      changed == saved.mode \notin {NoMode, mode}
      lasting == o.at - saved.since >= Settle \/ mode = "survival"
  IN [mode |-> mode,
      since |-> IF saved.mode # mode THEN o.at ELSE saved.since,
      hist |-> IF changed /\ lasting
               THEN LastOf(Append(saved.hist,
                                  [at |-> o.at, to |-> mode,
                                   severity |-> Severity(o.reading),
                                   cause |-> Cause(o.reading, saved)]), HistMax)
               ELSE saved.hist]

(* compute_long_term_state_memory counts the entries it has not seen.      *)
Unseen(f) == {i \in DOMAIN f.hist : f.hist[i].at > f.seen}
CountedWith(f) ==
  [m \in Modes |-> f.counted[m] + Cardinality({i \in Unseen(f) : f.hist[i].to = m})]
(* Mutant: the last entry counted is not remembered.                      *)
LongTermForgets == [counted |-> CountedWith(saved), seen |-> saved.seen]

LongTermPatch ==
  [counted |-> CountedWith(saved),
   seen |-> Max({saved.seen} \cup {saved.hist[i].at : i \in Unseen(saved)})]

(* What each step of the refresh merges, from the file and from what the   *)
(* process has computed so far.  The outcomes of the actions are read from *)
(* a file of their own.                                                    *)
StepPatches(p) ==
  LET r == obs[p].reading
      o == own[p]
  IN CASE stage[p] = "trend" ->
            {[samples |-> LastOf(Append(saved.samples, r), SampleMax)]}
       [] stage[p] = "temporal" -> {TemporalPatch(p)}
       [] stage[p] = "longterm" -> {LongTermPatch}
       [] stage[p] = "capabilities" -> {[autonomy |-> Autonomy(r)]}
       [] stage[p] = "confidence" ->
            {[confidence |-> Confidence(r, o.samples, o.counted)]}
       [] stage[p] = "evaluation" ->
            {[evaluation |-> Evaluation(a, Trend(o.samples), o.confidence,
                                        Instability(o.counted))] : a \in Actions}

(* A field of a patch replaces the one of the file, a list is joined to it.*)
Over(f, q) == [k \in DOMAIN f |-> IF k \in DOMAIN q THEN q[k] ELSE f[k]]

ComputeStep(p) ==
  /\ stage[p] \in {"trend", "temporal", "longterm", "capabilities", "confidence",
                   "evaluation"}
  /\ io[p] = "read"
  /\ \E q \in StepPatches(p) : /\ patch' = [patch EXCEPT ![p] = q]
                               /\ own' = [own EXCEPT ![p] = Over(@, q)]
  /\ Goto(p, stage[p], "load")
  /\ UNCHANGED <<saved, tmp, obs, buf, policy, refreshes, heard, kills, raced,
                 recorded, emitted>>

(* publish_temporal_events: the last change, if it began the current mode  *)
(* and was not published yet.                                              *)
Due(o) == /\ o.hist # <<>>
          /\ o.hist[Len(o.hist)].at = o.since
          /\ o.since # saved.told

(* Only the loop calls save_state after refresh.                           *)
Finished(p) ==
  IF p = "loop" THEN Goto(p, "save", "read") /\ UNCHANGED <<obs, patch, buf, own>>
  ELSE Goto(p, "idle", "read") /\ Drop(p)

ReadPublish(p) ==
  /\ stage[p] = "publish" /\ io[p] = "read"
  /\ IF Due(own[p])
     THEN /\ patch' = [patch EXCEPT ![p] = [told |-> own[p].since]]
          /\ Goto(p, "publish", "load")
          /\ UNCHANGED <<obs, buf, own>>
     ELSE Finished(p)
  /\ UNCHANGED <<saved, tmp, policy, refreshes, heard, kills, raced,
                 recorded, emitted>>

(* _merge_state: load, apply the patch, write .tmp, replace.               *)
ListMax == [events |-> EventMax, activity |-> ActivityMax, intents |-> IntentMax]
Joined(s, new, n) ==
  LET merged == s \o new
      unique[i \in 0..Len(merged)] ==
        IF i = 0 THEN <<>>
        ELSE IF merged[i] \in Range(unique[i - 1]) THEN unique[i - 1]
        ELSE Append(unique[i - 1], merged[i])
  IN LastOf(unique[Len(merged)], n)
Patched(f, q) ==
  Over(f, [k \in DOMAIN q |-> IF k \in DOMAIN ListMax THEN Joined(f[k], q[k], ListMax[k])
                              ELSE q[k]])

Load(p) ==
  /\ io[p] = "load"
  /\ buf' = [buf EXCEPT ![p] = Patched(saved, patch[p])]
  /\ Goto(p, stage[p], "write")
  /\ UNCHANGED <<saved, tmp, obs, patch, own, policy, refreshes, heard, kills, raced,
                 recorded, emitted>>

WriteTmp(p) ==
  /\ io[p] = "write"
  /\ tmp' = <<buf[p]>>
  /\ buf' = [buf EXCEPT ![p] = NoFile]
  /\ Goto(p, stage[p], "replace")
  /\ UNCHANGED <<saved, obs, patch, own, policy, refreshes, heard, kills, raced,
                 recorded, emitted>>

(* The loop ends with update_cognitive_snapshot, one more merge.           *)
After == [trend |-> "temporal", temporal |-> "longterm", longterm |-> "capabilities",
          capabilities |-> "confidence", confidence |-> "evaluation",
          evaluation |-> "publish", publish |-> "emit",
          save |-> "snapshot", snapshot |-> "idle",
          intent |-> "activity", event |-> "idle", activity |-> "idle"]

Replace(p) ==
  /\ io[p] = "replace" /\ tmp # <<>>
  /\ saved' = tmp[1] /\ tmp' = <<>>
  /\ recorded' = IF stage[p] = "temporal" /\ saved.hist # tmp[1].hist
                 THEN recorded + 1 ELSE recorded
  /\ Goto(p, After[stage[p]], IF stage[p] = "save" THEN "load" ELSE "read")
  /\ IF After[stage[p]] = "idle" THEN Drop(p) ELSE UNCHANGED <<obs, patch, buf, own>>
  /\ UNCHANGED <<policy, refreshes, heard, kills, raced, emitted>>

(* The other process has replaced the .tmp file already: the exception     *)
(* ends the refresh.                                                       *)
ReplaceFails(p) ==
  /\ io[p] = "replace" /\ tmp = <<>>
  /\ Goto(p, "idle", "read") /\ Drop(p)
  /\ UNCHANGED <<saved, tmp, policy, refreshes, heard, kills, raced, recorded,
                 emitted>>

(* The event goes to the bus of the process that refreshed; only in the    *)
(* server does the governor subscribe to it.                               *)
Emit(p) ==
  /\ stage[p] = "emit"
  /\ emitted' = Append(emitted, patch[p].told)
  /\ policy' = IF p = "server" THEN PolicyFor(ModeOf(obs[p].reading), Severity(obs[p].reading))
               ELSE policy
  /\ Finished(p)
  /\ UNCHANGED <<saved, tmp, refreshes, heard, kills, raced, recorded>>

(* save_state of the loop: the file as read, over it what the process has. *)
ReadSave(p) ==
  /\ stage[p] = "save" /\ io[p] = "read"
  /\ buf' = [buf EXCEPT ![p] =
       [saved EXCEPT !.counted = own[p].counted, !.seen = own[p].seen,
                     !.autonomy = own[p].autonomy, !.confidence = own[p].confidence,
                     !.evaluation = own[p].evaluation]]
  /\ patch' = [patch EXCEPT ![p] = Snapshot(obs[p].reading)]
  /\ Goto(p, "save", "write")
  /\ UNCHANGED <<saved, tmp, obs, own, policy, refreshes, heard, kills, raced,
                 recorded, emitted>>

(* update_from_event, for an event of the server's bus.  The list of the   *)
(* first one is read again before it is written, empty: only from the      *)
(* second on are the events themselves kept.                               *)
EventPatch(x) ==
  [k \in {"noted", "listed", "events", "activity"}
         \cup (IF x.kind = "intent" THEN {"intents"} ELSE {}) |->
     CASE k = "noted" -> saved.noted + 1
       [] k = "listed" -> TRUE
       [] k = "events" -> IF saved.listed THEN Append(saved.events, x) ELSE <<>>
       [] k = "activity" -> LastOf(Append(saved.activity, x), ActivityMax)
       [] k = "intents" -> LastOf(Append(saved.intents, x), IntentMax)]

(* Without a file the handler would first refresh: not modelled.           *)
HandleEvent(p) ==
  /\ p = "server" /\ Begins(p) /\ heard < MaxEvents /\ saved.mode # NoMode
  /\ heard' = heard + 1
  /\ \E k \in Kinds :
       patch' = [patch EXCEPT ![p] = EventPatch([no |-> heard + 1, kind |-> k])]
  /\ Goto(p, "event", "load")
  /\ UNCHANGED <<saved, tmp, obs, buf, own, policy, refreshes, kills, recorded, emitted>>

(* set_last_intent of the router, then add_recent_activity.                *)
NoteIntent(p) ==
  /\ p = "server" /\ Begins(p) /\ heard < MaxEvents /\ saved.mode # NoMode
  /\ heard' = heard + 1
  /\ patch' = [patch EXCEPT ![p] = [noted |-> saved.noted + 1,
                    intents |-> <<[no |-> heard + 1, kind |-> "intent"]>>]]
  /\ Goto(p, "intent", "load")
  /\ UNCHANGED <<saved, tmp, obs, buf, own, policy, refreshes, kills, recorded, emitted>>

NoteActivity(p) ==
  /\ stage[p] = "activity" /\ io[p] = "read"
  /\ patch' = [patch EXCEPT ![p] =
       [activity |-> LastOf(Append(saved.activity, [no |-> heard, kind |-> "intent"]),
                            ActivityMax)]]
  /\ Goto(p, "activity", "load")
  /\ UNCHANGED <<saved, tmp, obs, buf, own, policy, refreshes, heard, kills, raced,
                 recorded, emitted>>

KillRefresher(p) ==
  /\ stage[p] # "idle" /\ kills < MaxKills
  /\ kills' = kills + 1
  /\ Goto(p, "idle", "read") /\ Drop(p)
  /\ policy' = IF p = "server" THEN "normal" ELSE policy
  /\ UNCHANGED <<saved, tmp, refreshes, heard, raced, recorded, emitted>>

SelfModelNext ==
  \E p \in Refreshers :
    \/ Refresh(p) \/ ComputeStep(p) \/ ReadPublish(p)
    \/ HandleEvent(p) \/ NoteIntent(p) \/ NoteActivity(p)
    \/ Load(p) \/ WriteTmp(p) \/ Replace(p) \/ ReplaceFails(p) \/ Emit(p)
    \/ ReadSave(p) \/ KillRefresher(p)

SelfModelSpec == SelfModelInit /\ [][SelfModelNext]_selfVars

-----------------------------------------------------------------------------
(* While no two processes refreshed at once: whatever file access one dies *)
(* at, every recorded change of mode is in the long-term counts once or    *)
(* still waits in the history to be counted, and no change is published    *)
(* twice, though a later refresh makes good one that died before it.       *)
ChangesHandledOnce ==
  ~raced => /\ Counted(saved.counted) + Cardinality(Unseen(saved)) = recorded
            /\ \A i, j \in DOMAIN emitted : emitted[i] = emitted[j] => i = j

=============================================================================
