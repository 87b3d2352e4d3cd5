---------------------------- MODULE AnomalyRules ----------------------------
(***************************************************************************)
(* The AnomalyDetector and the health score of                             *)
(* core/agents/automation/watchdog_agent.py over the events table that     *)
(* log_event fills and /clear empties.  read_events returns the entries of *)
(* the last seven days in the order of their timestamps.                   *)
(***************************************************************************)
EXTENDS Integers, FiniteSets, SequencesExt

CONSTANTS
  Services,      \* services that crash
  Minute,        \* 60 s, in units of time
  RestartWindow, \* the 300 s in which a crash follows a recovery
  Day, Week,     \* an hour of the day comes back after Day; read_events
  MaxGap,        \* bound: time between two entries
  MaxLog         \* bound: entries of the table

ASSUME AnomalyAssumption ==
  /\ {Minute, RestartWindow, Day, Week} \subseteq Nat \ {0}
  /\ MaxGap \in Nat /\ MaxLog \in Nat

Kinds == {"crash", "recovery", "instability", "manual_required"}
Entry == [type : Kinds, service : Services, at : Nat]

VARIABLES
  table,  \* the events table
  found   \* what get_anomalies and get_health_score last returned

anomalyVars == <<table, found>>

-----------------------------------------------------------------------------
(* The entries of s that are in S, in their order.                          *)
Among(s, S) ==
  LET among[n \in 0 .. Len(s)] ==
        IF n = 0 THEN <<>>
        ELSE IF s[n] \in S THEN Append(among[n - 1], s[n]) ELSE among[n - 1]
  IN among[Len(s)]
OfKind(s, k) == Among(s, {e \in ToSet(s) : e.type = k})
OfService(s, v) == Among(s, {e \in ToSet(s) : e.service = v})
Read == Among(table, {e \in ToSet(table) : Last(table).at - e.at < Week})

(* Three crashes of a service at the same hour, of whatever day.           *)
Recurring(s) ==
  {v \in Services :
     LET c == OfService(OfKind(s, "crash"), v)
     IN \E i \in DOMAIN c : \E j \in i+1..Len(c) : \E k \in j+1..Len(c) :
          c[i].at % Day = c[j].at % Day /\ c[j].at % Day = c[k].at % Day}

(* detect_cascade walks the crashes once: from a crash it takes what       *)
(* follows within a minute; three make a cascade, and it goes on behind    *)
(* it, otherwise with the next crash.                                      *)
WindowEnd(c, i) ==
  CHOOSE j \in i..Len(c) : /\ c[j].at - c[i].at <= Minute
                           /\ \A k \in j+1..Len(c) : c[k].at - c[i].at > Minute

(* Mutant: a cascade is skipped as a single crash, so it is reported again.*)
CascadeStartsSlow(c) ==
  {i \in DOMAIN c : WindowEnd(c, i) >= i + 2}

CascadeStarts(c) ==
  LET starts[i \in 1..Len(c)+1] ==
        IF i > Len(c) THEN {}
        ELSE IF WindowEnd(c, i) >= i + 2
             THEN {i} \cup starts[WindowEnd(c, i) + 1]
             ELSE starts[i + 1]
  IN starts[1]

AfterRestart(s) ==
  {v \in Services :
     \E i, j \in DOMAIN s :
       /\ s[i].service = v /\ s[j].service = v
       /\ s[i].type = "recovery" /\ s[j].type = "crash"
       /\ s[j].at - s[i].at \in 1..RestartWindow-1}

(* The mean interval between crashes halves from the first half of the     *)
(* intervals to the second; sums of intervals telescope.                   *)
Faster(s) ==
  {v \in Services :
     LET c == OfService(OfKind(s, "crash"), v)
         n == Len(c) - 1
         mid == n \div 2
     IN /\ Len(c) >= 4
        /\ 2 * mid * (c[n + 1].at - c[mid + 1].at)
             < (n - mid) * (c[mid + 1].at - c[1].at)
        /\ c[mid + 1].at - c[1].at > Minute * mid}

Anomalies(s) == [recurring_crash |-> Recurring(s),
                 cascade |-> Cardinality(CascadeStarts(OfKind(s, "crash"))),
                 crash_after_restart |-> AfterRestart(s),
                 increasing_frequency |-> Faster(s)]

HealthScore(s) ==
  LET n(k) == Len(OfKind(s, k))
      raw == 100 - 2 * n("crash") - 15 * n("manual_required")
               - 5 * n("instability") + n("recovery")
  IN IF raw < 0 THEN 0 ELSE IF raw > 100 THEN 100 ELSE raw

Level(score) == CASE score >= 90 -> "excellent" [] score \in 75..89 -> "good"
                  [] score \in 50..74 -> "degraded" [] score < 50 -> "critical"

-----------------------------------------------------------------------------
AnomalyInit ==
  /\ table = <<>>
  /\ found = [anomalies |-> Anomalies(<<>>), level |-> Level(HealthScore(<<>>))]

LogEvent(k, v) ==
  /\ Len(table) < MaxLog
  /\ \E gap \in 0..MaxGap :
       table' = Append(table, [type |-> k, service |-> v,
          at |-> (IF table = <<>> THEN 0 ELSE Last(table).at) + gap])
  /\ UNCHANGED found

ClearEvents == table # <<>> /\ table' = <<>> /\ UNCHANGED found

Analyse ==
  /\ table # <<>>
  /\ found' = [anomalies |-> Anomalies(Read), level |-> Level(HealthScore(Read))]
  /\ UNCHANGED table

AnomalyNext == \/ \E k \in Kinds, v \in Services : LogEvent(k, v)
               \/ ClearEvents \/ Analyse

AnomalySpec == AnomalyInit /\ [][AnomalyNext]_anomalyVars

AnomalyTypeOK ==
  /\ table \in Seq(Entry)
  /\ found.anomalies \in [recurring_crash : SUBSET Services, cascade : Nat,
                          crash_after_restart : SUBSET Services,
                          increasing_frequency : SUBSET Services]
  /\ found.level \in {"excellent", "good", "degraded", "critical"}

(* The single walk over the crashes loses nothing: every crash that begins *)
(* three within a minute is part of one reported cascade, and of only one. *)
CascadesPartition ==
  LET c == OfKind(table, "crash")
      starts == CascadeStarts(c)
  IN \A i \in DOMAIN c :
       /\ i + 2 <= Len(c) /\ c[i + 2].at - c[i].at <= Minute
            => \E s \in starts : i \in s..WindowEnd(c, s)
       /\ \A s, t \in starts :
            i \in s..WindowEnd(c, s) /\ i \in t..WindowEnd(c, t) => s = t
=============================================================================
