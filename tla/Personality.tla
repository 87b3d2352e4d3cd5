------------------------------ MODULE Personality ------------------------------
(***************************************************************************)
(* The persona of the assistant: the settings a user changes by remarks    *)
(* ("trop long", "mode focus") and the route /personality/reset, kept in   *)
(* the table persona_state, and the log of the changes, persona_history.   *)
(*                                                                         *)
(* A remark is analysed and written without an await; each setting is a    *)
(* transaction of its own, and SQLite may fail, or the server die, at any  *)
(* of them.                                                                *)
(***************************************************************************)
EXTENDS Naturals, Sequences, FiniteSetsExt, TLC

CONSTANTS
  MaxPhrases,   \* bound: rows of the matrix one remark matches
  MaxHistory    \* bound: changes logged

ASSUME PersonaAssumption == MaxPhrases \in Nat /\ MaxHistory \in Nat

VARIABLES
  persona,   \* persona_state: key -> its leaves; the empty function: no row
  seeded,    \* history: what the table was filled with
  changes,   \* persona_history
  outcome     \* what the last remark was answered with

personaVars == <<persona, seeded, changes, outcome>>

(* INTENT_MATRIX: what a remark of each kind sets; a key of the first      *)
(* level is a section of one leaf.                                         *)
Row(section, field, value) == [key |-> section, field |-> field, value |-> value]
IntentMatrix ==
  <<Row("communication", "verbosity", "low"), Row("communication", "verbosity", "high"),
    Row("communication", "verbosity", "medium"), Row("communication", "tone", "direct"),
    Row("communication", "tone", "bienveillant"), Row("communication", "tone", "technique"),
    Row("behavior", "proactive", FALSE), Row("behavior", "proactive", TRUE),
    Row("learning", "enabled", FALSE), Row("learning", "enabled", TRUE),
    Row("energy_level", "value", "high"), Row("energy_level", "value", "low"),
    Row("energy_level", "value", "normal"), Row("mood", "value", "neutre"),
    Row("mood", "value", "positif"), Row("mood", "value", "focus")>>
Keys == {IntentMatrix[i].key : i \in DOMAIN IntentMatrix}

Absent == <<>>

(* persona_state.json.                                                     *)
Seed ==
  [k \in Keys |->
     CASE k = "communication" -> ("verbosity" :> "medium" @@ "tone" :> "technique")
       [] k = "behavior" -> ("proactive" :> TRUE)
       [] k = "learning" -> ("enabled" :> TRUE)
       [] k = "mood" -> ("value" :> "neutre")
       [] k = "energy_level" -> ("value" :> "normal")]

NoRows == [k \in Keys |-> Absent]

PersonaInit ==
  /\ persona = NoRows /\ seeded = NoRows /\ changes = <<>> /\ outcome = "none"

-----------------------------------------------------------------------------
(* _init_db, at every connection: an empty table is filled from the file,  *)
(* if that can be read.                                                    *)
Connected(table) == IF persona = NoRows THEN table ELSE persona

(* A section with one of its leaves set.                                   *)
With(old, row) ==
  [f \in {row.field} \cup DOMAIN old |-> IF f = row.field THEN row.value ELSE old[f]]

(* Mutant: a change that changes nothing is logged.                        *)
LogAll(db, row) ==
  LET new == With(db.persona[row.key], row)
  IN [persona |-> [db.persona EXCEPT ![row.key] = new],
      changes |-> Append(db.changes, [key |-> row.key, old |-> db.persona[row.key], new |-> new])]

(* _write_nested, _write_field: the whole section is written and logged,   *)
(* if that changes it.                                                     *)
Written(db, row) ==
  LET old == db.persona[row.key]
      new == With(old, row)
  IN IF old = new THEN db
     ELSE [persona |-> [db.persona EXCEPT ![row.key] = new],
           changes |-> Append(db.changes, [key |-> row.key, old |-> old, new |-> new])]

(* The first n of the rows are written one after the other, each committed *)
(* for itself: at the first that fails the rest is given up.               *)
AfterRows(before, rows, n) ==
  LET db[m \in 0 .. n] ==
        IF m = 0 THEN before ELSE Written(db[m - 1], rows[m])
  IN db[n]

WriteRows(rows) ==
  \E table \in {NoRows, Seed}, n \in 0 .. Len(rows) :
    LET before == [persona |-> Connected(table), changes |-> changes]
        after == AfterRows(before, rows, n)
    IN /\ Len(after.changes) <= MaxHistory
       /\ persona' = after.persona /\ changes' = after.changes
       /\ seeded' = IF persona = NoRows THEN table ELSE seeded
       /\ outcome' = IF n = Len(rows) /\ after.changes # changes THEN "changed"
                    ELSE "nothing to change"

(* update_from_feedback: _analyse_intent takes the matching rows in the    *)
(* order of the matrix; contradicting ones are all written, the last wins. *)
(* In the static mode ("mode statique") it does so all the same.  A remark *)
(* that fails half-way is answered as one that changed nothing.            *)
Remark ==
  \E n \in 1 .. MaxPhrases :
    \E at \in [1 .. n -> DOMAIN IntentMatrix] :
      /\ \A i \in 1 .. (n - 1) : at[i] < at[i + 1]
      /\ WriteRows([i \in 1 .. n |-> IntentMatrix[at[i]]])

(* POST /personality/reset: mood and energy only.  Each of the two calls   *)
(* of force_update catches its own failure.                                *)
Reset ==
  LET mood == Row("mood", "value", "neutre")
      energy == Row("energy_level", "value", "normal")
  IN \E rows \in {<<mood, energy>>, <<mood>>, <<energy>>} : WriteRows(rows)

PersonaNext == Remark \/ Reset

PersonaSpec == PersonaInit /\ [][PersonaNext]_personaVars

-----------------------------------------------------------------------------
PersonaTypeOK ==
  /\ DOMAIN persona = Keys /\ Len(changes) <= MaxHistory
  /\ outcome \in {"none", "changed", "nothing to change"}

(* What section k held after the first n entries of a log.                 *)
ValueAfter(log, from, k, n) ==
  LET at == {i \in 1 .. n : log[i].key = k}
  IN IF at = {} THEN from[k] ELSE log[Max(at)].new

Explained(db, from) ==
  /\ \A k \in Keys : db.persona[k] = ValueAfter(db.changes, from, k, Len(db.changes))
  /\ \A i \in DOMAIN db.changes :
       /\ db.changes[i].old = ValueAfter(db.changes, from, db.changes[i].key, i - 1)
       /\ db.changes[i].old # db.changes[i].new

(* "Écrit un champ dans SQLite et journalise le changement" (updater.py):  *)
(* the log read from its beginning leads from the values the table was     *)
(* filled with to those it holds, section by section and with no step that *)
(* changes nothing, whatever failed half-way through a remark.             *)
HistoryExplainsState == Explained([persona |-> persona, changes |-> changes], seeded)
=============================================================================
