------------------------------- MODULE CodeAgent -------------------------------
(***************************************************************************)
(* What the server writes of code on request: CodeAgent, which generates   *)
(* files in its workspace and improves, reads, analyses and restores those *)
(* under its root; CodeAuditAgent, which only reads; and the scheduled     *)
(* jobs over the same files.                                               *)
(*                                                                         *)
(* Each request is a coroutine that awaits the LLM, then the check of the  *)
(* syntax, then, if it generates, the sandbox: meanwhile others write.     *)
(* Backups are named for the second of the local clock, which is set back  *)
(* once a year.  The text of a file is the number of its version.          *)
(***************************************************************************)
EXTENDS Integers, Sequences, FiniteSets, FiniteSetsExt

CONSTANTS
  Jobs,          \* bound: requests
  Sources,       \* files under _NERON_ROOT
  Drafts,        \* files of _WORKSPACE, generateur.py among them
  Generator,     \* generateur.py
  Stems,         \* path -> the name its backups have ("/" becomes "_")
  KeptBackups,   \* backups that _backup keeps of a name (10)
  MaxVersions,   \* bound: texts written
  MaxSeconds     \* bound: readings of the clock

ASSUME BackupsAssumption == {KeptBackups, MaxVersions, MaxSeconds} \subseteq Nat \ {0}
ASSUME FilesAssumption == Generator \in Drafts /\ Sources \cap Drafts = {}

Paths == Sources \cup Drafts
Gone == 0    \* no such file

VARIABLES
  text,       \* path -> version, or Gone
  backups,    \* name of a backup -> second -> version
  second,     \* the local clock
  setBack,    \* history: the clock has been set back
  replaced,   \* history: the version that was overwritten last
  fresh,      \* drafts written within seven days
  versions,   \* texts written so far
  readme,     \* how the last run of the generator ended
  job         \* the requests

codeVars == <<text, backups, second, setBack, replaced, fresh, versions, readme, job>>

CodeInit ==
  /\ text = [p \in Paths |-> IF p \in Sources \cup {Generator} THEN 1 ELSE Gone]
  /\ backups = [s \in {Stems[p] : p \in Paths} |-> <<>>]
  /\ second = 1 /\ setBack = FALSE /\ replaced = [p \in Paths |-> Gone]
  /\ fresh = {Generator} /\ versions = 1 /\ readme = "none"
  /\ job = [j \in Jobs |-> [pc |-> "idle", action |-> "none", path |-> Generator]]

-----------------------------------------------------------------------------
(* Mutant: the rotation drops the last of the names, not the first.        *)
RotateLast(seconds) == {s \in seconds : Cardinality({r \in seconds : r < s}) < KeptBackups}

(* The rotation of _backup: the names sort by their second.                *)
Rotate(seconds) == {s \in seconds : Cardinality({r \in seconds : r > s}) < KeptBackups}

(* _backup: a second backup within a second takes the name of the first.   *)
Backup(p) ==
  LET held == backups[Stems[p]]
  IN [backups EXCEPT ![Stems[p]] =
        [s \in Rotate(DOMAIN held \cup {second}) |->
           IF s = second THEN text[p] ELSE held[s]]]

(* A file is saved and overwritten without an await in between.            *)
Overwrite(p) ==
  /\ versions < MaxVersions /\ versions' = versions + 1
  /\ text' = [text EXCEPT ![p] = versions']
  /\ IF text[p] = Gone THEN UNCHANGED <<backups, replaced>>
     ELSE backups' = Backup(p) /\ replaced' = [replaced EXCEPT ![p] = text[p]]
  /\ fresh' = IF p \in Drafts THEN fresh \cup {p} ELSE fresh

CodeFiles == <<text, backups, replaced, fresh, versions>>
CodeClock == <<second, setBack, readme>>
Await(j, pc) == job' = [job EXCEPT ![j].pc = pc]

(* execute: the action is given or read from the text; app.py always gives *)
(* a path.  A draft is named as a file of the workspace, whatever folder   *)
(* was asked for; every other action looks under the root, where a file    *)
(* that is missing is refused.                                             *)
Demand(j) ==
  /\ job[j].pc = "idle"
  /\ \E action \in {"generate", "improve", "review", "audit"}, p \in Paths :
       /\ p \in Drafts <=> action = "generate"
       /\ job' = [job EXCEPT ![j] = [pc |-> "llm", action |-> action, path |-> p]]
  /\ UNCHANGED CodeFiles /\ UNCHANGED CodeClock

(* read, and whatever is refused at once: nothing is written.              *)
Glance(j) ==
  /\ job[j].pc = "idle" /\ Await(j, "done")
  /\ UNCHANGED CodeFiles /\ UNCHANGED CodeClock

(* The newest backup of the name replaces the file, which is not saved.    *)
Rollback(j) ==
  /\ job[j].pc = "idle" /\ Await(j, "done")
  /\ \E p \in Sources :
       LET held == backups[Stems[p]]
       IN IF held = <<>> THEN UNCHANGED text
          ELSE text' = [text EXCEPT ![p] = held[Max(DOMAIN held)]]
  /\ UNCHANGED <<backups, replaced, fresh, versions>> /\ UNCHANGED CodeClock

(* _llm_call, twice at most: no answer fails a generation, and is told as  *)
(* an improvement that is not needed.                                      *)
AnswerLLM(j) ==
  /\ job[j].pc = "llm" /\ job[j].action \in {"generate", "improve"}
  /\ Await(j, "done") \/ Await(j, "syntax")
  /\ UNCHANGED CodeFiles /\ UNCHANGED CodeClock

(* analyze, self_review: of the file, or of four files at a time, something*)
(* is reported, if only that the LLM did not answer.                       *)
Review(j) ==
  /\ job[j].pc = "llm" /\ job[j].action = "review" /\ Await(j, "done")
  /\ UNCHANGED CodeFiles /\ UNCHANGED CodeClock

(* CodeAuditAgent has no backups and writes nothing.                       *)
Audit(j) ==
  /\ job[j].pc = "llm" /\ job[j].action = "audit" /\ Await(j, "done")
  /\ UNCHANGED CodeFiles /\ UNCHANGED CodeClock

(* _check_syntax: what does not compile is not written.  An improvement    *)
(* may by now replace another text than the one it was made of.            *)
CheckSyntax(j) ==
  /\ job[j].pc = "syntax"
  /\ \/ Await(j, "done") /\ UNCHANGED CodeFiles
     \/ /\ Overwrite(job[j].path)
        /\ Await(j, IF job[j].action = "generate" THEN "sandbox" ELSE "done")
  /\ UNCHANGED CodeClock

(* _sandbox_test: it is killed after ten seconds; the file stays.          *)
Sandbox(j) ==
  /\ job[j].pc = "sandbox" /\ Await(j, "done")
  /\ UNCHANGED CodeFiles /\ UNCHANGED CodeClock

-----------------------------------------------------------------------------
(* Time passes; in October the clock is set back.                          *)
SecondPasses ==
  /\ second < MaxSeconds /\ second' = second + 1
  /\ UNCHANGED <<setBack, readme, job>> /\ UNCHANGED CodeFiles

SetBack ==
  /\ second > 1 /\ ~setBack /\ second' = 1 /\ setBack' = TRUE
  /\ UNCHANGED <<readme, job>> /\ UNCHANGED CodeFiles

WeekPasses ==
  /\ fresh # {} /\ fresh' = {}
  /\ UNCHANGED <<text, backups, replaced, versions, job>> /\ UNCHANGED CodeClock

(* _task_workspace_cleanup: every *.py, the generator's own file included. *)
CleanWorkspace ==
  /\ text' = [p \in Paths |-> IF p \in Drafts \ fresh THEN Gone ELSE text[p]]
  /\ UNCHANGED <<backups, replaced, fresh, versions, job>> /\ UNCHANGED CodeClock

(* _task_generate_readme.                                                  *)
GenerateReadme ==
  /\ readme' = IF text[Generator] = Gone THEN "failed" ELSE "written"
  /\ UNCHANGED <<second, setBack, job>> /\ UNCHANGED CodeFiles

CodeNext ==
  \/ \E j \in Jobs :
       \/ Demand(j) \/ Glance(j) \/ Rollback(j) \/ AnswerLLM(j)
       \/ Review(j) \/ Audit(j) \/ CheckSyntax(j) \/ Sandbox(j)
  \/ SecondPasses \/ SetBack \/ WeekPasses \/ CleanWorkspace \/ GenerateReadme

CodeSpec == CodeInit /\ [][CodeNext]_codeVars

-----------------------------------------------------------------------------
CodeTypeOK ==
  /\ text \in [Paths -> 0 .. MaxVersions] /\ second \in 1 .. MaxSeconds
  /\ \A s \in DOMAIN backups : Cardinality(DOMAIN backups[s]) <= KeptBackups
  /\ fresh \subseteq Drafts

(* "rollback : restaure le dernier backup d'un fichier" (code_agent/       *)
(* agent.py): while the clock only went forward, the newest backup of a    *)
(* file whose backup name no other file has is the text that was replaced  *)
(* last, whichever of several interleaved requests replaced it, however    *)
(* many there were within a second and whatever the rotation dropped.      *)
OwnName(p) == \A q \in Paths \ {p} : Stems[q] # Stems[p]
LastReplacedIsRestorable ==
  \A p \in Paths :
    OwnName(p) /\ ~setBack /\ replaced[p] # Gone =>
      LET held == backups[Stems[p]]
      IN held # <<>> /\ held[Max(DOMAIN held)] = replaced[p]
=============================================================================
