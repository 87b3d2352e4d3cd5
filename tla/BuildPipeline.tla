---------------------------- MODULE BuildPipeline ----------------------------
(***************************************************************************)
(* The building of agents: AgentBuildOrchestrator, the projects it keeps   *)
(* in projects.json, the generated agents and their registry.              *)
(*                                                                         *)
(* A build is a coroutine of the server that suspends nowhere, nor do the  *)
(* agents it generates: it holds the event loop until it has ended.  The   *)
(* evolution supervisor writes the same projects.json from a thread of its *)
(* own: no lock keeps the two from interleaving, and a save first empties  *)
(* the file.  The server may crash and restart.                            *)
(***************************************************************************)
EXTENDS Integers, Sequences, FiniteSets, TLC

CONSTANTS
  Builds,       \* bound: requests to build an agent
  Specs,        \* the agents they ask for: [name, sig]
  MaxMission,   \* bound: updates of the mission's project
  MaxCrashes    \* bound: crashes

ASSUME BuildAssumption == Specs # {} /\ {"free", "mission"} \cap Builds = {}

VARIABLES
  stored,       \* projects.json: what _load returns of it
  held,       \* what each writer has loaded, changed and is to save
  writing,    \* the writers that have opened, and so emptied, the file
  build,      \* the requests
  busy,       \* the build that holds the event loop, or "free"
  draft,      \* workspace/agents: name -> signature of the file
  generated,  \* core/agents/generated: name -> signature of the file
  tested,     \* history: the signatures pytest has passed
  verified,   \* history: the signatures whose call has answered
  promoted,   \* history: the signatures a user had promoted
  mission,    \* updates the evolution thread has made of its project
  crashes

buildVars == <<stored, held, writing, build, busy, draft, generated, tested,
               verified, promoted, mission, crashes>>

Names == {s.name : s \in Specs}
Signatures == {s.sig : s \in Specs}
Writers == Builds \cup {"mission"}
NoDoc == [p \in {} |-> 0]     \* a file that is empty, or no JSON
Nothing == [none |-> 0]

(* create_project; a project is known by the request that created it.      *)
NewProject(s) ==
  [spec |-> s, status |-> "pending", current |-> "created", steps |-> <<>>,
   results |-> <<>>, registered |-> FALSE, available |-> FALSE, error |-> "none"]

Idle == [pc |-> "idle", spec |-> CHOOSE s \in Specs : TRUE, next |-> "idle",
         answer |-> "none"]

BuildInit ==
  /\ stored = [p \in {"mission"} |-> 0]
  /\ held = [w \in Writers |-> Nothing] /\ writing = {}
  /\ build = [b \in Builds |-> Idle] /\ busy = "free"
  /\ draft = [n \in Names |-> "none"]
  /\ generated \in [Names -> {"none", "handmade"}]
  /\ tested = {} /\ verified = {} /\ promoted = {} /\ mission = 0 /\ crashes = 0

-----------------------------------------------------------------------------
(* ProjectManager._save: the file is opened, and then written.  Where the  *)
(* other writer has written in between, the end of a longer text of his    *)
(* may remain: no JSON.                                                    *)
Open(w) ==
  /\ held[w] # Nothing /\ w \notin writing
  /\ stored' = NoDoc /\ writing' = writing \cup {w} /\ UNCHANGED held

Write(w) ==
  /\ w \in writing /\ writing' = writing \ {w}
  /\ held' = [held EXCEPT ![w] = Nothing]
  /\ \/ stored' = held[w]
     \/ stored # NoDoc /\ stored' = NoDoc

(* update_project: nothing is saved of a project that is not there.        *)
Updated(doc, b, fields, steps) ==
  IF b \notin DOMAIN doc THEN Nothing
  ELSE [doc EXCEPT ![b] =
         fields @@ [@ EXCEPT !.steps = @ \o steps,
                      !.current = IF steps = <<>> THEN @ ELSE steps[Len(steps)].name]]

(* b loads the projects, is to save them so updated and goes on at "next". *)
Update(b, next, fields, steps) ==
  LET doc == Updated(stored, b, fields, steps)
  IN /\ held' = [held EXCEPT ![b] = doc]
     /\ build' = [build EXCEPT ![b].next = next,
                    ![b].pc = IF doc = Nothing THEN next ELSE "saving"]

Status(s) == [status |-> s]
Done(step) == <<[name |-> step, status |-> "done"]>>

Fail(b, step, error) ==
  Update(b, "failed", [status |-> "failed", registered |-> FALSE,
                       available |-> FALSE, error |-> error],
         <<[name |-> step, status |-> "failed"]>>)

(* _append_test_result reads the project once more before it updates it.   *)
AppendResult(b, name, returncode, next) ==
  LET results == IF b \in DOMAIN stored THEN stored[b].results ELSE <<>>
  IN Update(b, next,
       [results |-> Append(results, [name |-> name, returncode |-> returncode])], <<>>)

Answer(b, text) ==
  build' = [build EXCEPT ![b].pc = "done", ![b].answer = text]

(* The projects and agents a spec is matched with.                         *)
Existing(s) ==
  {p \in DOMAIN stored \ {"mission"} :
     /\ stored[p].status \in {"completed", "running"}
     /\ stored[p].spec.name = s.name \/ stored[p].spec.sig = s.sig}

Registered(s) == generated[s.name] \in {s.sig, "handmade"}

-----------------------------------------------------------------------------
(* build_from_request: what exists is not built again.  Of a project that  *)
(* is running, or was when the server crashed, the user is told that its   *)
(* agent is available and its tests are passed.                            *)
AskBuild(b) ==
  /\ build[b].pc = "idle" /\ busy = "free"
  /\ \E s \in Specs :
       \/ /\ Existing(s) # {}
          /\ build' = [build EXCEPT ![b] =
                         [@ EXCEPT !.pc = "done", !.spec = s, !.answer = "available"]]
          /\ UNCHANGED <<held, busy>>
       \/ /\ Existing(s) = {} /\ Registered(s)
          /\ build' = [build EXCEPT ![b] =
                         [@ EXCEPT !.pc = "consult", !.spec = s]]
          /\ UNCHANGED <<held, busy>>
       \/ /\ Existing(s) = {} /\ ~Registered(s)
          /\ held' = [held EXCEPT ![b] =
                         [p \in DOMAIN stored \cup {b} |->
                            IF p = b THEN NewProject(s) ELSE stored[p]]]
          /\ build' = [build EXCEPT ![b] =
                         [@ EXCEPT !.pc = "saving", !.spec = s, !.next = "plan"]]
          /\ busy' = b
  /\ UNCHANGED <<stored, writing, draft, generated, tested, verified,
                 promoted, mission, crashes>>

(* A registered agent is called; only one that answers is available.       *)
Consult(b) ==
  /\ build[b].pc = "consult"
  /\ \/ /\ verified' = verified \cup {generated[build[b].spec.name]}
        /\ Answer(b, "consulted")
     \/ Answer(b, "unavailable") /\ UNCHANGED verified
  /\ UNCHANGED <<stored, held, writing, busy, draft, generated, tested, promoted,
                 mission, crashes>>

Save(b) ==
  /\ build[b].pc = "saving"
  /\ \/ Open(b) /\ UNCHANGED build
     \/ Write(b) /\ build' = [build EXCEPT ![b].pc = build[b].next]
  /\ UNCHANGED <<busy, draft, generated, tested, verified,
                 promoted, mission, crashes>>

Keep == UNCHANGED <<stored, writing, busy, promoted, mission, crashes>>
Disk == <<draft, generated, tested, verified>>

(* _step, and the writing of the agent and of its test.                    *)
Plan(b) ==
  /\ build[b].pc = "plan"
  /\ Update(b, "generate", Status("running"), Done("planning"))
  /\ Keep /\ UNCHANGED Disk

Generate(b) ==
  LET s == build[b].spec
  IN /\ build[b].pc = "generate"
     /\ draft' = [draft EXCEPT ![s.name] = s.sig]
     /\ Update(b, "validate", Status("running"), Done("code_generation"))
     /\ Keep /\ UNCHANGED <<generated, tested, verified>>

(* validate_agent: the syntax, then the shape of the class.                *)
Validate(b) ==
  /\ build[b].pc = "validate"
  /\ \/ Update(b, "compile", Status("running"), Done("validation"))
     \/ \E error \in {"syntax_error", "class Agent manquante"} :
          Fail(b, "validation", error)
  /\ Keep /\ UNCHANGED Disk

(* The result of a failed compilation is appended in an update of its own. *)
Compile(b) ==
  /\ \/ /\ build[b].pc = "compile"
        /\ \/ build' = [build EXCEPT ![b].pc = "test"] /\ UNCHANGED held
           \/ AppendResult(b, "compile_agent", 1, "compile failed")
     \/ build[b].pc = "compile failed" /\ Fail(b, "compile", "stderr")
  /\ Keep /\ UNCHANGED Disk

(* Mutant: the tests decide nothing.                                       *)
AfterTestsAlways(returncode) == "tests passed"
AfterTests(returncode) == IF returncode = 0 THEN "tests passed" ELSE "tests failed"

Test(b) ==
  /\ build[b].pc = "test"
  /\ \E returncode \in {0, 1} :
       /\ AppendResult(b, "pytest_agent", returncode, AfterTests(returncode))
       /\ tested' = IF returncode = 0 THEN tested \cup {draft[build[b].spec.name]}
                    ELSE tested
  /\ Keep /\ UNCHANGED <<draft, generated, verified>>

Tested(b) ==
  /\ \/ build[b].pc = "tests passed" /\ Update(b, "register", Status("running"), Done("tests"))
     \/ build[b].pc = "tests failed" /\ Fail(b, "tests", "stdout")
  /\ Keep /\ UNCHANGED Disk

Register(b) ==
  LET name == build[b].spec.name
  IN /\ build[b].pc = "register"
     /\ generated' = [generated EXCEPT ![name] = draft[name]]
     /\ Update(b, "verify", [registered |-> TRUE], Done("registry"))
     /\ Keep /\ UNCHANGED <<draft, tested, verified>>

(* Mutant: what the called agent answers is not looked at.                 *)
VerifyUnchecked(ok) == TRUE
Accepted(ok) == ok

(* format_project_response of the completed project, as this build has     *)
(* loaded it: what proves it may have been overwritten.                    *)
Response(b) ==
  IF /\ b \in DOMAIN stored /\ stored[b].registered /\ stored[b].results # <<>>
     /\ \A i \in DOMAIN stored[b].results : stored[b].results[i].returncode = 0
  THEN "created" ELSE "unclear"

(* _verify_agent calls the agent; the agent of a failed call stays where   *)
(* it was registered.                                                      *)
Verify(b) ==
  /\ build[b].pc = "verify"
  /\ \E ok \in BOOLEAN :
       /\ verified' = IF ok THEN verified \cup {generated[build[b].spec.name]}
                      ELSE verified
       /\ IF Accepted(ok)
          THEN Update(b, Response(b), [status |-> "completed", available |-> TRUE,
                                       error |-> "none"], Done("verification"))
          ELSE Fail(b, "verification", "empty")
  /\ Keep /\ UNCHANGED <<draft, generated, tested>>

(* A command that times out or a file that cannot be written.              *)
RaiseBuild(b) ==
  /\ build[b].pc \in {"generate", "validate", "compile", "test", "register", "verify"}
  /\ Fail(b, "exception", "timeout")
  /\ Keep /\ UNCHANGED Disk

Respond(b) ==
  /\ build[b].pc \in {"created", "unclear", "failed"}
  /\ Answer(b, build[b].pc)
  /\ busy' = "free"
  /\ UNCHANGED <<stored, held, writing, draft, generated, tested, verified,
                 promoted, mission, crashes>>

(* "Valide l'agent n": the draft, whatever came of its tests, is validated *)
(* once more and copied among the generated agents.                        *)
Promote(n) ==
  /\ busy = "free" /\ draft[n] # "none"
  /\ generated' = [generated EXCEPT ![n] = draft[n]]
  /\ promoted' = promoted \cup {draft[n]}
  /\ UNCHANGED <<stored, held, writing, build, busy, draft, tested, verified,
                 mission, crashes>>

-----------------------------------------------------------------------------
(* The evolution thread: update_project of the mission's project.          *)
MissionLoad ==
  /\ mission < MaxMission /\ held["mission"] = Nothing
  /\ mission' = mission + 1
  /\ held' = IF "mission" \notin DOMAIN stored THEN held
             ELSE [held EXCEPT !["mission"] =
                    [stored EXCEPT !["mission"] = mission + 1]]
  /\ UNCHANGED <<stored, writing, build, busy, draft, generated, tested, verified,
                 promoted, crashes>>

MissionSave ==
  /\ Open("mission") \/ Write("mission")
  /\ UNCHANGED <<build, busy, draft, generated, tested, verified,
                 promoted, mission, crashes>>

(* The server restarts: what was in progress has ended as it was.          *)
Crash ==
  /\ crashes < MaxCrashes /\ crashes' = crashes + 1
  /\ build' = [b \in Builds |->
                 IF build[b].pc = "idle" THEN build[b]
                 ELSE [build[b] EXCEPT !.pc = "done"]]
  /\ busy' = "free" /\ writing' = {} /\ held' = [w \in Writers |-> Nothing]
  /\ mission' = MaxMission
  /\ UNCHANGED <<stored, draft, generated, tested, verified, promoted>>

BuildNext ==
  \/ \E b \in Builds :
       \/ AskBuild(b) \/ Consult(b) \/ Save(b) \/ Plan(b) \/ Generate(b)
       \/ Validate(b) \/ Compile(b) \/ Test(b) \/ Tested(b) \/ Register(b)
       \/ Verify(b) \/ RaiseBuild(b) \/ Respond(b)
  \/ \E n \in Names : Promote(n)
  \/ MissionLoad \/ MissionSave \/ Crash

BuildSpec == BuildInit /\ [][BuildNext]_buildVars

-----------------------------------------------------------------------------
BuildTypeOK ==
  /\ writing \subseteq Writers /\ busy \in Builds \cup {"free"}
  /\ DOMAIN stored \subseteq Writers
  /\ generated \in [Names -> Signatures \cup {"none", "handmade"}]
  /\ \A b \in Builds : build[b].spec \in Specs

(* Only what pytest has passed, or a user has promoted, is ever among the  *)
(* generated agents, which the registry loads and executes, whatever       *)
(* crashed in between or was drafted under the same name                   *)
(* (build_from_request, _register_agent, _promote_dynamic_agent).          *)
RegisteredIsTested ==
  \A n \in Names :
    generated[n] \in tested \cup promoted \cup {"none", "handmade"}

(* "A user-facing "created/completed" response requires technical proof:   *)
(* validation, tests, registry status, and runtime availability."          *)
(* (docs/architecture/responsibilities.md): of a build of its own.         *)
CreatedHasProof ==
  \A b \in Builds :
    build[b].answer = "created" => build[b].spec.sig \in tested \cap verified

(* The same rule for an agent that is said to exist already.               *)
AvailableHasProof ==
  \A b \in Builds : build[b].answer = "available" =>
    \E n \in Names : generated[n] \in tested \cap verified
=============================================================================
