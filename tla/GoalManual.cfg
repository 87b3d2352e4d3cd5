SPECIFICATION FairSpec
CONSTANTS
  Plans = {p1}
  Execs = {e1}
  Goals = {g1}
  NoGoal = none
  Kinds = {"fix", "agent", "audit"}
  Calls = {"goals/run", "create", "generate-tasks", "approve", "/execute", "status", "sync-tasks"}
  Manual = {"completed", "aside"}
  MaxCrashes = 0
CHECK_DEADLOCK FALSE
INVARIANT FinishedAgentHasProposal
PROPERTY ExecutionsEnd
