SPECIFICATION Spec
CONSTANTS
  Plans = {p1}
  Execs = {e1, e2}
  Goals = {g1}
  NoGoal = none
  Kinds = {"agent", "generic", "fix"}
  Calls = {"goals/run", "execute-approved", "/execute", "execute", "refuse", "tasks/execute"}
  Manual = {}
  MaxCrashes = 0
CHECK_DEADLOCK FALSE
INVARIANTS TypeOK SomeoneApproved RunningIsReal
PROPERTY CompletedTaskIsKept
