SPECIFICATION Spec
CONSTANTS
  Plans = {p1}
  Execs = {e1}
  Goals = {g1}
  NoGoal = none
  Kinds = {"generic"}
  Calls = {"goals/run", "/execute", "refuse"}
  Manual = {}
  MaxCrashes = 0
CHECK_DEADLOCK FALSE
PROPERTY RefusalHolds
