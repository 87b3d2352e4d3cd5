SPECIFICATION Spec
CONSTANTS
  Plans = {p1, p2}
  Execs = {e1, e2}
  Goals = {g1, g2}
  NoGoal = none
  Kinds = {"generic"}
  Calls = {"goals/run", "execute-approved", "execute-next"}
  Manual = {}
  MaxCrashes = 1
CHECK_DEADLOCK FALSE
INVARIANTS GoalCompletedByWork FinishedPlanHasGoal
