SPECIFICATION Spec
CONSTANTS
  Runs = {r1, r2}
  Indices = {1}
  Audited = {}
  MaxCycles = 1
  MaxRejects = 0
  MaxCrashes = 0
  None = None
SYMMETRY Symmetry
CHECK_DEADLOCK FALSE
INVARIANT OneMissionAlive
