SPECIFICATION Spec
CONSTANTS
  Runs = {r1, r2}
  Indices = {1}
  Audited = {2, 3, 4, 5, 6, 7, 10, 13}
  MaxCycles = 1
  MaxRejects = 1
  MaxCrashes = 1
  None = None
CONSTRAINT RejectionsAreFew
SYMMETRY Symmetry
CHECK_DEADLOCK FALSE
INVARIANTS
  TypeOK
  OneActiveRun
  PublishedWorkIsTested
  EveryRunWasAccepted
PROPERTIES
  ImplementsSupervised
  StopLeavesNoActiveRun
