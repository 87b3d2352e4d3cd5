SPECIFICATION CognitionSpec
CONSTANTS
  Refreshers = {"loop", "server"}
  Samples <- MCSamples
  Settle = 2
  HistMax = 2
  Actions <- MCActions
  Kinds = {"intent", "alert"}
  SampleMax = 2
  Many = 2
  EventMax = 1
  ActivityMax = 1
  IntentMax = 1
  MaxEvents = 2
  MaxRefresh = 3
  MaxKills = 1
  Situations <- MCSituations
  KeptProposals = 7
  MaxCycles = 3
  MaxDecisions = 2
  MaxSteps = 7
  CycleGoals = {"stability"}
  CoreHigh = {}
  CoreMedium = {"core"}
  Steps <- MCSteps
  Window = 2
  MaxTasks = 4
  MaxPlans = 2
  MaxCrashes = 1
  GoalTitles = {"stability", "model", "user"}
  CoreTitles <- MCCore
  HighTitles = {"stability"}
  Keep = 3
  MaxGoals = 5
CONSTRAINTS
  OneMishap
  RacesAreShort
INVARIANTS
  TypesOK
  AutoIsHarmless
  RouteWithinApproval
  SensitiveIsBlocked
  OnePlanInWork
  TasksAndPlansAgree
  LoopFollowsServer
  OnlyTheNamedIsMarked
  ChangesHandledOnce
CHECK_DEADLOCK FALSE
