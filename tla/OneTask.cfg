SPECIFICATION CognitionSpec
CONSTANTS
  Refreshers = {"loop", "server"}
  Samples <- MCSamples
  Settle = 2
  HistMax = 2
  Actions <- MCActions
  Kinds = {"intent"}
  SampleMax = 2
  Many = 2
  EventMax = 1
  ActivityMax = 1
  IntentMax = 1
  MaxEvents = 0
  MaxRefresh = 0
  MaxKills = 0
  Situations <- MCSituations
  KeptProposals = 7
  MaxCycles = 3
  MaxDecisions = 2
  MaxSteps = 1
  CycleGoals = {"stability"}
  CoreHigh = {}
  CoreMedium = {"core"}
  Steps <- MCSteps
  Window = 2
  MaxTasks = 2
  MaxPlans = 1
  MaxCrashes = 0
  GoalTitles = {"stability", "model"}
  CoreTitles <- MCCore
  HighTitles = {"stability"}
  Keep = 3
  MaxGoals = 2
INVARIANT OneTaskPerGoal
CHECK_DEADLOCK FALSE
