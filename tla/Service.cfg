SPECIFICATION Spec
CONSTANTS
  Chats = {c1, c2}
  Allowed = {c1}
  HasToken = TRUE
  Cooldowns <- MCCooldowns
  ConfirmTTL = 1
  MuteTicks = 2
  Loads = {"cpu"}
  MaxClock = 3
  MaxPerformed = 1
  Services = {"llm"}
  Minute = 1
  RestartWindow = 2
  Day = 2
  Week = 3
  MaxGap = 1
  MaxLog = 4
  Inputs = {r1, r2}
  Queries <- MCQueries
  Builds = {b1, b2}
  Specs <- MCSpecs
  MaxMission = 1
  MaxCrashes = 1
  Clients = {k1, k2}
  MaxConnections = 1
  Ids <- MCIds
  Stem <- MCStem
  MaxVersion = 3
  Jobs = {j1, j2}
  Sources <- MCSources
  Drafts = {"generateur.py"}
  Generator = "generateur.py"
  Stems <- MCStems
  KeptBackups = 1
  MaxVersions = 4
  MaxSeconds = 3
  MaxPhrases = 2
  MaxHistory = 2
  Entities = {"lamp", "plug"}
  Domain <- MCDomain
  Wishes <- MCWishes
  Speakers = {h1, h2}
  Refreshes = {"loop", "route"}
  Calls = {l1, l2}
  Retries = 2
  MaxTokens = 2
  Agents = {"meteo", "rappel"}
  Runs = {x1, x2}
INVARIANTS
  TypeOK
  NothingLeftRunning
  CascadesPartition
  GaugeSettles
  ToldInOrder
  RegisteredIsTested
  CreatedHasProof
  ToldSessionsLast
  LastReplacedIsRestorable
  HistoryExplainsState
  OneAnswer
  RunsAreCounted
PROPERTY ConfirmedByRequest
PROPERTY OutageKeepsCache
CHECK_DEADLOCK FALSE
SYMMETRY Symmetry
