SPECIFICATION ServicesSpec
CONSTANTS
  MaxPartitions = 2
  QueueLimit = 2
  LoadSenders = 1
  ArrivalTolerance = 25
  ErrorLimit = 1
  CompletionLimit = 99
  P95Limit = 2
  P99Limit = 3
  ShortestLoad = 1
  LoadPlans <- AllLoads
  Moving = {"reasoning"}
  NoSender = 0
  Alert <- Alerts
  Event = {"e1", "e2", "e3", "e4", "e5", "e6"}
  Environment = {"prod", "dev"}
  Service = {"x", "y"}
  Edge <- Edges
  NodeOrder <- Nodes
  MinimumRank = 20
  Window = 2
  Skew = 1
  CandidateLimit = 50
  IncidentId <- OpeningOrder
  MaxTime = 2
  MaxPosts = 1
  Key = {"k1", "k2"}
  Body = {"b1", "b2"}
  MaxVersion = 4
  MaxReading = 1
  AuditedRun = {"r1", "r2"}
  Purger = {"p1", "p2"}
  Reader = {"x1"}
  RetentionPeriod = 1
  PurgeBatch = 1
  MaxDay = 3
  Inquiry <- Inquiries
  Target = {"jira", "hub"}
  Deduplicating = {"hub"}
  Submitter = {"c1", "c2"}
  WorkerName = {"w1", "w2"}
  WorkerOf <- Workers
  MaxTickets = 2
  Enabled = {"outbox", "rca_consumer"}
  Prober = {"r1", "r2"}
  NoProber = "none"
  CacheTtl = 1
  ProbeTimeout = 1
  LastInstant = 3
  NoEditor = 0
  BookVersion = {"v1", "v2"}
  Draftable = {"a", "b"}
  NoVersion = "none"
  LastMoment = 1
  NoAdmin = 0
  Viewer = {"x1"}
  Permission = {{"p"}, {"q"}}
  Editor = {1, 2, 3}
  Admin = {1, 2, 3, 4}
  Edits <- RunbookEdits
  Grantings <- GrantRequests
  Execution = {1, 2}
  Plan <- ToolPlan
  Asker = {"q1", "q2"}
  Providers = 2
  FailureThreshold = 2
  RecoveryTimeout = 2
  ModelTimeout = 1
  LastTick = 3
  Rankings <- RankedCandidates
  Inquests <- AllInquests
  Sender = {1, 2, 3}
  Caller = {"c1", "c2", "c3"}
  Requester = {1, 2, 3}
  Tenant = {"t"}
  Givens <- Settings
  Posts <- Storms
  Talks <- Dialogues
  Trails <- AllPurposes
  Cases <- TicketCases
  Directive = {1, 2, 3, 4, 5}
  ShopOperator = {"ann", "bob"}
  OrderKey = {"k1", "k2"}
  NoName = "none"
  Expiry = 1
  LastHour = 1
  Orders <- ShopOrders
  Outgoing = {1, 2}
  RouteNames = {"jira", "servicenow", "slack", "pagerduty"}
  HasFallback = TRUE
  Callings <- CalledTargets
  Login = {1, 2}
  Kid = {"a", "b"}
  Algorithm = {"rs"}
  NoKeyThere = "none"
  KeysTtl = 1
  UnknownWindow = 2
  MaxRotations = 1
  LastBeat = 3
  Bearings <- Tokens
  Visit = {1, 2, 3}
  Source = {"s", "t"}
  Quota = 1
  WindowLength = 2
  MaxWindows = 1
  LastSecond = 2
  Visitings <- Ways
  DatasetRelease = {"d1", "d2"}
  Curation = {1, 2, 3, 4, 5}
  NoCuration = 0
  Spectator = {"x1"}
  Curatings <- Curations
  Workspace = {"w1", "w2"}
  Upsert = {1, 2, 3, 4}
  NoUpsert = 0
  Furnishings <- WorkspaceEdits
  Invocation = {1, 2}
  SlotLimit = 1
  MaxItems = 2
  RoomFor = 4
  Finest = 15
  MaxSamples = 120
  MaxNesting = 2
  Tryings <- ToolRequests
  ActivePause = 1
  IdlePause = 6
  FirstPause <- FirstPauses
  LongestPause <- LongestPauses
  MaxCycles = 4
  Scraper = {1, 2}
  NoScraper = 0
  BacklogTtl = 1
  CountTimeout = 1
  MaxHealth = 2
  LastTime = 3
  MaxCandidates = 2
  Afflicted = "x"
  Evidences <- Collections
  Graphs <- Surroundings
  Gap = 20
  Retained = 3
  Trial = {1, 2}
  MaxTries = 2
  MaxAttempts = 2
  Trials <- Batches
  Experiment = {"clean", "first", "second"}
  Measures <- Measurements
  MostEvidence = 5
  MaxRestarts = 1
  Studies <- FewStudies
  DrillService = {"x", "y"}
  DrillRule <- ShopRules
  MaxFirings = 1
  Drills <- Drives
  ConsoleRecord = {"p", "q"}
  MostAsked = 3
  MostOthers = 1
VIEW View
CHECK_DEADLOCK FALSE
INVARIANT ConclusionStands
