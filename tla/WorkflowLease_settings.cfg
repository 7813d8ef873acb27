SPECIFICATION SettingSpec
CONSTANTS
  p1 = p1
  p2 = p2
  p3 = p3
  r1 = r1
  r2 = r2
  Alone = p1
  Executor = {p1, p2, p3}
  WorkerName = {p1, p2, p3}
  WorkerId <- OneAlone
  NoWorker = NoWorker
  Request = {r1, r2}
  NoRequest = NoRequest
  LeaseDuration = 2
  HeartbeatInterval = 1
  MaxSkew = 1
  MaxClock = 8
  MaxSkewedClock = 4
  MaxSharedClock = 4
SYMMETRY Symmetry
INVARIANT TypeOK
INVARIANT ConditionsImplyConstraints
INVARIANT PromptSoleAgent
INVARIANT AckOnlyWhenEnded
INVARIANT CompletionIsMine
INVARIANT AttemptsAreUnique
INVARIANT CancellationAudited
PROPERTY DistinctRenewedByCurrentAttempt
PROPERTY ImplementsRunOutcome
