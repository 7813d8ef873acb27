SPECIFICATION SettingSpec
CONSTANTS
  p1 = p1
  p2 = p2
  e1 = e1
  e2 = e2
  Dispatcher = {p1, p2}
  WorkerName = {p1, p2}
  WorkerId <- DistinctIds
  NoWorker = NoWorker
  Event = {e1, e2}
  Dirty = {}
  NoEvent = NoEvent
  BatchSize = 2
  MaxAttempts = 3
  LeaseDuration = 3
  PublishTimeout = 1
  MaxBackoff = 1
SYMMETRY EventSymmetry
INVARIANT TypeOK
INVARIANT ClaimsAreExclusive
INVARIANT CopiesWithinBudget
INVARIANT DistinctWaitingIsClaimable
INVARIANT PromptNeverOverlaps
PROPERTY DistinctSettleOwnClaim
PROPERTY ImplementsAtLeastOnce
