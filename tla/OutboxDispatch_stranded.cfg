SPECIFICATION SettingSpec
CONSTANTS
  p1 = p1
  p2 = p2
  e1 = e1
  Dispatcher = {p1, p2}
  WorkerName = {p1, p2}
  WorkerId <- DistinctIds
  NoWorker = NoWorker
  Event = {e1}
  Dirty = {}
  NoEvent = NoEvent
  BatchSize = 1
  MaxAttempts = 2
  LeaseDuration = 2
  PublishTimeout = 1
  MaxBackoff = 1
INVARIANT WaitingIsClaimable
