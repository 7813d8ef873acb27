SPECIFICATION FairSettingSpec
CONSTANTS
  p1 = p1
  e1 = e1
  e2 = e2
  Dispatcher = {p1}
  WorkerName = {p1}
  WorkerId <- DistinctIds
  NoWorker = NoWorker
  Event = {e1, e2}
  Dirty = {e1}
  NoEvent = NoEvent
  BatchSize = 2
  MaxAttempts = 2
  LeaseDuration = 3
  PublishTimeout = 1
  MaxBackoff = 1
PROPERTY CleanEventsSettle
