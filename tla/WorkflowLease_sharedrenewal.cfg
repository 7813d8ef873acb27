SPECIFICATION SettingSpec
CONSTANTS
  p1 = p1
  p2 = p2
  p3 = p3
  r1 = r1
  Alone = p1
  Executor = {p1, p2, p3}
  WorkerName = {p1, p2, p3}
  WorkerId <- OneAlone
  NoWorker = NoWorker
  Request = {r1}
  NoRequest = NoRequest
  LeaseDuration = 2
  HeartbeatInterval = 1
  MaxSkew = 1
  MaxClock = 5
  MaxSkewedClock = 0
  MaxSharedClock = 5
PROPERTY RenewedByCurrentAttempt
