SPECIFICATION StageSpec
CONSTANTS
  c1 = c1
  c2 = c2
  r1 = r1
  f1 = f1
  b1 = b1
  Consumer = {c1, c2}
  NoConsumer = NoConsumer
  Run = {r1}
  Foreign = {f1}
  Bad = {b1}
  MaxLog = 2
  MaxMoves = 2
  p1 = p1
  p2 = p2
  e1 = e1
  OutboxWorker = {p1, p2}
  OutboxEvent = {e1}
  NoOutboxWorker = NoOutboxWorker
  NoOutboxEvent = NoOutboxEvent
INVARIANT TypeOK
INVARIANT NothingSkipped
PROPERTY Drains
PROPERTY RequestsEnd
PROPERTY DispatchSettles
