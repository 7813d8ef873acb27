----------------------------- MODULE MCDelivery -----------------------------
(* The two stages of delivery side by side: dispatchers that settle the    *)
(* events of the outbox, and consumers that take records from the topic.   *)
(* A run is about one of them; no symmetry, as liveness is checked.        *)
EXTENDS RcaDelivery

CONSTANTS OutboxWorker, OutboxEvent, NoOutboxWorker, NoOutboxEvent

VARIABLES
  stage,     \* which of the two the behaviour is about
  xEvent, xSent, xPc, xBatch, xTries, xExpired, xLease, xElapsed, xCurrent, xVerdict

outboxAll == <<xEvent, xSent, xPc, xBatch, xTries, xExpired, xLease, xElapsed,
               xCurrent, xVerdict>>

Dispatch == INSTANCE OutboxDispatch WITH
  Dispatcher <- OutboxWorker, WorkerName <- OutboxWorker,
  WorkerId <- [p \in OutboxWorker |-> p], NoWorker <- NoOutboxWorker,
  Event <- OutboxEvent, Dirty <- {}, NoEvent <- NoOutboxEvent,
  BatchSize <- 1, MaxAttempts <- 2, LeaseDuration <- 2, PublishTimeout <- 1,
  MaxBackoff <- 1,
  event <- xEvent, sent <- xSent, pc <- xPc, batch <- xBatch, tries <- xTries,
  expired <- xExpired, lease <- xLease, elapsed <- xElapsed, current <- xCurrent,
  verdict <- xVerdict

StageInit == Init /\ Dispatch!Init /\ stage \in {"dispatch", "consume"}

StageNext ==
  /\ \/ stage = "dispatch" /\ Dispatch!Next /\ UNCHANGED vars
     \/ stage = "consume" /\ Next /\ UNCHANGED outboxAll
  /\ UNCHANGED stage

StageSpec ==
  /\ StageInit /\ [][StageNext]_<<vars, outboxAll, stage>>
  /\ \/ stage = "dispatch" /\ Dispatch!Fairness
     \/ stage = "consume" /\ Fairness

\* Every event is published or given up in the end, through crashes, lost
\* answers and refused transactions.  outbox_dispatch_store.py:33-80, 181-201.
DispatchSettles ==
  stage = "dispatch" => \A e \in OutboxEvent : <>(Dispatch!Settled(e) # "open")

\* RequestedRunsEnd, of the behaviours that are about consumers.
\* rca_service.py:129-134.
RequestsEnd == stage = "consume" => RequestedRunsEnd
=============================================================================
