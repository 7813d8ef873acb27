----------------------------- MODULE Readiness -----------------------------
(* The readiness endpoint: whether the runtime is up, its enabled workers   *)
(* are alive and the database answers.  The database is probed with a       *)
(* timeout, the result is kept for a short time, and requests that find it  *)
(* too old line up behind one lock.                                         *)
(*                                                                          *)
(* Of the runtime (Lifecycle) only what is asked of it is here: how far it  *)
(* is, and whether its worker is known to be dead; at least one worker is   *)
(* enabled.                                                                 *)
EXTENDS Integers

CONSTANTS
  Prober,        \* requests
  NoProber,
  CacheTtl,      \* readiness_cache_ttl_seconds
  ProbeTimeout,  \* readiness_database_timeout_seconds
  LastInstant    \* bound of the clock

ASSUME ReadinessAssumption ==
  /\ NoProber \notin Prober
  /\ CacheTtl \in Nat
  /\ ProbeTimeout \in Nat \ {0}
  /\ LastInstant \in Nat

VARIABLES
  runtime,     \* "starting", "up", "closing" or "closed"
  workerDown,  \* a worker died, or has been awaited by the shutdown
  database,    \* whether the database answers now
  instant,     \* the monotonic clock
  cached,      \* the last result: "none", "up" or "down"
  checkedAt,   \* when it was stored
  probeLock,        \* the prober that holds the readiness lock
  probe,       \* of each request: where it is
  sentAt,      \* when it sent its query
  lastSeen     \* when the database last answered a query

readinessVars == <<runtime, workerDown, database, instant, cached, checkedAt, probeLock,
                   probe, sentAt, lastSeen>>

Never == -1


CacheIsFresh == cached # "none" /\ instant - checkedAt < CacheTtl

\* The answer, from what the database check says and the workers are now.
Verdict(up) == IF up /\ ~workerDown THEN "ready" ELSE "not_ready"

\* A request arrives: a runtime that is not up is not ready, whatever else.
CheckReadiness(p) ==
  /\ probe[p] = "idle"
  /\ probe' = [probe EXCEPT ![p] =
                 IF runtime # "up" THEN "not_ready"
                 ELSE IF CacheIsFresh THEN Verdict(cached = "up")
                 ELSE "waiting"]
  /\ UNCHANGED <<runtime, workerDown, database, instant, cached, checkedAt, probeLock,
                 sentAt, lastSeen>>


\* With the lock: another request may have stored a result meanwhile.
TakeTurn(p) ==
  /\ probe[p] = "waiting"
  /\ probeLock = NoProber
  /\ IF CacheIsFresh
     THEN /\ probe' = [probe EXCEPT ![p] = Verdict(cached = "up")]
          /\ UNCHANGED <<sentAt, probeLock>>
     ELSE /\ probe' = [probe EXCEPT ![p] = "sent"]
          /\ sentAt' = [sentAt EXCEPT ![p] = instant]
          /\ probeLock' = p
  /\ UNCHANGED <<runtime, workerDown, database, instant, cached, checkedAt, lastSeen>>

\* The database executes the query.
DatabaseAnswers(p) ==
  /\ probe[p] = "sent"
  /\ database
  /\ probe' = [probe EXCEPT ![p] = "answered"]
  /\ lastSeen' = instant
  /\ UNCHANGED <<runtime, workerDown, database, instant, cached, checkedAt, probeLock, sentAt>>

\* The answer, an error, or the timeout: the result is stored and given.
ProbeEnds(p) ==
  /\ \E up \in BOOLEAN :
       /\ IF up THEN probe[p] = "answered" ELSE probe[p] \in {"sent", "answered"}
       /\ cached' = IF up THEN "up" ELSE "down"
       /\ probe' = [probe EXCEPT ![p] = Verdict(up)]
  /\ checkedAt' = instant
  /\ probeLock' = NoProber
  /\ UNCHANGED <<runtime, workerDown, database, instant, sentAt, lastSeen>>

\* The client is gone: the request is cancelled where it waits.
ClientGone(p) ==
  /\ probe[p] \in {"waiting", "sent", "answered"}
  /\ probe' = [probe EXCEPT ![p] = "idle"]
  /\ probeLock' = IF probeLock = p THEN NoProber ELSE probeLock
  /\ UNCHANGED <<runtime, workerDown, database, instant, cached, checkedAt, sentAt,
                 lastSeen>>

\* The answer is out; the prober may ask again.
Answered(p) ==
  /\ probe[p] \in {"ready", "not_ready"}
  /\ probe' = [probe EXCEPT ![p] = "idle"]
  /\ UNCHANGED <<runtime, workerDown, database, instant, cached, checkedAt, probeLock, sentAt,
                 lastSeen>>

----------------------------------------------------------------------------
(* Around it.                                                              *)

\* start() checks the database and keeps the result.
RuntimeStarts ==
  /\ runtime = "starting"
  /\ database
  /\ runtime' = "up"
  /\ cached' = "up"
  /\ checkedAt' = instant
  /\ lastSeen' = instant
  /\ UNCHANGED <<workerDown, database, instant, probeLock, probe, sentAt>>

RuntimeCloses ==
  /\ \/ runtime = "up" /\ runtime' = "closing"
     \/ runtime = "closing" /\ workerDown /\ runtime' = "closed"
  /\ UNCHANGED <<workerDown, database, instant, cached, checkedAt, probeLock, probe, sentAt,
                 lastSeen>>

\* A worker dies, or the shutdown has awaited it and forgets its task.
WorkerGoes ==
  /\ runtime \in {"up", "closing"}
  /\ ~workerDown
  /\ workerDown' = TRUE
  /\ UNCHANGED <<runtime, database, instant, cached, checkedAt, probeLock, probe, sentAt,
                 lastSeen>>

DatabaseFlips ==
  /\ database' = ~database
  /\ UNCHANGED <<runtime, workerDown, instant, cached, checkedAt, probeLock, probe, sentAt,
                 lastSeen>>

\* Time passes, but no probe outlasts its timeout, and answers leave at once.
TimePasses ==
  /\ instant < LastInstant
  /\ \A p \in Prober :
       /\ probe[p] \in {"sent", "answered"} => instant < sentAt[p] + ProbeTimeout
       /\ probe[p] \notin {"ready", "not_ready"}
  /\ instant' = instant + 1
  /\ UNCHANGED <<runtime, workerDown, database, cached, checkedAt, probeLock, probe, sentAt,
                 lastSeen>>

ReadinessInit ==
  /\ runtime = "starting"
  /\ workerDown = FALSE
  /\ database \in BOOLEAN
  /\ instant = 0
  /\ cached = "none"
  /\ checkedAt = Never
  /\ probeLock = NoProber
  /\ probe = [p \in Prober |-> "idle"]
  /\ sentAt = [p \in Prober |-> Never]
  /\ lastSeen = Never

ReadinessNext ==
  \/ RuntimeStarts \/ RuntimeCloses \/ WorkerGoes \/ DatabaseFlips \/ TimePasses
  \/ \E p \in Prober :
       \/ CheckReadiness(p) \/ TakeTurn(p) \/ DatabaseAnswers(p) \/ ProbeEnds(p)
       \/ ClientGone(p) \/ Answered(p)

----------------------------------------------------------------------------
ReadinessTypeOK ==
  /\ runtime \in {"starting", "up", "closing", "closed"}
  /\ workerDown \in BOOLEAN
  /\ database \in BOOLEAN
  /\ instant \in 0..LastInstant
  /\ cached \in {"none", "up", "down"}
  /\ checkedAt \in Never..LastInstant
  /\ probeLock \in Prober \cup {NoProber}
  /\ probe \in [Prober -> {"idle", "waiting", "sent", "answered", "ready", "not_ready"}]
  /\ sentAt \in [Prober -> Never..LastInstant]
  /\ lastSeen \in Never..LastInstant

\* Who hears "ready" has a database that answered not longer ago than the
\* result is kept and a probe may take together.  runtime.py:523-551.
ReadyMeansSeen ==
  \A p \in Prober :
    probe[p] = "ready" => lastSeen # Never /\ instant - lastSeen <= CacheTtl + ProbeTimeout

\* Requests that find the result too old cause one query, not one each:
\* none is sent while another is out or its result is fresh.
QueriesAreSpaced ==
  [][\A p \in Prober :
       probe'[p] = "sent" /\ probe[p] # "sent" =>
         /\ ~CacheIsFresh
         /\ \A q \in Prober : probe[q] \notin {"sent", "answered"}]_readinessVars

\* Nobody hears "ready" from a closed runtime, though it was up when asked.
ClosedIsNotReady ==
  [][\A p \in Prober : probe'[p] = "ready" /\ probe[p] # "ready" => runtime # "closed"]_readinessVars

\* The steps of probes: spaced queries, and no "ready" from a closed runtime.
ReadinessIsSpaced == QueriesAreSpaced /\ ClosedIsNotReady
=============================================================================
