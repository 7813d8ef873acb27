----------------------------- MODULE Monitoring -----------------------------
(* What operators see: a scrape takes the health of the workers, asks whether   *)
(* the process is ready, and how much waits in the outbox; then it sets the    *)
(* gauges and writes all of them.  The count of what waits is kept for a while,  *)
(* a failure to count too, and one scrape counts for all that come meanwhile.   *)
EXTENDS Naturals, FiniteSets

CONSTANTS
  Scraper,       \* scrapes that may overlap
  NoScraper,
  BacklogTtl,    \* how long a count is kept
  CountTimeout,  \* how long counting may take
  MaxHealth,     \* bound on the changes of a worker's health
  LastTime       \* bound on time

ASSUME MonitoringAssumption ==
  /\ NoScraper \notin Scraper /\ {BacklogTtl, CountTimeout, MaxHealth} \subseteq Nat
  /\ LastTime \in Nat \ {0}

VARIABLES
  workerHealth,  \* of each worker: how often its health changed
  scrape,        \* of each scrape: where it is, what it has read so far
  lastAnswer,    \* the last answer: whose, when, and the gauges it was written from
  highest,       \* the highest count and totals that were ever returned
  kept,          \* the kept report
  attempted,     \* when it was made
  counting,      \* the scrape that counts, and since when
  floors,        \* of each scrape: what others had returned before it came
  stormed,       \* whether a count began too soon after another
  monitorTime

monitoringVars == <<workerHealth, scrape, lastAnswer, highest, kept, attempted, counting,
                    floors, stormed, monitorTime>>

\* Four of the workers are read when a scrape comes, the outbox worker after the
\* readiness check.
Watched == {"rca_consumer", "tickets_consumer", "retention", "reclaim", "outbox"}
None == 0      \* no health: the worker is switched off, or was not read
NoCount == 0

NotScraping == [at |-> "idle", seen |-> [w \in Watched |-> None], ready |-> "unknown"]
NothingReported == [count |-> NoCount, up |-> FALSE, stale |-> FALSE, made |-> FALSE]

----------------------------------------------------------------------------
(* The gauges.                                                             *)

\* Of a worker: whether there is one, a gauge for each state it may be in, and its
\* totals.  All come from one reading.
States == {"RUNNING", "DEGRADED", "STOPPING", "STOPPED"}
StateOf(h) == IF h % 2 = 1 THEN "RUNNING" ELSE "DEGRADED"
GaugesOf(h, totals) ==
  [enabled |-> h # None,
   state |-> [s \in States |-> h # None /\ StateOf(h) = s],
   totals |-> [t \in totals |-> h]]

OutboxGauges(h) == GaugesOf(h, {"claimed", "published", "retried", "failed"})
RcaGauges(h) == GaugesOf(h, {"polled", "acknowledged", "retried", "dead_lettered"})
TicketsGauges(h) ==
  GaugesOf(h, {"polled", "acknowledged", "retried", "dead_lettered", "ignored"})
RetentionGauges(h) == GaugesOf(h, {"cycles", "purged"})
ReclaimGauges(h) == GaugesOf(h, {"cycles", "reclaimed"})

WorkerGauges(w, h) ==
  CASE w = "outbox" -> OutboxGauges(h) [] w = "rca_consumer" -> RcaGauges(h)
    [] w = "tickets_consumer" -> TicketsGauges(h) [] w = "retention" -> RetentionGauges(h)
    [] w = "reclaim" -> ReclaimGauges(h)

\* Of a component: ready or not; unknown is not.
ComponentGauge(ready) == ready = "up"

\* Of the backlog: nothing, where nothing is known.
BacklogGauges(report) ==
  [count |-> report.count, up |-> report.up, stale |-> report.stale]

GaugesFrom(seen, ready, report) ==
  [worker |-> [w \in Watched |-> WorkerGauges(w, seen[w])],
   ready |-> ComponentGauge(ready),
   backlog |-> BacklogGauges(report)]

\* The last answer is looked at when it is written.
NoAnswer ==
  [by |-> NoScraper, at |-> 0,
   gauges |-> GaugesFrom(NotScraping.seen, "unknown", NothingReported)]
NothingAnswered == lastAnswer' = NoAnswer

NoFloor == [count |-> NoCount, total |-> [w \in Watched |-> None]]
Higher(m, n) == IF m >= n THEN m ELSE n
RaisedBy(seen, report, floor) ==
  [count |-> Higher(floor.count, report.count),
   total |-> [w \in Watched |-> Higher(floor.total[w], seen[w])]]

\* Nothing is awaited between the first gauge and the last line of the answer.
AnswerScrape(s, ready, report) ==
  LET g == GaugesFrom(scrape[s].seen, ready, report)
  IN /\ lastAnswer' = [by |-> s, at |-> monitorTime, gauges |-> g]
     /\ highest' = RaisedBy(scrape[s].seen, report, highest)
     /\ scrape' = [scrape EXCEPT ![s] = NotScraping]
     /\ floors' = [floors EXCEPT ![s] = NoFloor]

----------------------------------------------------------------------------
(* A scrape.                                                               *)

Arrives(s) ==
  /\ scrape[s].at = "idle"
  /\ scrape' = [scrape EXCEPT
       ![s] = [at |-> "asking", ready |-> "unknown",
               seen |-> [w \in Watched |-> IF w = "outbox" THEN None ELSE workerHealth[w]]]]
  /\ floors' = [floors EXCEPT ![s] = highest]
  /\ NothingAnswered
  /\ UNCHANGED <<workerHealth, highest, kept, attempted, counting, stormed, monitorTime>>

\* Where the check fails the health of the outbox worker is not read.
ReadinessKnown(s) ==
  /\ scrape[s].at = "asking"
  /\ \/ \E ready \in {"up", "down"} :
          scrape' = [scrape EXCEPT ![s].at = "counting", ![s].ready = ready,
                                   ![s].seen["outbox"] = workerHealth["outbox"]]
     \/ scrape' = [scrape EXCEPT ![s].at = "counting"]
  /\ NothingAnswered
  /\ UNCHANGED <<workerHealth, highest, kept, attempted, counting, floors, stormed,
                 monitorTime>>

\* A report is kept, a failure too.
ReportIsFresh == kept.made /\ monitorTime - attempted < BacklogTtl

ReadsKept(s) ==
  /\ scrape[s].at = "counting"
  /\ ReportIsFresh
  /\ AnswerScrape(s, scrape[s].ready, kept)
  /\ UNCHANGED <<workerHealth, kept, attempted, counting, stormed, monitorTime>>

\* Another scrape may have counted while this one waited.
TakesTurn(s) ==
  /\ scrape[s].at = "counting"
  /\ ~ReportIsFresh
  /\ scrape' = [scrape EXCEPT ![s].at = "waiting"]
  /\ NothingAnswered
  /\ UNCHANGED <<workerHealth, highest, kept, attempted, counting, floors, stormed,
                 monitorTime>>

Count(s) ==
  /\ counting' = [by |-> s, since |-> monitorTime]
  /\ scrape' = [scrape EXCEPT ![s].at = "querying"]
  /\ stormed' = (stormed \/ ReportIsFresh)
  /\ NothingAnswered
  /\ UNCHANGED <<workerHealth, highest, kept, attempted, floors, monitorTime>>

HasTurn(s) ==
  /\ scrape[s].at = "waiting"
  /\ counting.by = NoScraper
  /\ IF ReportIsFresh
     THEN /\ AnswerScrape(s, scrape[s].ready, kept)
          /\ UNCHANGED <<workerHealth, kept, attempted, counting, stormed, monitorTime>>
     ELSE Count(s)

\* The count is of some moment since the query began.  A failure keeps the last
\* count, and says so.
Reports(s, report) ==
  /\ kept' = report
  /\ attempted' = monitorTime
  /\ counting' = [by |-> NoScraper, since |-> 0]
  /\ AnswerScrape(s, scrape[s].ready, report)
  /\ UNCHANGED <<workerHealth, stormed, monitorTime>>

CountReturns(s) ==
  /\ scrape[s].at = "querying"
  /\ \E n \in counting.since..monitorTime :
       Reports(s, [count |-> n, up |-> TRUE, stale |-> FALSE, made |-> TRUE])

CountFails(s) ==
  /\ scrape[s].at = "querying"
  /\ Reports(s, [count |-> kept.count, up |-> FALSE, stale |-> kept.count # NoCount,
                 made |-> TRUE])

\* The scrape is cancelled: what it holds is free again, and nothing is kept of it.
ScrapeCancelled(s) ==
  /\ scrape[s].at \in {"asking", "waiting", "querying"}
  /\ scrape' = [scrape EXCEPT ![s] = NotScraping]
  /\ floors' = [floors EXCEPT ![s] = NoFloor]
  /\ counting' = IF counting.by = s THEN [by |-> NoScraper, since |-> 0] ELSE counting
  /\ NothingAnswered
  /\ UNCHANGED <<workerHealth, highest, kept, attempted, stormed, monitorTime>>

----------------------------------------------------------------------------
(* Meanwhile.                                                              *)

WorkerWorks(w) ==
  /\ workerHealth[w] \in 1..(MaxHealth - 1)
  /\ workerHealth' = [workerHealth EXCEPT ![w] = @ + 1]
  /\ NothingAnswered
  /\ UNCHANGED <<scrape, highest, kept, attempted, counting, floors, stormed, monitorTime>>

\* Counting never takes longer than its time limit.
TimeGoesOn ==
  /\ monitorTime < LastTime
  /\ counting.by # NoScraper => monitorTime < counting.since + CountTimeout
  /\ monitorTime' = monitorTime + 1
  /\ NothingAnswered
  /\ UNCHANGED <<workerHealth, scrape, highest, kept, attempted, counting, floors, stormed>>

----------------------------------------------------------------------------
\* What may be reported of the workers at first.
HealthAsks(H) == H \subseteq [Watched -> 0..MaxHealth]

\* Every gauge is there before the first scrape.
MonitoringInit ==
  /\ scrape = [s \in Scraper |-> NotScraping]
  /\ lastAnswer = NoAnswer
  /\ highest = NoFloor
  /\ kept = NothingReported
  /\ attempted = 0
  /\ counting = [by |-> NoScraper, since |-> 0]
  /\ floors = [s \in Scraper |-> NoFloor]
  /\ stormed = FALSE
  /\ monitorTime = 1

MonitoringNext ==
  \/ \E s \in Scraper :
       \/ Arrives(s) \/ ReadinessKnown(s) \/ ReadsKept(s) \/ TakesTurn(s) \/ HasTurn(s)
       \/ CountReturns(s) \/ CountFails(s) \/ ScrapeCancelled(s)
  \/ \E w \in Watched : WorkerWorks(w)
  \/ TimeGoesOn

----------------------------------------------------------------------------
MonitoringTypeOK ==
  /\ \A w \in Watched : workerHealth[w] \in 0..MaxHealth
  /\ \A s \in Scraper :
       scrape[s].at \in {"idle", "asking", "counting", "waiting", "querying"}
  /\ kept.count \in 0..LastTime /\ attempted \in 0..LastTime
  /\ counting.by \in Scraper \cup {NoScraper}
  /\ stormed \in BOOLEAN

\* One scrape counts at a time, and not again before the last report is too old,
\* be it of a failure.  outbox_backlog.py:58-116.
CountsAreRare ==
  /\ ~stormed
  /\ \A s \in Scraper : scrape[s].at = "querying" <=> counting.by = s

\* What is reported as current is; an older count is called stale.
\* outbox_backlog.py:75-101.
CurrentIsRecent ==
  LET b == lastAnswer.gauges.backlog IN
  /\ b.up => lastAnswer.at - b.count <= BacklogTtl + CountTimeout
  /\ b.count # NoCount /\ ~b.up => b.stale
  /\ ~(b.up /\ b.stale)

\* A worker that runs is shown as switched off only where nothing is known of any
\* component.  routes/metrics.py:42-58.
OffIsOff ==
  lastAnswer.gauges.ready /\ workerHealth["outbox"] # None =>
    lastAnswer.gauges.worker["outbox"].enabled

MonitoringIsSound == CountsAreRare /\ CurrentIsRecent /\ OffIsOff

\* A scrape never shows less than another one had shown before it came, of a worker
\* or of the backlog.  outbox_backlog.py:58-72, routes/metrics.py:18-80.
NeverBackwards ==
  [][lastAnswer'.by # NoScraper /\ lastAnswer' # lastAnswer =>
       LET g == lastAnswer'.gauges
           floor == floors[lastAnswer'.by]
       IN /\ g.backlog.count >= floor.count
          /\ \A w \in Watched : g.worker[w].enabled =>
               \A t \in DOMAIN g.worker[w].totals : g.worker[w].totals[t] >= floor.total[w]
    ]_monitoringVars
=============================================================================
