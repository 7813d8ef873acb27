------------------------------ MODULE LoadTest ------------------------------
(* A load test of the platform: alerts offered at one rate after another      *)
(* through a bounded queue and few senders, /metrics read before and after,   *)
(* gates on what was measured.  Beside it the platform answers, works off     *)
(* what it took, restarts, and its consumer measures its lag one partition    *)
(* after the other.  run_load.py, and RCAKafkaConsumer._collect_lag.  What was *)
(* not measured is the empty set.  Time is counted in ticks.                  *)
EXTENDS Integers, Sequences, FiniteSets

LOCAL INSTANCE FiniteSetsExt

CONSTANTS
  MaxPartitions,  \* more of them are not measured at all
  QueueLimit, LoadSenders,
  ArrivalTolerance, ErrorLimit, CompletionLimit,   \* in percent
  P95Limit, P99Limit, ShortestLoad                 \* in ticks

VARIABLES
  load,       \* how the test is run, its rates and what else may happen meanwhile
  stint,       \* the rate it is at, and how far
  loadTick,       \* since that rate's first alert was due
  offer,      \* of that rate: next alert, queue, alerts in hand, answers, drops
  plant,      \* the platform: outbox, topic, what the consumer has read, what was done
  sampled,    \* the count of the outbox and the lag that /metrics shows
  measuring,  \* the measurement of lag under way, if any
  begun,      \* what was read before the rate
  profiles    \* of the rates that are over

loadVars == <<load, stint, loadTick, offer, plant, sampled, measuring, begun, profiles>>

----------------------------------------------------------------------------
(* What a report says of a rate, and its gates.                            *)

Has(measured, Fits(_)) == \E v \in measured : Fits(v)

\* One check each; nothing passes unmeasured.
EnoughArrived(f) == Has(f.deviation, LAMBDA v : v <= ArrivalTolerance)
FewErrors(f) == Has(f.errors, LAMBDA v : v < ErrorLimit)
NoneDropped(f) == Has(f.dropped, LAMBDA v : v = 0)
FastEnough(f) ==
  Has(f.p95, LAMBDA v : v < P95Limit) /\ Has(f.p99, LAMBDA v : v < P99Limit)
LongEnough(f) == Has(f.duration, LAMBDA v : v >= ShortestLoad)
Ingests(f) ==
  LongEnough(f) /\ EnoughArrived(f) /\ FewErrors(f) /\ NoneDropped(f) /\ FastEnough(f)
Completes(f) ==
  /\ Ingests(f)
  /\ Has(f.completion, LAMBDA v : v >= CompletionLimit)
  /\ Has(f.outbox, LAMBDA v : v = 0) /\ Has(f.lag, LAMBDA v : v = 0)

Percent(part1, whole) == (part1 * 100) \div whole
Beyond(got, wanted) ==    \* the deviation in percent, the next whole one
  LET off == IF got > wanted THEN got - wanted ELSE wanted - got
  IN  (off * 100 + wanted - 1) \div wanted

\* The value at place ceil(n * p / 100) of the sorted latencies.
Percentile(answers, p) ==
  IF answers = {} THEN 0
  ELSE LET place == (Cardinality(answers) * p + 99) \div 100
           UpTo(v) == Cardinality({a \in answers : a.latency <= v})
       IN  Min({v \in {a.latency : a \in answers} : UpTo(v) >= place})

\* What has been completed between two readings, of what was planned.
CompletionOf(before, after, planned) ==
  {LET more == IF v > u THEN v - u ELSE 0
   IN  Min({100, Percent(more, planned)}) : u \in before, v \in after}

Unmeasured ==
  [deviation |-> {}, errors |-> {}, dropped |-> {}, p95 |-> {}, p99 |-> {},
   duration |-> {}, completion |-> {}, outbox |-> {}, lag |-> {}]

----------------------------------------------------------------------------
Rate == load.rates[stint.rate]
Duration(rate) == rate.planned * rate.interval
NoOffer == [next |-> 0, queue |-> <<>>, hands |-> {}, answers |-> {}, lost |-> {}]
NoLag == [up |-> FALSE, assigned |-> 0, measured |-> 0, total |-> 0]
NothingRead == [outbox |-> {}, lag |-> {}, rca |-> {}, done |-> 0]

\* The consumer's partitions are numbered: they are measured in order.
Partition == load.partitions

LoadInit ==
  /\ stint = [rate |-> 1, at |-> IF load.mode = "http" THEN "before" ELSE load.mode]
  /\ loadTick = 0
  /\ offer = NoOffer
  /\ plant = [outbox |-> 0, end |-> [p \in Partition |-> load.waiting],
              known |-> [p \in Partition |-> {}], position |-> [p \in Partition |-> 0],
              assigned |-> Partition, done |-> 0, counter |-> load.earlier, restarts |-> 0]
  /\ sampled = [outbox |-> {}, lag |-> NoLag, readings |-> 0]
  /\ measuring = {}
  /\ begun = NothingRead
  /\ profiles = <<>>

\* What /metrics says; counters have no sample before their first increment, the
\* lag of a consumer that never measured is 0.  "done" is not read: it is what was
\* really done, for the properties.
Reading1 == [outbox |-> sampled.outbox, lag |-> {sampled.lag.total}, rca |-> plant.counter,
             done |-> plant.done]
ReadMetrics == {Reading1, [NothingRead EXCEPT !.done = plant.done]}

StartRate ==
  /\ stint.at = "before"
  /\ begun' \in ReadMetrics
  /\ stint' = [stint EXCEPT !.at = "sending"]
  /\ loadTick' = 0 /\ offer' = NoOffer
  /\ UNCHANGED <<load, plant, sampled, measuring, profiles>>

Sending == stint.at = "sending" /\ UNCHANGED <<load, sampled, measuring, begun, profiles>>

\* The producer offers an alert when it is due, or drops it for a full queue.
OfferAlert ==
  /\ Sending /\ offer.next < Rate.planned /\ loadTick >= offer.next * Rate.interval
  /\ offer' = IF Len(offer.queue) < QueueLimit
              THEN [offer EXCEPT !.next = @ + 1, !.queue = Append(@, offer.next)]
              ELSE [offer EXCEPT !.next = @ + 1, !.lost = @ \cup {offer.next}]
  /\ UNCHANGED <<stint, loadTick, plant>>
PostAlert ==
  /\ Sending /\ offer.queue # <<>> /\ Cardinality(offer.hands) < LoadSenders
  /\ offer' = [offer EXCEPT !.queue = Tail(@),
                            !.hands = @ \cup {[alert |-> Head(offer.queue), at |-> loadTick]}]
  /\ UNCHANGED <<stint, loadTick, plant>>

\* Accepted, refused, or timed out, though it may have been taken all the same.
\* Latency counts from the post, not from when the alert was due.
AlertAnswered ==
  \E h \in offer.hands, fate \in load.fates :
    /\ Sending
    /\ offer' = [offer EXCEPT !.hands = @ \ {h},
                              !.answers = @ \cup {[alert |-> h.alert, at |-> h.at, ok |-> fate = "accepted",
                                                   latency |-> loadTick - h.at]}]
    /\ plant' = [plant EXCEPT !.outbox = IF fate = "refused" THEN @ ELSE @ + 1]
    /\ UNCHANGED <<stint, loadTick>>
LoadTick ==
  /\ Sending /\ loadTick < Duration(Rate) + load.late /\ loadTick' = loadTick + 1
  /\ UNCHANGED <<stint, offer, plant>>
AllAnswered ==
  /\ Sending /\ offer.next = Rate.planned /\ offer.queue = <<>> /\ offer.hands = {}
  /\ stint' = [stint EXCEPT !.at = "settling"]
  /\ UNCHANGED <<loadTick, offer, plant>>

\* The window reaches from the first due alert to an interval after the last post.
WindowOf(rate, answers) ==
  Max({Duration(rate)} \cup {a.at + rate.interval : a \in answers})
ProfileOf(rate, before, after) ==
  LET answers == offer.answers
      failures == Cardinality({a \in answers : ~a.ok})
      drops == Cardinality(offer.lost)
  IN  [deviation |-> {Beyond(Cardinality(answers) * rate.interval, WindowOf(rate, answers))},
       errors |-> {Percent(failures + drops, rate.planned)}, dropped |-> {drops},
       p95 |-> {Percentile(answers, 95)}, p99 |-> {Percentile(answers, 99)},
       duration |-> {Duration(rate)},
       completion |-> CompletionOf(before.rca, after.rca, rate.planned),
       outbox |-> after.outbox, lag |-> after.lag]

\* Entry of the report: the gates' verdicts, and what they were given for.
Judged(f, rate, answers, really) ==
  [measured |-> f, ingests |-> Ingests(f), completes |-> Completes(f),
   rate |-> rate, answers |-> answers, really |-> really]
EndsWith(entry) ==
  /\ profiles' = Append(profiles, entry)
  /\ stint' = IF stint.rate < Len(load.rates)
             THEN [rate |-> stint.rate + 1,
                   at |-> IF load.mode = "http" THEN "before" ELSE load.mode]
             ELSE [stint EXCEPT !.at = "done"]

\* After a pause in which the platform may catch up.
EndRate ==
  /\ stint.at = "settling"
  /\ \E after \in ReadMetrics :
       EndsWith(Judged(ProfileOf(Rate, begun, after), Rate, offer.answers,
                     after.done - begun.done))
  /\ offer' = NoOffer /\ begun' = NothingRead
  /\ UNCHANGED <<load, loadTick, plant, sampled, measuring>>

\* With k6 the numbers come out of its files: a metric k6 did not write is not there,
\* but what it dropped is none then; what the platform did comes of a file too, if any.
SummaryProfile(s) ==
  [deviation |-> {Beyond(n * Rate.interval, w) : n \in s.count, w \in s.duration},
   errors |-> s.errors, dropped |-> IF s.dropped = {} THEN {0} ELSE s.dropped,
   p95 |-> s.p95, p99 |-> s.p99, duration |-> s.duration,
   completion |-> s.completion, outbox |-> s.outbox, lag |-> s.lag]
ReadSummary ==
  /\ stint.at = "k6"
  /\ \E s \in load.summaries : EndsWith(Judged(SummaryProfile(s), Rate, {}, 0))
  /\ UNCHANGED <<load, loadTick, offer, plant, sampled, measuring, begun>>
\* Without a target the report is a plan: nothing is filled in, nothing passes.
PlanOnly ==
  /\ stint.at = "contract"
  /\ EndsWith([Judged(Unmeasured, Rate, {}, 0) EXCEPT !.ingests = FALSE, !.completes = FALSE])
  /\ UNCHANGED <<load, loadTick, offer, plant, sampled, measuring, begun>>

----------------------------------------------------------------------------
(* The platform beside it.                                                 *)

Besides == load.runs /\ stint.at # "done" /\ UNCHANGED <<load, stint, loadTick, offer, begun, profiles>>

CountOutbox ==
  /\ Besides /\ sampled' = [sampled EXCEPT !.outbox = {plant.outbox}]
  /\ UNCHANGED <<plant, measuring>>
DispatchEvent ==
  /\ Besides /\ plant.outbox > 0
  /\ \E p \in Partition : plant' = [plant EXCEPT !.outbox = @ - 1, !.end[p] = @ + 1]
  /\ UNCHANGED <<sampled, measuring>>
\* The client learns the end of a partition with what it fetches of it.
Fetch ==
  /\ Besides
  /\ \E p \in plant.assigned : plant' = [plant EXCEPT !.known[p] = {plant.end[p]}]
  /\ UNCHANGED <<sampled, measuring>>
\* A record is worked off between measurements, for both are of one loop.
HandleRecord ==
  /\ Besides /\ measuring = {}
  /\ \E p \in plant.assigned :
       /\ \E n \in plant.known[p] : plant.position[p] < n
       /\ plant' = [plant EXCEPT !.position[p] = @ + 1, !.done = @ + 1,
                                 !.counter = {1 + (IF @ = {} THEN 0 ELSE Min(@))}]
  /\ UNCHANGED <<sampled, measuring>>
Revoke ==
  /\ Besides
  /\ \E p \in plant.assigned \cap load.shared :
       plant' = [plant EXCEPT !.assigned = @ \ {p}, !.known[p] = {}]
  /\ UNCHANGED <<sampled, measuring>>
PlatformRestarts ==
  /\ Besides /\ plant.restarts < load.restarts
  /\ plant' = [plant EXCEPT !.known = [p \in Partition |-> {}], !.counter = {},
                            !.assigned = Partition, !.restarts = @ + 1]
  /\ sampled' = [sampled EXCEPT !.outbox = {}, !.lag = NoLag]
  /\ measuring' = {}

\* A measurement: of each assigned partition the end the client knows and its
\* position, unless either cannot be had; late or broken off, it is not up.
ShownLag(lag) == sampled' = [sampled EXCEPT !.lag = lag, !.readings = @ + 1]
BeginMeasure ==
  /\ Besides /\ measuring = {} /\ sampled.readings < load.readings
  /\ IF plant.assigned = {} \/ Cardinality(plant.assigned) > MaxPartitions
     THEN ShownLag([NoLag EXCEPT !.assigned = Cardinality(plant.assigned)]) /\ UNCHANGED measuring
     ELSE /\ measuring' = {[left |-> plant.assigned, of |-> plant.assigned, measured |-> 0,
                            total |-> 0, first |-> plant.known]}
          /\ UNCHANGED sampled
  /\ UNCHANGED plant
MeasurePartition ==
  \E m \in measuring :
    /\ Besides /\ m.left # {}
    /\ LET p == Min(m.left)
           rest == [m EXCEPT !.left = @ \ {p}]
       IN  \/ measuring' = {rest}     \* the position could not be read
           \/ /\ p \in plant.assigned
              /\ \E n \in plant.known[p] :
                   /\ plant.position[p] <= n
                   /\ measuring' = {[rest EXCEPT !.measured = @ + 1,
                                                 !.total = @ + n - plant.position[p]]}
    /\ UNCHANGED <<plant, sampled>>
EndMeasure ==
  \E m \in measuring, inTime \in BOOLEAN :
    /\ Besides /\ (inTime => m.left = {})
    /\ ShownLag([up |-> inTime /\ m.measured = Cardinality(m.of),
                 assigned |-> Cardinality(m.of), measured |-> m.measured, total |-> m.total])
    /\ measuring' = {}
    /\ UNCHANGED plant

LoadNext ==
  \/ StartRate \/ OfferAlert \/ PostAlert \/ AlertAnswered \/ LoadTick \/ AllAnswered
  \/ EndRate \/ ReadSummary \/ PlanOnly
  \/ CountOutbox \/ DispatchEvent \/ Fetch \/ HandleRecord \/ Revoke \/ PlatformRestarts
  \/ BeginMeasure \/ MeasurePartition \/ EndMeasure

----------------------------------------------------------------------------
LoadTypeOK ==
  /\ stint.rate \in 1..Len(load.rates)
  /\ stint.at \in {"before", "sending", "settling", "k6", "contract", "lag", "done"}
  /\ loadTick \in Nat
  /\ Len(offer.queue) <= QueueLimit /\ Cardinality(offer.hands) <= LoadSenders
  /\ plant.outbox \in Nat /\ plant.assigned \subseteq Partition
  /\ \A p \in Partition : plant.position[p] <= plant.end[p]
  /\ Cardinality(measuring) <= 1
  /\ Len(profiles) <= Len(load.rates)

\* Each alert that was due is in one place: queued, in hand, answered or dropped;
\* when a rate is over none is on the way.  run_load.py:494-555.
AlertsAreAccounted ==
  LET queued == {offer.queue[i] : i \in 1..Len(offer.queue)}
      held == {h.alert : h \in offer.hands}
      answered == {a.alert : a \in offer.answers}
  IN  /\ queued \cup held \cup answered \cup offer.lost = 0..(offer.next - 1)
      /\ Len(offer.queue) + Cardinality(offer.hands) + Cardinality(offer.answers)
           + Cardinality(offer.lost) = offer.next

\* A rate passes the ingestion gate only if every alert of it was posted and taken, the
\* last not later than the tolerance allows, whatever the queue and the senders did
\* meanwhile.  run_load.py:233-268, 494-561.
IngestionIsEarned ==
  \A i \in 1..Len(profiles) :
    LET e == profiles[i]
    IN  load.mode = "http" /\ e.ingests =>
          /\ {a.alert : a \in e.answers} = 0..(e.rate.planned - 1)
          /\ Cardinality({a \in e.answers : ~a.ok}) * 100 < ErrorLimit * e.rate.planned
          /\ \A a \in e.answers :
               (a.at + e.rate.interval) * (100 - ArrivalTolerance) <= 100 * Duration(e.rate)

\* A rate passes end to end only if the platform really completed as many analyses
\* between its two readings, though its counters start again with every restart
\* and a reading may be missing.  run_load.py:271-292, 564-600, 734-743.
CompletionIsEarned ==
  \A i \in 1..Len(profiles) :
    LET e == profiles[i]
    IN  load.mode = "http" /\ e.completes =>
          e.ingests /\ e.really * 100 >= CompletionLimit * e.rate.planned

\* A lag that is shown as measured lies between what the client knew to be waiting when
\* it began and what really waits now.  consumer.py:436-502.
LagIsBracketed ==
  [][\A m \in measuring : measuring' = {} /\ sampled'.lag.up =>
       LET Sum(F(_)) == MapThenSumSet(F, m.of)
           Known(p) == IF m.first[p] = {} THEN 0 ELSE Min(m.first[p]) - plant.position[p]
           Real(p) == plant.end[p] - plant.position[p]
       IN  Sum(Known) <= sampled'.lag.total /\ sampled'.lag.total <= Sum(Real)]_loadVars

LoadsAreEarned == AlertsAreAccounted /\ IngestionIsEarned /\ CompletionIsEarned

=============================================================================
