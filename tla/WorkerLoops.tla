---------------------------- MODULE WorkerLoops ----------------------------
(* The loop of a worker: a cycle, a pause, the next cycle, until it is told to  *)
(* stop or is cancelled.  How long it pauses depends on what its cycles came    *)
(* to, and its health tells operators how it is doing.  Five workers, two of    *)
(* them around a consumer that is started and closed, differ in what a cycle   *)
(* may come to and in what they do about it.                                   *)
EXTENDS Naturals, Sequences, FiniteSets

CONSTANTS
  ActivePause,  \* the pause after a cycle that found work
  IdlePause,    \* the pause of a worker that found none, where it is always the same
  FirstPause,   \* the first pause of a streak, by its kind
  LongestPause, \* the longest one, by its kind
  MaxCycles     \* bound on the cycles of a loop

Streaks == {"error", "empty", "retry"}

\* Powers of two are natural numbers: said here for the proofs, whose provers know only
\* that they are integers.
ASSUME LoopAssumption ==
  /\ {ActivePause, IdlePause} \subseteq Nat \ {0}
  /\ FirstPause \in [Streaks -> Nat \ {0}] /\ LongestPause \in [Streaks -> Nat \ {0}]
  /\ \A k \in Streaks : LongestPause[k] >= FirstPause[k]
  /\ MaxCycles \in Nat /\ \A n \in 0..MaxCycles : 2^n \in Nat

VARIABLES
  worker,      \* which of the five it is
  loop,        \* where the loop is
  stopAsked,   \* the stop event
  health,      \* what is reported of it
  streak,      \* cycles without work, and with a message that has to come again
  pause,       \* the last pause
  outcomes,    \* what the cycles came to
  connected    \* of a consumer: started, and closed

loopVars == <<worker, loop, stopAsked, health, streak, pause, outcomes, connected>>

Workers5 == {"outbox", "rca_consumer", "tickets_consumer", "retention", "reclaim"}
Consumes(w) == w \in {"rca_consumer", "tickets_consumer"}

\* What a cycle may come to.
Outcomes(w) ==
  CASE w = "outbox" -> {"failed", "empty", "work"}
    [] w = "rca_consumer" -> {"failed", "empty", "work", "retry", "dead"}
    [] w = "tickets_consumer" -> {"failed", "empty", "work", "ignored", "retry", "dead"}
    [] w = "retention" -> {"failed", "empty", "part", "work"}
    [] w = "reclaim" -> {"failed", "empty", "work"}

----------------------------------------------------------------------------
(* Pauses.                                                                 *)

\* Doubled for every further cycle of the streak, up to the longest one; between a
\* half and the whole of it, by the worker and the streak.
Doubled(kind, n) ==
  LET grown == FirstPause[kind] * 2^(n - 1)
  IN IF grown <= LongestPause[kind] THEN grown ELSE LongestPause[kind]
BackoffDelay(kind, n) == {Doubled(kind, n), (Doubled(kind, n) + 1) \div 2}

Settles(state, failures) ==
  health' = [health EXCEPT !.state = state, !.failures = failures, !.cycles = @ + 1]
PausesFor(delays) == pause' \in delays

\* An exception: it counts with the messages that have to come again, whose own
\* streak goes on after it, as that of the empty cycles does.
CycleFails ==
  /\ Settles("DEGRADED", health.failures + 1)
  /\ PausesFor(BackoffDelay("error", health.failures + 1))
  /\ UNCHANGED streak

\* A message that has to come again.
Retries ==
  /\ streak' = [streak EXCEPT !.retry = @ + 1, !.empty = 0]
  /\ Settles("DEGRADED", health.failures + 1)
  /\ PausesFor(BackoffDelay("retry", streak.retry + 1))

\* Nothing was there: a loop around a queue looks less and less often, the others
\* keep their time.
FindsNothing ==
  /\ streak' = [retry |-> 0, empty |-> streak.empty + 1]
  /\ Settles("RUNNING", 0)
  /\ PausesFor(IF worker \in {"retention", "reclaim"} THEN {IdlePause}
               ELSE BackoffDelay("empty", streak.empty + 1))

FindsWork(outcome) ==
  /\ streak' = [retry |-> 0, empty |-> 0]
  /\ Settles("RUNNING", 0)
  /\ PausesFor(IF worker = "reclaim" \/ outcome = "part" THEN {IdlePause} ELSE {ActivePause})

----------------------------------------------------------------------------
(* The loop.                                                               *)

LoopGoes(at) == loop' = at

\* The loop is left; a consumer has to be closed first.
LeavesLoop ==
  IF Consumes(worker) THEN LoopGoes("closing") /\ UNCHANGED health
  ELSE LoopGoes("over") /\ health' = [health EXCEPT !.state = "STOPPED"]

RunsLoop ==
  /\ loop = "new"
  /\ health' = [health EXCEPT !.state = "RUNNING"]
  /\ LoopGoes(IF Consumes(worker) THEN "connecting" ELSE "looking")
  /\ UNCHANGED <<worker, stopAsked, streak, pause, outcomes, connected>>

\* A consumer that does not start is closed all the same.
ConsumerStarts ==
  /\ loop = "connecting"
  /\ \/ LoopGoes("looking") /\ connected' = [connected EXCEPT !.started = @ + 1]
     \/ LoopGoes("closing") /\ UNCHANGED connected
  /\ UNCHANGED <<worker, stopAsked, health, streak, pause, outcomes>>

\* The stop event is looked at before every cycle and after it.
BeginsCycle ==
  /\ loop = "looking"
  /\ IF stopAsked THEN LeavesLoop ELSE LoopGoes("cycle") /\ UNCHANGED health
  /\ Len(outcomes) < MaxCycles
  /\ UNCHANGED <<worker, stopAsked, streak, pause, outcomes, connected>>

Reaches(outcome) ==
  CASE outcome = "failed" -> CycleFails
    [] outcome = "retry" -> Retries
    [] outcome = "empty" -> FindsNothing
    [] OTHER -> FindsWork(outcome)

EndsCycle ==
  /\ loop = "cycle"
  /\ \E outcome \in Outcomes(worker) :
       Reaches(outcome) /\ outcomes' = Append(outcomes, outcome)
  /\ LoopGoes("cycled")
  /\ UNCHANGED <<worker, stopAsked, connected>>

AfterCycle ==
  /\ loop = "cycled"
  /\ IF stopAsked THEN LeavesLoop ELSE LoopGoes("pausing") /\ UNCHANGED health
  /\ UNCHANGED <<worker, stopAsked, streak, pause, outcomes, connected>>

\* The pause is over, or cut short by the stop.
PauseEnds ==
  /\ loop = "pausing"
  /\ LoopGoes("looking")
  /\ UNCHANGED <<worker, stopAsked, health, streak, pause, outcomes, connected>>

RequestStop ==
  /\ ~stopAsked
  /\ stopAsked' = TRUE
  /\ health' = IF loop \in {"new", "over"} THEN health ELSE [health EXCEPT !.state = "STOPPING"]
  /\ UNCHANGED <<worker, loop, streak, pause, outcomes, connected>>

CancelLoop ==
  /\ loop \in {"connecting", "cycle", "pausing"}
  /\ IF Consumes(worker)
     THEN LoopGoes("closing") /\ health' = [health EXCEPT !.state = "STOPPING"]
     ELSE LoopGoes("over") /\ health' = [health EXCEPT !.state = "STOPPED"]
  /\ UNCHANGED <<worker, stopAsked, streak, pause, outcomes, connected>>

\* Closed, or not quite: the worker counts as stopped in any case.
ConsumerCloses5 ==
  /\ loop = "closing"
  /\ LoopGoes("over")
  /\ connected' = [connected EXCEPT !.closed = @ + 1]
  /\ health' = [health EXCEPT !.state = "STOPPED"]
  /\ UNCHANGED <<worker, stopAsked, streak, pause, outcomes>>

----------------------------------------------------------------------------
LoopsInit ==
  /\ loop = "new"
  /\ stopAsked = FALSE
  /\ health = [state |-> "STOPPED", failures |-> 0, cycles |-> 0]
  /\ streak = [retry |-> 0, empty |-> 0]
  /\ pause = 0
  /\ outcomes = <<>>
  /\ connected = [started |-> 0, closed |-> 0]

LoopsNext ==
  \/ RunsLoop \/ ConsumerStarts \/ BeginsCycle \/ EndsCycle \/ AfterCycle \/ PauseEnds
  \/ RequestStop \/ CancelLoop \/ ConsumerCloses5

----------------------------------------------------------------------------
LoopsTypeOK ==
  /\ worker \in Workers5
  /\ loop \in {"new", "connecting", "looking", "cycle", "cycled", "pausing", "closing", "over"}
  /\ stopAsked \in BOOLEAN
  /\ health.state \in {"STOPPED", "RUNNING", "DEGRADED", "STOPPING"}
  /\ outcomes \in Seq(Outcomes(worker))
  /\ {pause, health.failures, health.cycles} \subseteq Nat

\* The cycles of some kind since the last one of another.
CyclesSince(counted, reset) ==
  Cardinality({n \in DOMAIN outcomes :
    /\ outcomes[n] \in counted
    /\ \A m \in DOMAIN outcomes : m > n => outcomes[m] \notin reset})
Works == {"work", "part", "ignored", "dead"}
FailuresInARow == CyclesSince({"failed", "retry"}, Works \cup {"empty"})

\* A worker looks again soon after it found something, backs off while it fails or
\* finds nothing, and never for longer, or shorter by more than a half, than it is
\* told to.  outbox_worker.py:164-228, ticket_submission_consumer_runner.py:226-343.
PausesFollowHistory ==
  loop = "pausing" =>
    LET last == outcomes[Len(outcomes)]
        Within(kind, n) == 2 * pause >= Doubled(kind, n) /\ pause <= Doubled(kind, n)
    IN CASE last = "failed" -> Within("error", FailuresInARow)
         [] last = "retry" -> Within("retry", CyclesSince({"retry"}, Works \cup {"empty"}))
         [] last = "empty" /\ worker \notin {"retention", "reclaim"} ->
              Within("empty", CyclesSince({"empty"}, Works \cup {"retry"}))
         [] last \in Works \ {"part"} /\ worker # "reclaim" -> pause = ActivePause
         [] OTHER -> pause = IdlePause

\* While no stop is under way the reported state is the last cycle's, and the
\* reported failures are those since the last good one.  STOPPED means that nothing
\* runs any more.  rca_consumer_runner.py:169-281.
HealthIsTrue ==
  /\ health.failures = FailuresInARow
  /\ health.state = "DEGRADED" => health.failures > 0
  /\ loop \notin {"new", "closing", "over"} /\ health.state = "RUNNING" =>
       health.failures = 0
  /\ health.state = "STOPPED" <=> loop \in {"new", "over"}

\* A consumer is closed once, whatever ended the loop, and not before.
\* rca_consumer_runner.py:181-200.
ClosedInTheEnd ==
  /\ connected.started <= 1
  /\ connected.closed = IF Consumes(worker) /\ loop = "over" THEN 1 ELSE 0

\* No cycle begins after the stop.  outbox_worker.py:141-149.
NoCycleAfterStop == [][stopAsked /\ loop # "cycle" => loop' # "cycle"]_loopVars

LoopsAreSound == PausesFollowHistory /\ HealthIsTrue /\ ClosedInTheEnd
=============================================================================
