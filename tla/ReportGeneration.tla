-------------------------- MODULE ReportGeneration --------------------------
(* Reports by a language model: providers asked in order, a strict check of  *)
(* what they answer against the candidates computed before, a circuit breaker *)
(* around it, and the deterministic report for whatever goes wrong.  Requests *)
(* share one event loop: what is between two awaits is one step.             *)
EXTENDS Integers, Sequences, FiniteSets

CONSTANTS
  Asker,             \* requests for a report
  Providers,         \* how many providers there are
  FailureThreshold,
  RecoveryTimeout,
  ModelTimeout,      \* timeout of a request over all its providers
  LastTick           \* bound of the clock

ASSUME GenerationAssumption ==
  /\ {Providers, FailureThreshold, RecoveryTimeout, ModelTimeout} \subseteq Nat \ {0}
  /\ LastTick \in Nat

VARIABLES
  breaker,     \* generation, failures in a row, when it closes, probe under way
  asking,      \* of each request: where it is, its permit, its provider
  produced,    \* of each request: its report
  candidates,  \* the candidates of the incident, best first
  tick         \* the monotonic clock

generationVars == <<breaker, asking, produced, candidates, tick>>

Closed0 == -1          \* "open_until is None"
NoPermit == [generation |-> -1, half_open |-> FALSE]
NoReport == [status |-> "NONE", candidate |-> "none", confidence |-> 0, by |-> "none"]
Deterministic ==
  [status |-> "UNDETERMINED", candidate |-> "none", confidence |-> 0, by |-> "rules"]

----------------------------------------------------------------------------
(* What an answer is worth.  A candidate: its identity is its id; "score" is *)
(* in tenths, "clean" says that nothing contradicts it or is missing.      *)

Ids == {c.id : c \in {candidates[i] : i \in DOMAIN candidates}}
CandidateOf(id) == CHOOSE c \in {candidates[i] : i \in DOMAIN candidates} : c.id = id

\* What a model may say: "root" names the cause it describes, by the candidate
\* with that identity.
ModelAnswers ==
  [contract : {"legacy", "candidates"},
   status : {"CONFIRMED", "CANDIDATE", "UNDETERMINED", "NO_ACTIONABLE_ROOT_CAUSE"},
   selected : Ids \cup {"null", "other"}, root : Ids \cup {"null", "other"},
   grounded : BOOLEAN]

\* The candidate an answer is about; with a single one there is no choice.
Selected(answer) ==
  IF answer.status = "UNDETERMINED" THEN "none"
  ELSE IF answer.contract = "legacy"
       THEN IF candidates = <<>> THEN "none" ELSE candidates[1].id
  ELSE IF answer.selected \notin Ids /\ Cardinality(Ids) = 1 THEN candidates[1].id
  ELSE IF answer.selected \in Ids THEN answer.selected
  ELSE "none"

\* The contract: nothing is confirmed, the evidence cited was in the request,
\* and conclusion, candidate and cause agree.
Acceptable(answer) ==
  /\ answer.status # "CONFIRMED"
  /\ answer.grounded
  /\ IF answer.status = "UNDETERMINED"
     THEN answer.contract = "candidates" => answer.selected = "null" /\ answer.root = "null"
     ELSE /\ Selected(answer) # "none"
          /\ CandidateOf(Selected(answer)).score >= 5
          /\ answer.status = "NO_ACTIONABLE_ROOT_CAUSE" =>
               /\ CandidateOf(Selected(answer)).kind = "no_action"
               /\ answer.contract = "candidates" => answer.root = "null"
          /\ answer.status = "CANDIDATE" /\ answer.contract = "candidates" =>
               answer.root = Selected(answer)

Cap(id) ==
  IF id = "none" THEN 10
  ELSE IF CandidateOf(id).score >= 8 /\ CandidateOf(id).clean THEN 9 ELSE 7

\* The report of an answer the model is fully confident of.
ReportOf(answer) ==
  [status |-> answer.status, candidate |-> Selected(answer),
   confidence |-> Cap(Selected(answer)), by |-> "model"]

\* What comes of the answers there can be.
Worth == {IF Acceptable(a) THEN ReportOf(a) ELSE Deterministic : a \in ModelAnswers}

----------------------------------------------------------------------------
(* The breaker.                                                            *)

ClosedNow == breaker.open_until = Closed0

Settled(c) == [asking EXCEPT ![c].at = "done"]
Give(c, report) == produced' = [produced EXCEPT ![c] = report]

\* A permit, or the deterministic report while the breaker is open.
AskModel(c) ==
  /\ asking[c].at = "idle"
  /\ IF ClosedNow \/ (breaker.open_until <= tick /\ ~breaker.half_open)
     THEN /\ asking' = [asking EXCEPT ![c] =
               [at |-> "asking", provider |-> 1, since |-> tick,
                permit |-> [generation |-> breaker.generation, half_open |-> ~ClosedNow]]]
          /\ breaker' = [breaker EXCEPT !.half_open = @ \/ ~ClosedNow]
          /\ UNCHANGED produced
     ELSE /\ asking' = Settled(c)
          /\ Give(c, Deterministic)
          /\ UNCHANGED breaker
  /\ UNCHANGED <<candidates, tick>>


\* The breaker has not changed its state since the permit was given.
Current(c) == asking[c].permit.generation = breaker.generation

Succeed(c) ==
  breaker' = IF ~Current(c) THEN breaker
             ELSE IF asking[c].permit.half_open
             THEN [generation |-> breaker.generation + 1, failures |-> 0,
                   open_until |-> Closed0, half_open |-> FALSE]
             ELSE [breaker EXCEPT !.failures = 0]

Fail(c) ==
  breaker' = IF ~Current(c) THEN breaker
             ELSE IF asking[c].permit.half_open \/ breaker.failures + 1 >= FailureThreshold
             THEN [generation |-> breaker.generation + 1, failures |-> 0,
                   open_until |-> tick + RecoveryTimeout, half_open |-> FALSE]
             ELSE [breaker EXCEPT !.failures = @ + 1]

\* The provider answers; the answer is checked.
ProviderAnswers(c) ==
  /\ asking[c].at = "asking"
  /\ \E report \in Worth :
       /\ Give(c, report)
       /\ IF report.by = "model" THEN Succeed(c) ELSE Fail(c)
  /\ asking' = Settled(c)
  /\ UNCHANGED <<candidates, tick>>

\* The provider fails; the next one is asked, until there is none.
ProviderFails(c) ==
  /\ asking[c].at = "asking"
  /\ IF asking[c].provider < Providers
     THEN /\ asking' = [asking EXCEPT ![c].provider = @ + 1]
          /\ UNCHANGED <<breaker, produced>>
     ELSE /\ asking' = Settled(c)
          /\ Fail(c)
          /\ Give(c, Deterministic)
  /\ UNCHANGED <<candidates, tick>>

\* One timeout covers all providers, each of which has as long: one that hangs
\* leaves no time for the next.
ModelTimesOut(c) ==
  /\ asking[c].at = "asking"
  /\ tick >= asking[c].since + ModelTimeout
  /\ asking' = Settled(c)
  /\ Fail(c)
  /\ Give(c, Deterministic)
  /\ UNCHANGED <<candidates, tick>>

\* Mutation: a cancelled probe keeps its place.
KeepProbe(c) == UNCHANGED breaker

\* A cancelled probe makes room for another.
ReleaseProbe(c) ==
  breaker' = IF Current(c) /\ asking[c].permit.half_open
             THEN [breaker EXCEPT !.half_open = FALSE] ELSE breaker

GenerationCancelled(c) ==
  /\ asking[c].at = "asking"
  /\ asking' = Settled(c)
  /\ ReleaseProbe(c)
  /\ UNCHANGED <<produced, candidates, tick>>

\* The process goes on to the next run.
NextRequest(c) ==
  /\ asking[c].at = "done"
  /\ asking' = [asking EXCEPT ![c] = [at |-> "idle", provider |-> 0, since |-> 0,
                                      permit |-> NoPermit]]
  /\ Give(c, NoReport)
  /\ UNCHANGED <<breaker, candidates, tick>>

TickPasses ==
  /\ tick < LastTick
  /\ \A c \in Asker : asking[c].at = "asking" => tick < asking[c].since + ModelTimeout
  /\ tick' = tick + 1
  /\ UNCHANGED <<breaker, asking, produced, candidates>>

\* Candidates come in an order.
RankingAsks(R) == \A r \in R : r \in Seq({r[n] : n \in DOMAIN r})

GenerationInit ==
  /\ breaker = [generation |-> 0, failures |-> 0, open_until |-> Closed0, half_open |-> FALSE]
  /\ asking = [c \in Asker |-> [at |-> "idle", provider |-> 0, since |-> 0,
                                permit |-> NoPermit]]
  /\ produced = [c \in Asker |-> NoReport]
  /\ tick = 0

GenerationNext ==
  \/ TickPasses
  \/ \E c \in Asker : \/ AskModel(c) \/ ProviderAnswers(c) \/ ProviderFails(c)
                      \/ ModelTimesOut(c) \/ GenerationCancelled(c) \/ NextRequest(c)

----------------------------------------------------------------------------
GenerationTypeOK ==
  /\ breaker.generation \in Nat /\ breaker.failures \in 0..(FailureThreshold - 1)
  /\ breaker.open_until \in Closed0..(LastTick + RecoveryTimeout)
  /\ breaker.half_open \in BOOLEAN
  /\ \A c \in Asker : /\ asking[c].at \in {"idle", "asking", "done"}
                      /\ asking[c].provider \in 0..Providers
                      /\ produced[c].by \in {"none", "rules", "model"}
  /\ tick \in 0..LastTick

Probing(c) == asking[c].at = "asking" /\ Current(c) /\ asking[c].permit.half_open

\* The place of the probe is taken by exactly one request, and given back
\* however that request ends: the breaker never waits for a probe nobody makes.
\* llm_report_generator.py:573-655.
ProbeIsHeld ==
  /\ breaker.half_open <=> \E c \in Asker : Probing(c)
  /\ \A c, d \in Asker : Probing(c) /\ Probing(d) => c = d
  /\ breaker.half_open => ~ClosedNow

\* A report says no more than the candidates support: it never confirms, and
\* what it names is a candidate with a fair score, at no more confidence than
\* that candidate deserves.
ReportsAreSupported ==
  \A c \in Asker :
    produced[c].by = "model" =>
      /\ produced[c].status # "CONFIRMED"
      /\ produced[c].status \in {"CANDIDATE", "NO_ACTIONABLE_ROOT_CAUSE"} =>
           \E k \in DOMAIN candidates :
             /\ candidates[k].id = produced[c].candidate
             /\ candidates[k].score >= 5
             /\ produced[c].confidence > 7 => candidates[k].score >= 8 /\ candidates[k].clean
             /\ produced[c].status = "NO_ACTIONABLE_ROOT_CAUSE" =>
                  candidates[k].kind = "no_action"

\* An open breaker keeps its time: no provider is asked before, and only the
\* success of a probe closes it, never a request from before it opened.
OpenKeepsItsTime ==
  [][/\ \A c \in Asker :
          asking'[c].at = "asking" /\ asking[c].at = "idle" =>
            ClosedNow \/ breaker.open_until <= tick
     /\ ~ClosedNow /\ breaker'.open_until # breaker.open_until =>
          \E c \in Asker : Probing(c) /\ asking'[c].at = "done"]_generationVars

\* The states of the report's making: one probe at a time, and supported reports.
ReportingIsSound == ProbeIsHeld /\ ReportsAreSupported
=============================================================================
