------------------------------ MODULE Benchmark ------------------------------
(* A batch of calls to a model and what is kept of it: the calls, some at a   *)
(* time and each repeated when the line fails; one prediction for each; the   *)
(* scores; and the files of one directory, written once, which a run that was *)
(* cut short leaves to the next one.                                        *)
EXTENDS Verdicts

CONSTANTS
  Trial,        \* the calls of a batch, 1..n, in the order they are made
  MaxTries,     \* calls made for one of them
  MaxAttempts   \* batches that are begun in one directory

VARIABLES
  bench,       \* what is asked: way, cases, truths, room, lenient
  trial,       \* of each call: where it is and how often it was made
  predicted,   \* of each call: its prediction, once there is one
  refused,     \* calls that brought no prediction of their own
  standing,       \* "ready", "calling", "gathered", "writing", "written" or an end
  written,     \* of each file: the attempt that wrote it and what it says
  attempt      \* batches begun

benchmarkVars == <<bench, trial, predicted, refused, standing, written, attempt>>

Artifact == <<"results", "report", "ablation", "bad_cases", "breakdown", "predictions">>
Artifacts == {Artifact[n] : n \in DOMAIN Artifact}
File == Artifacts \cup {"provider_failures", "provenance", "snapshot"}
NoFile == [attempt |-> 0, holds |-> {}]

Case(j) == bench.cases[j]
Truth(j) == CHOOSE t \in bench.truths : t.scenario = Case(j).scenario
BatchEnds == {"finished", "rejected", "aborted"}

BenchmarkTypeOK ==
  /\ trial \in [Trial -> [at : {"waiting", "calling", "done", "lost"}, tries : 0..MaxTries]]
  /\ DOMAIN predicted \subseteq Trial /\ refused \subseteq Trial
  /\ standing \in {"ready", "calling", "gathered", "writing", "written"} \cup BatchEnds
  /\ attempt \in 1..MaxAttempts
  /\ \A f \in File : written[f].attempt \in 0..MaxAttempts

Unasked == [j \in Trial |-> [at |-> "waiting", tries |-> 0]]

BenchmarkInit ==
  /\ trial = Unasked /\ predicted = <<>> /\ refused = {}
  /\ standing = "ready" /\ attempt = 1
  /\ written = [f \in File |-> NoFile]

----------------------------------------------------------------------------
(* Calls.                                                                   *)

\* What a suite must be before the first call is made: real where that is asked,
\* without encryption only where it is not; collected of every public scenario,
\* with nothing in it that gives an answer away.
ValidCase(c) == /\ c.evidence # <<>> /\ c.steps >= Cardinality(c.calls)
                /\ c.clean
ValidSuite ==
  /\ \A j \in Trial : ValidCase(Case(j))
  /\ bench.strict => bench.origin = "real"
  /\ bench.insecure => bench.origin # "real"
Collected ==
  LET public == {t.scenario : t \in bench.truths} IN
  bench.way = "runtime" => bench.strict /\ public \subseteq {Case(j).scenario : j \in Trial}
OpenBatch ==
  /\ standing = "ready"
  /\ IF bench.way = "contract"
     THEN /\ predicted' = [j \in Trial |-> ContractPrediction(Truth(j))]
          /\ standing' = IF \A t \in bench.truths : ValidTruth(t) THEN "gathered" ELSE "rejected"
     ELSE /\ standing' = IF Collected /\ ValidSuite THEN "calling" ELSE "rejected"
          /\ UNCHANGED predicted
  /\ UNCHANGED <<bench, trial, refused, written, attempt>>

InCall == {j \in Trial : trial[j].at = "calling"}

\* In their order, as many at a time as there is room for.
StartCall(j) ==
  /\ standing = "calling" /\ trial[j].at = "waiting"
  /\ \A k \in Trial : k < j => trial[k].at # "waiting"
  /\ Cardinality(InCall) < bench.room
  /\ trial' = [trial EXCEPT ![j] = [at |-> "calling", tries |-> 1]]
  /\ UNCHANGED <<bench, predicted, refused, standing, written, attempt>>

Keep(j, p) ==
  /\ trial' = [trial EXCEPT ![j].at = "done"]
  /\ predicted' = [k \in DOMAIN predicted \cup {j} |-> IF k = j THEN p ELSE predicted[k]]

\* The batch ends with the call; the others go on for nobody.
Break(j) ==
  /\ trial' = [k \in Trial |-> IF k = j \/ trial[k].at = "calling"
                                THEN [trial[k] EXCEPT !.at = "lost"] ELSE trial[k]]
  /\ standing' = "aborted"
  /\ UNCHANGED <<predicted, refused>>

\* What cannot be used is a failure that is scored, where the batch is lenient.
Unusable(j) ==
  IF bench.lenient
  THEN Keep(j, FailurePrediction(Case(j))) /\ refused' = refused \cup {j} /\ UNCHANGED standing
  ELSE Break(j)

\* The line failed: again, or given up.
LineFails(j) ==
  /\ standing = "calling" /\ trial[j].at = "calling"
  /\ IF trial[j].tries < MaxTries
     THEN trial' = [trial EXCEPT ![j].tries = @ + 1] /\ UNCHANGED <<predicted, refused, standing>>
     ELSE Unusable(j)
  /\ UNCHANGED <<bench, written, attempt>>

\* A status, a size, a body or a content that is none is not asked for again.
\* Lists that are null break the run itself.
Replied(j, a) ==
  /\ standing = "calling" /\ trial[j].at = "calling"
  /\ CASE a.kind = "null" -> Break(j)
       [] a.kind = "unreadable" \/ ~WellFormed(Normalized(a))
          \/ ~Admissible(Case(j), Normalized(a)) -> Unusable(j)
       [] OTHER -> /\ Keep(j, Prediction(Case(j), Normalized(a)))
                   /\ UNCHANGED <<refused, standing>>
  /\ UNCHANGED <<bench, written, attempt>>

Gather ==
  /\ standing = "calling" /\ \A j \in Trial : trial[j].at = "done"
  /\ standing' = "gathered"
  /\ UNCHANGED <<bench, trial, predicted, refused, written, attempt>>

----------------------------------------------------------------------------
(* Files.                                                                   *)

\* Every scenario of the catalog was run, and no other.
SuiteFits ==
  /\ {Case(j).scenario : j \in Trial} = {t.scenario : t \in bench.truths}
  /\ \A t \in bench.truths : t.version = bench.version /\ ValidTruth(t)

Scored == [j \in Trial |-> Marks(Truth(j), predicted[j])]

\* Evidence of one incident in the prediction of another, of which the last counts.
CrossCited ==
  {j \in Trial : \E k \in Trial :
     /\ k < j /\ Case(k).scenario # Case(j).scenario
     /\ (\A l \in Trial : k < l /\ l < j => Case(l).scenario # Case(k).scenario)
     /\ predicted[k].evidence \cap predicted[j].evidence # {}}

\* What did not pass, by all that went wrong with it.
BadCases ==
  {<<j, Scored[j].faults \cup ({Scored[j].failure} \ {"none"})>> :
     j \in {k \in Trial : ~Scored[k].passed}}

Results == [scores |-> Scored, summary |-> Summary(Scored), breakdown |-> Breakdown(Scored),
            bad_cases |-> BadCases, leaks |-> CrossCited, failures |-> Cardinality(refused)]

\* What was measured is scored, and refused a directory that holds a report.
TakeDirectory ==
  /\ standing = "gathered"
  /\ standing' = IF \/ bench.way # "contract" /\ ~SuiteFits
                 \/ \E f \in Artifacts : written[f].attempt # 0
              THEN "rejected" ELSE "writing"
  /\ UNCHANGED <<bench, trial, predicted, refused, written, attempt>>

Put(f, holds) == written' = [written EXCEPT ![f] = [attempt |-> attempt, holds |-> holds]]

\* One after another.
WriteReport(n) ==
  /\ standing = "writing"
  /\ written[Artifact[n]].attempt # attempt
  /\ \A k \in 1..(n - 1) : written[Artifact[k]].attempt = attempt
  /\ Put(Artifact[n], {Results})
  /\ standing' = IF n = Len(Artifact) THEN "written" ELSE standing
  /\ UNCHANGED <<bench, trial, predicted, refused, attempt>>

\* What goes with the report: failures by name, where it came from, what was seen.
Pending ==
  {f \in {"provider_failures", "provenance", "snapshot"} :
     /\ written[f].attempt # attempt
     /\ CASE f = "provider_failures" -> refused # {}
          [] OTHER -> bench.way = "runtime"}

WriteRest(f) ==
  /\ standing = "written" /\ f \in Pending
  /\ f = "snapshot" => Pending = {f}
  /\ f = "provenance" => "provider_failures" \notin Pending
  /\ IF f = "snapshot" /\ written[f].attempt # 0
     THEN standing' = "rejected" /\ UNCHANGED written
     ELSE Put(f, refused) /\ UNCHANGED standing
  /\ UNCHANGED <<bench, trial, predicted, refused, attempt>>

CloseBatch ==
  /\ standing = "written" /\ Pending = {}
  /\ standing' = "finished"
  /\ UNCHANGED <<bench, trial, predicted, refused, written, attempt>>

\* The process is cut short, or the batch is begun once more.
BeginAgain ==
  /\ standing # "ready" /\ attempt < MaxAttempts
  /\ attempt' = attempt + 1 /\ standing' = "ready"
  /\ trial' = Unasked /\ predicted' = <<>> /\ refused' = {}
  /\ UNCHANGED <<bench, written>>

BenchmarkNext ==
  \/ OpenBatch \/ Gather \/ TakeDirectory \/ CloseBatch \/ BeginAgain
  \/ \E j \in Trial : StartCall(j) \/ LineFails(j)
  \/ \E j \in Trial, a \in bench.answers : Replied(j, a)
  \/ \E n \in DOMAIN Artifact : WriteReport(n)
  \/ \E f \in File : WriteRest(f)

----------------------------------------------------------------------------
(* Properties.                                                              *)

\* A prediction says no more than the evidence: its root is a candidate no other is
\* far ahead of, is claimed, and every claim and edge has evidence; nothing to do is
\* a candidate's too; an open end is no surer than the reasoning was.
Grounded(case, p) ==
  /\ \A r \in p.root : \E c \in Offered(case) :
       /\ c.root = r /\ r.type # Actionless
       /\ \A b \in Offered(case) : b.score < c.score + Gap
  /\ (p.root # {}) = (p.status = AsCandidate)
  /\ p.root # {} => \E c \in p.claims : c.kind = "ROOT_CAUSE"
  /\ p.status = Actionless => \E c \in Offered(case) : c.root.type = Actionless
  /\ p.status = Open => p.confidence <= case.calibrated
  /\ Unsupported(p) = {} /\ p.evidence \subseteq Known0(case)

\* What passes was answered by the model, and its evidence led to the truth first or
\* nearly so (_build_prediction, score).
VerdictsAreEarned ==
  bench.way # "contract" =>
    \A j \in DOMAIN predicted :
      LET p == predicted[j] IN
      /\ Grounded(Case(j), p)
      /\ (p.failed <=> j \in refused)
      /\ \A t \in bench.truths :
           (t.scenario = p.scenario /\ Marks(t, p).passed) =>
             j \notin refused /\ \A r \in t.root : \E c \in Offered(Case(j)) : c.root = r

\* The truth itself passes, except one that is expected to stay open.
ContractHolds ==
  (bench.way = "contract" /\ standing \in {"gathered", "writing", "written"}) =>
    \A j \in Trial : Marks(Truth(j), predicted[j]).passed <=> Truth(j).status # Open

\* A report is of one batch, whole only with all its calls; what goes with it comes
\* after it, whatever was cut short before (_write_artifacts, run).
FilesAreOfOneBatch ==
  LET writers == {written[f].attempt : f \in File} \ {0} IN
  /\ Cardinality(writers) <= 1
  /\ \A f \in File \ Artifacts :
       written[f].attempt # 0 => \A g \in Artifacts : written[g].attempt # 0
  /\ \A f \in Artifacts, m \in UNION {written[g].holds : g \in Artifacts} :
       written[f].attempt # 0 => written[f].holds = {m}
  /\ \A m \in UNION {written[f].holds : f \in Artifacts} : DOMAIN m.scores = Trial
  /\ writers # {} /\ bench.strict => bench.origin = "real" /\ ~bench.insecure
  /\ standing = "finished" => (written["provider_failures"].attempt # 0) = (refused # {})

\* Where failures are to be kept, only an answer that breaks the run ends it early.
LenientGoesOn ==
  (bench.lenient /\ \A a \in bench.answers : a.kind # "null") => standing # "aborted"

BenchmarkIsSound ==
  VerdictsAreEarned /\ ContractHolds /\ FilesAreOfOneBatch /\ LenientGoesOn

=============================================================================
