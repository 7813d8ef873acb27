----------------------------- MODULE Experiments -----------------------------
(* What is asked of a model beyond the plain scenarios: the same snapshot with *)
(* its services renamed, its errors reworded, noise, or a kind of evidence     *)
(* taken away; the batches of each, in a directory of its own; and what is     *)
(* made of several of them: a report, an ablation, a batch merged of parts.    *)
(* A name is its base and whether it was renamed.                           *)
EXTENDS Naturals, Sequences, FiniteSets

CONSTANTS
  Experiment,     \* the directories, by name
  Measures,       \* what a batch may come to
  MostEvidence,   \* evidence a snapshot may hold
  MaxRestarts     \* times a cut-off run is begun again

VARIABLES
  study,        \* variants, cases, truths and parts
  directory,    \* of each experiment: the files in its directory
  progressOf,        \* of each: "idle", "prepared", "measured" or "ended"
  outcome,      \* of each: what was measured, if it was
  comparison,   \* what was made of all of them
  letIn,     \* the ways that passed the gate against a baseline
  merged,       \* what was made of the parts
  restarts

experimentVars == <<study, directory, progressOf, outcome, comparison, letIn, merged, restarts>>

----------------------------------------------------------------------------
(* Variants.                                                                *)

Name(base) == [base |-> base, renamed |-> FALSE]
OwnNames(case) == {case.service, case.entry} \ {"none"}

Renamed(names, own) ==
  {IF n.base \in own THEN [n EXCEPT !.renamed = TRUE] ELSE n : n \in names}

\* A case's texts are renamed by its own two names.
RenameServices(case) ==
  [case EXCEPT !.mentions = Renamed(@, OwnNames(case)), !.aliased = OwnNames(case)]

ParaphraseErrors(case) == [case EXCEPT !.errors = {"paraphrase" : e \in @}]

\* Of tenths, a half to the even side.
Rounded(tenths) ==
  LET whole == tenths \div 10  rest == tenths % 10 IN
  IF rest > 5 \/ (rest = 5 /\ whole % 2 = 1) THEN whole + 1 ELSE whole

\* At least one line of noise, and as many as the share asks for.
InjectNoise(case, tenths) ==
  LET share == Rounded(Cardinality(case.evidence) * tenths)
      count == IF share = 0 THEN 1 ELSE share IN
  [case EXCEPT !.evidence = @ \cup {[id |-> <<"noise", n>>, type |-> "LOG"] : n \in 1..count}]

\* A call left without evidence has failed.
RemoveEvidence(case, type) ==
  LET kept == {e \in case.evidence : e.type # type}
      ids == {e.id : e \in kept} IN
  [case EXCEPT !.evidence = kept,
     !.calls = {[c EXCEPT !.ids = @ \cap ids,
                          !.status = IF c.ids \cap ids # {} THEN @ ELSE "FAILED"] : c \in @}]

\* A signal of another kind, with the call that brought it.
AddSignal(case, id, type, tool) ==
  [case EXCEPT !.evidence = @ \cup {[id |-> <<id>>, type |-> type]},
     !.calls = @ \cup {[tool |-> tool, status |-> "SUCCEEDED", ids |-> {<<id>>}]},
     !.steps = IF @ > Cardinality(case.calls) THEN @ ELSE Cardinality(case.calls) + 1]

MutateCase(case, variant) ==
  CASE variant = "service_rename" -> RenameServices(case)
    [] variant = "error_paraphrase" -> ParaphraseErrors(case)
    [] variant = "noise_10" -> InjectNoise(case, 1)
    [] variant = "noise_50" -> InjectNoise(case, 5)
    [] variant = "missing_logs" -> RemoveEvidence(case, "LOG")
    [] variant = "missing_traces" -> RemoveEvidence(case, "TRACE")
    [] variant = "topology_shift" -> AddSignal(case, "shift", "TOPOLOGY", "topology.query")
    [] variant = "composite_fault" -> AddSignal(case, "distractor", "METRIC", "metrics.query")
    [] OTHER -> case

Mutated(v) == {MutateCase(c, study.variant[v]) : c \in study.cases}

\* No case may lose all its evidence; only a real snapshot is varied.
CanVary(v) == study.real /\ \A c \in Mutated(v) : c.evidence # {}

\* The truths are renamed by the names of all cases.
Aliases(v) == UNION {c.aliased : c \in Mutated(v)}
TransformedTruths(v) ==
  {[t EXCEPT !.names = Renamed(@, Aliases(v))] : t \in study.truths}

\* What the runner takes: no more evidence than the schema has room for.
FitsSchema(v) == \A c \in Mutated(v) :
  Cardinality(c.evidence) <= MostEvidence /\ c.steps >= Cardinality(c.calls)

----------------------------------------------------------------------------
(* Batches.                                                                 *)

Files == {"input", "results", "provenance"}

ExperimentsTypeOK ==
  /\ directory \in [Experiment -> SUBSET Files]
  /\ progressOf \in [Experiment -> {"idle", "prepared", "measured", "ended"}]
  /\ \A v \in Experiment : outcome[v] \subseteq Measures
  /\ restarts \in 0..MaxRestarts

ExperimentsInit ==
  /\ directory = [v \in Experiment |-> {}] /\ progressOf = [v \in Experiment |-> "idle"]
  /\ outcome = [v \in Experiment |-> {}]
  /\ comparison = {} /\ letIn = {} /\ merged = {} /\ restarts = 0

Become(v, state) == progressOf' = [progressOf EXCEPT ![v] = state]
PutIn(v, file) == directory' = [directory EXCEPT ![v] = @ \cup {file}]

\* The varied input is written first, and never twice.
Prepare(v) ==
  /\ progressOf[v] = "idle"
  /\ IF CanVary(v) /\ "input" \notin directory[v]
     THEN PutIn(v, "input") /\ Become(v, "prepared")
     ELSE Become(v, "ended") /\ UNCHANGED directory
  /\ UNCHANGED <<study, outcome, comparison, letIn, merged, restarts>>

\* Without a key, with an input that does not load, or refused by the model.
Forgo(v) ==
  /\ progressOf[v] = "prepared"
  /\ Become(v, "ended")
  /\ UNCHANGED <<study, directory, outcome, comparison, letIn, merged, restarts>>

Measure(v, m) ==
  /\ progressOf[v] = "prepared" /\ FitsSchema(v) /\ "results" \notin directory[v]
  /\ PutIn(v, "results") /\ outcome' = [outcome EXCEPT ![v] = {m}]
  /\ Become(v, "measured")
  /\ UNCHANGED <<study, comparison, letIn, merged, restarts>>

\* Where it came from is written after the results.
Trace(v) ==
  /\ progressOf[v] = "measured"
  /\ PutIn(v, "provenance") /\ Become(v, "ended")
  /\ UNCHANGED <<study, outcome, comparison, letIn, merged, restarts>>

\* A run is cut short, or begun again in its directory.
Restart(v) ==
  /\ progressOf[v] # "idle" /\ restarts < MaxRestarts
  /\ Become(v, "idle") /\ restarts' = restarts + 1
  /\ UNCHANGED <<study, directory, outcome, comparison, letIn, merged>>

----------------------------------------------------------------------------
(* What is made of several.                                                 *)

AccuracyDrop(clean, m) == IF clean.accuracy > m.accuracy THEN clean.accuracy - m.accuracy ELSE 0

ResultOf(v) == CHOOSE m \in outcome[v] : TRUE

\* A report reads all results, and where each came from.
Compare(base) ==
  /\ comparison = {}
  /\ \A v \in Experiment : {"results", "provenance"} \subseteq directory[v]
  /\ comparison' = {[base |-> base,
       drop |-> [v \in Experiment |-> AccuracyDrop(ResultOf(base), ResultOf(v))],
       leaks |-> Cardinality({v \in Experiment : ResultOf(v).leaked})]}
  /\ UNCHANGED <<study, directory, progressOf, outcome, letIn, merged, restarts>>

\* The dynamic way is let in when nothing gets worse and something cheaper.
DynamicGate(baseline, dynamic) ==
  /\ dynamic.accuracy >= baseline.accuracy
  /\ dynamic.recall >= baseline.recall
  /\ dynamic.unsupported <= baseline.unsupported
  /\ dynamic.tools < baseline.tools \/ dynamic.tokens < baseline.tokens

\* An ablation reads the results alone, and every way's.
Ablate(base, v) ==
  /\ v \notin letIn /\ \A k \in Experiment : "results" \in directory[k]
  /\ DynamicGate(ResultOf(base), ResultOf(v))
  /\ letIn' = letIn \cup {v}
  /\ UNCHANGED <<study, directory, progressOf, outcome, comparison, merged, restarts>>

\* Of runs with one number, the last part's counts; of one scenario and one make.
MergeParts ==
  LET n == Len(study.parts)
      runs == UNION {study.parts[i].runs : i \in 1..n}
      ids == {r.id : r \in runs}
      last(id) == CHOOSE r \in runs :
        /\ r.id = id
        /\ \E i \in 1..n : /\ r \in study.parts[i].runs
                           /\ \A k \in (i + 1)..n : \A q \in study.parts[k].runs : q.id # id
      kept == {last(id) : id \in ids} IN
  /\ merged = {} /\ n >= 2
  /\ \A i, k \in 1..n : study.parts[i].make = study.parts[k].make
  /\ \A r, q \in runs : r.id = q.id => r.scenario = q.scenario
  /\ Cardinality(kept) = study.needed
  /\ \A r \in kept : Cardinality({q \in kept : q.scenario = r.scenario}) = study.each
  /\ merged' = {[runs |-> kept, replaced |-> {q.id : q \in runs \ kept}]}
  /\ UNCHANGED <<study, directory, progressOf, outcome, comparison, letIn, restarts>>

ExperimentsNext ==
  \/ \E v \in Experiment : Prepare(v) \/ Forgo(v) \/ Trace(v) \/ Restart(v) \/ Compare(v)
  \/ \E v \in Experiment, m \in Measures : Measure(v, m)
  \/ \E base, v \in Experiment : Ablate(base, v)
  \/ MergeParts

----------------------------------------------------------------------------
(* Properties.                                                              *)

\* A variant changes what it is to change: calls that succeeded have evidence there is,
\* the kind taken away is gone, the cases stay apart by their evidence, and a truth that
\* names only its case's services is renamed as its case is (generalization.py:43-225,
\* generalization_runner.py:13-104).
VariantsAreTrue ==
  \A v \in Experiment : CanVary(v) =>
    /\ \A c \in Mutated(v) : \A q \in c.calls :
         /\ q.ids \subseteq {e.id : e \in c.evidence}
         /\ (study.variant[v] \in {"missing_logs", "missing_traces"} /\ q.status = "SUCCEEDED") =>
              q.ids # {}
    /\ \A c \in Mutated(v), t \in TransformedTruths(v) :
         (c.scenario = t.scenario /\ {n.base : n \in t.names} \subseteq OwnNames(c)) =>
           \A n \in t.names, k \in c.mentions : n.base = k.base => n = k

\* Nothing is measured twice in one directory, nothing reported without its results and
\* where they came from, and no drop hides a loss (run_generalization_variant.py,
\* report_generalization.py).
ReportsAreTraced ==
  /\ \A v \in Experiment :
       /\ "provenance" \in directory[v] => "results" \in directory[v]
       /\ "results" \in directory[v] => "input" \in directory[v] /\ outcome[v] # {}
  /\ \A c \in comparison, v \in Experiment :
       /\ "provenance" \in directory[v]
       /\ \A m \in outcome[v], b \in outcome[c.base] : m.accuracy + c.drop[v] >= b.accuracy

\* A merged batch has every scenario as often as asked, each number once
\* (merge_live_benchmark_shards.py).
MergedIsWhole ==
  \A m \in merged :
    /\ \A r, q \in m.runs : r.id = q.id => r = q
    /\ {r.id : r \in m.runs} = {r.id : r \in UNION {study.parts[i].runs : i \in DOMAIN study.parts}}
    /\ \A i \in DOMAIN study.parts :
         i = Len(study.parts) => study.parts[i].runs \subseteq m.runs

ExperimentsAreSound == VariantsAreTrue /\ ReportsAreTraced /\ MergedIsWhole

=============================================================================
