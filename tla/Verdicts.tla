------------------------------- MODULE Verdicts -------------------------------
(* What a benchmark makes of one answer of a model: the answer is put into    *)
(* shape, becomes a prediction bound to the candidates the evidence supports,  *)
(* and is scored against the truth of its scenario.  Scores are hundredths.   *)
(* A value that may be missing is a set of at most one element.               *)
EXTENDS Naturals, Sequences, FiniteSets

LOCAL INSTANCE FiniteSetsExt

CONSTANTS Gap, Retained   \* a score ahead by this much wins; candidates a rank counts

Actionless == "NO_ACTIONABLE_ROOT_CAUSE"
Open == "UNDETERMINED"
AsCandidate == "CANDIDATE"
AnyClaim == {"ROOT_CAUSE", "CHANGE", "DEPENDENCY_FAILURE", "AFFECTED_SERVICE", "CAUSAL_EDGE"}

----------------------------------------------------------------------------
(* Shape.                                                                   *)

\* A root makes the answer a candidate's; a candidate's without one is open.
NormalStatus(a) ==
  IF a.root # {} THEN AsCandidate ELSE IF a.status = AsCandidate THEN Open ELSE a.status

Normalized(a) ==
  LET quiet == NormalStatus(a) = Actionless IN
  [a EXCEPT !.status = NormalStatus(a),
            !.claims = {c \in @ : c.kind \in AnyClaim},
            !.edges = IF quiet THEN {} ELSE {e \in @ : e.from # e.to},
            !.services = IF quiet THEN {} ELSE @]

WellFormed(a) ==
  /\ a.status # "CONFIRMED"
  /\ (a.status = AsCandidate) = (a.root # {})

----------------------------------------------------------------------------
(* Selection.                                                               *)

Known0(case) == DOMAIN case.evidence
Referenced(a) ==
  a.cites \cup UNION {c.cites : c \in a.claims} \cup UNION {e.cites : e \in a.edges}

Best(case) == {case.ranked[n] : n \in DOMAIN case.ranked \cap {1}}
Offered(case) == {case.ranked[n] : n \in DOMAIN case.ranked}

\* What the model named: by number, or by its root, which the best stands in for.
Chosen(case, a) ==
  IF a.chosen # {} THEN {c \in Offered(case) : c.id \in a.chosen}
  ELSE IF a.root # {} THEN
    LET matching == {c \in Offered(case) : c.root \in a.root} IN
    IF matching # {} THEN matching ELSE Best(case)
  ELSE IF case.recommended /\ a.status \in {Open, Actionless} THEN Best(case)
  ELSE {}

\* An answer is refused that contradicts the evidence or its own choice.
Admissible(case, a) ==
  /\ Referenced(a) \subseteq Known0(case)
  /\ a.chosen # {} =>
       /\ Chosen(case, a) # {}
       /\ \A c \in Chosen(case, a) :
            /\ a.root \subseteq {c.root}
            /\ a.status = Actionless => c.root.type = Actionless

\* Mutation: the model's choice stands however far behind it is.
AsChosen(case, a) == Chosen(case, a)

\* A choice far behind the best gives way to it.
Picked(case, a) ==
  LET chosen == Chosen(case, a) IN
  IF \E c \in chosen, b \in Best(case) : b.score >= c.score + Gap THEN Best(case) ELSE chosen

Conclusion(c) ==
  IF c.root.type = Actionless THEN [root |-> {}, status |-> Actionless]
  ELSE [root |-> {c.root}, status |-> AsCandidate]

FinalOf(case, a) ==
  LET s == Picked(case, a) IN
  IF s = {} THEN [root |-> {}, status |-> Open]
  ELSE Conclusion(CHOOSE c \in s : TRUE)

\* Claims about a root that was replaced go with it; a root is always claimed.
ClaimsOf(case, a) ==
  LET kept == {c \in a.claims : c.cites # {}}
      end == FinalOf(case, a)
      others == IF end.root # a.root \/ end.status # a.status
                THEN {c \in kept : c.kind # "ROOT_CAUSE"} ELSE kept
      own == {[kind |-> "ROOT_CAUSE", cites |-> c.support, says |-> "selected"] :
                c \in Picked(case, a)} IN
  IF end.root # {} /\ ~\E c \in others : c.kind = "ROOT_CAUSE" THEN others \cup own
  ELSE others

----------------------------------------------------------------------------
(* Propagation.                                                             *)

EntryOf(case) == IF case.entry = "none" THEN case.service ELSE case.entry
Observed(case) == UNION {case.evidence[e].mentions : e \in Known0(case)}

OfSupport(case, a) ==
  LET s == Picked(case, a) IN
  IF s = {} THEN a.cites ELSE UNION {c.support : c \in s}

Propagating == {"APPLICATION_ERROR", "DEPLOYMENT_REGRESSION", "KNOWN_ERROR"}
Link(from, to, cites) == [from |-> from, to |-> to, cites |-> cites]

\* From the root to where users came in, or further down from there.
Propagation(case, root, support) ==
  LET entry == EntryOf(case)
      direct == {e \in support : entry \in case.evidence[e].mentions}
      down == {e \in support : case.evidence[e].downstream \ {root.service} # {}} IN
  IF support = {} THEN {}
  ELSE IF root.service = entry THEN
    IF root.type # "CASCADING_FAILURE" \/ down = {} THEN {}
    ELSE LET e == CHOOSE d \in down : \A o \in down : d <= o IN
         {Link(root.service, t, {e}) : t \in case.evidence[e].downstream \ {root.service}}
  ELSE IF direct # {} THEN {Link(root.service, entry, direct)}
  ELSE IF root.type \in Propagating THEN {Link(root.service, entry, support)}
  ELSE {}

\* What a model may add: the resource it failed by, and services that were seen.
AllowedEdge(case, root, e) ==
  /\ e.cites \cap Known0(case) # {}
  /\ \/ root.resource # "none" /\ e.from = root.resource /\ e.to = root.service
     \/ e.from = root.service /\ e.to \in Observed(case)

Chain(case, a) ==
  LET end == FinalOf(case, a)
      edges(root) ==
        {Link(r, root.service, OfSupport(case, a)) :
           r \in IF OfSupport(case, a) = {} THEN {} ELSE {root.resource} \ {"none"}}
        \cup Propagation(case, root, OfSupport(case, a))
        \cup {e \in a.edges : AllowedEdge(case, root, e)}
      cited(all, e) == UNION {o.cites : o \in {x \in all : x.from = e.from /\ x.to = e.to}} IN
  UNION {{Link(e.from, e.to, cited(edges(r), e)) : e \in edges(r)} : r \in end.root}

Affected(case, a) ==
  LET end == FinalOf(case, a) IN
  UNION {{r.service, EntryOf(case)}
         \cup {e.to : e \in Chain(case, a)}
         \cup (a.services \cap ({r.service, EntryOf(case)} \cup Observed(case))) : r \in end.root}

Smaller(a, b) == IF a < b THEN a ELSE b

Prediction(case, a) ==
  [scenario |-> case.scenario, root |-> FinalOf(case, a).root, status |-> FinalOf(case, a).status,
   confidence |-> IF FinalOf(case, a).status = Open THEN Smaller(a.confidence, case.calibrated)
                  ELSE a.confidence,
   evidence |-> Referenced(a) \cup OfSupport(case, a),
   kinds |-> {case.evidence[e].type : e \in a.cites},
   claims |-> ClaimsOf(case, a), chain |-> Chain(case, a), affected |-> Affected(case, a),
   ranked |-> case.ranked, calls |-> case.calls, failed |-> FALSE]

\* A call that brought nothing is kept as an open answer of no confidence.
FailurePrediction(case) ==
  [scenario |-> case.scenario, root |-> {}, status |-> Open, confidence |-> 0,
   evidence |-> {}, kinds |-> {}, claims |-> {}, chain |-> {}, affected |-> {},
   ranked |-> case.ranked, calls |-> case.calls, failed |-> TRUE]

----------------------------------------------------------------------------
(* Scores.                                                                  *)

\* A truth without a root is met by no root.
RootHits(t, p) ==
  LET none == t.root = {} /\ p.root = {}
      hit(part(_)) == none \/ \E r \in t.root, s \in p.root : part(r) = part(s) IN
  [service |-> hit(LAMBDA r : r.service), type |-> hit(LAMBDA r : r.type),
   resource |-> hit(LAMBDA r : r.resource)]

\* The place of the truth among the candidates, by service and type; 0 is none.
CandidateRank(t, p) ==
  LET places == {n \in DOMAIN p.ranked :
                   \E r \in t.root : /\ p.ranked[n].root.service = r.service
                                     /\ p.ranked[n].root.type = r.type} IN
  IF places = {} THEN 0 ELSE Min(places)

Ranking(t, p) ==
  LET rank == CandidateRank(t, p)
      counted == t.root # {} /\ p.ranked # <<>> IN
  [counted |-> counted, recalled |-> counted /\ rank \in 1..Retained,
   first |-> counted /\ rank = 1]

FailureOf(t, p) ==
  LET hits == RootHits(t, p)
      rank == CandidateRank(t, p) IN
  CASE hits.service /\ hits.type /\ hits.resource -> "none"
    [] t.root = {} /\ p.root = {} -> "CONCLUSION_STATUS_MISMATCH"
    [] t.root = {} -> "FINAL_SELECTION_ERROR"
    [] p.ranked # <<>> /\ rank \notin 1..Retained -> "INSUFFICIENT_DISCRIMINATION"
    [] p.ranked # <<>> -> "FINAL_SELECTION_ERROR"
    [] p.root = {} -> "INSUFFICIENT_DISCRIMINATION"
    [] ~hits.service -> "WRONG_ROOT_SERVICE"
    [] ~hits.type -> "RIGHT_SERVICE_WRONG_TYPE"
    [] OTHER -> "RIGHT_SERVICE_RIGHT_TYPE_WRONG_RESOURCE"

\* A wrong root that only a change, or only the past, spoke for.
Overattributed(t, p, source) ==
  LET named0 == {p.ranked[n] : n \in {m \in DOMAIN p.ranked : p.ranked[m].root \in p.root}} IN
  /\ ~(RootHits(t, p).service /\ RootHits(t, p).type)
  /\ \E c \in named0 : source \in c.sources /\ c.sources \cap {"METRIC", "LOG", "TRACE", "HTTP"} = {}

ExactEvidence(t, p) == /\ p.kinds # {} /\ p.kinds \subseteq t.required \cup t.optional
                       /\ t.required \subseteq p.kinds

SupportedBy(p, item) == item.cites # {} /\ item.cites \subseteq p.evidence

Unsupported(p) == {c \in p.claims \cup p.chain : ~SupportedBy(p, c)}

Forbidden(t, p) == {c.says : c \in p.claims} \cap t.forbidden

ToolsFit(t, p) == t.tools \subseteq p.calls /\ p.calls \cap t.banned = {}

Links(edges) == {<<e.from, e.to>> : e \in edges}

Faults(t, p) ==
  {f \in {"INSUFFICIENT_EVIDENCE", "UNSUPPORTED_CLAIM", "FORBIDDEN_CLAIM",
          "CAUSAL_CHAIN_ERROR", "BLAST_RADIUS_ERROR"} :
     CASE f = "INSUFFICIENT_EVIDENCE" -> ~(t.required \subseteq p.kinds)
       [] f = "UNSUPPORTED_CLAIM" -> Unsupported(p) # {}
       [] f = "FORBIDDEN_CLAIM" -> Forbidden(t, p) # {}
       [] f = "CAUSAL_CHAIN_ERROR" -> Links(p.chain) # t.chain
       [] OTHER -> p.affected # t.affected}

Marks(t, p) ==
  LET hits == RootHits(t, p) IN
  [passed |-> /\ hits.service /\ hits.type /\ hits.resource
              /\ ExactEvidence(t, p) /\ p.status = t.status
              /\ Unsupported(p) = {} /\ Forbidden(t, p) = {}
              /\ ~(t.root = {} /\ p.root # {})
              /\ Links(p.chain) = t.chain /\ p.affected = t.affected
              /\ ToolsFit(t, p) /\ p.status # "CONFIRMED",
   exact |-> hits.service /\ hits.type,
   faults |-> Faults(t, p),
   failure |-> FailureOf(t, p), ranking |-> Ranking(t, p),
   blamed |-> {s \in {"CHANGE", "KNOWLEDGE"} : Overattributed(t, p, s)},
   expected |-> t.status, status |-> p.status, confidence |-> p.confidence]

HowMany(scores, Test(_)) == Cardinality({j \in DOMAIN scores : Test(scores[j])})

Summary(scores) ==
  [total |-> Cardinality(DOMAIN scores), passed |-> HowMany(scores, LAMBDA s : s.passed),
   exact |-> HowMany(scores, LAMBDA s : s.exact),
   evaluated |-> HowMany(scores, LAMBDA s : s.ranking.counted),
   recalled |-> HowMany(scores, LAMBDA s : s.ranking.recalled),
   open_met |-> HowMany(scores, LAMBDA s : s.status = Open /\ s.expected = Open),
   open_said |-> HowMany(scores, LAMBDA s : s.status = Open),
   open_meant |-> HowMany(scores, LAMBDA s : s.expected = Open)]

\* Failures by what went wrong first.
Breakdown(scores) ==
  LET lost == {j \in DOMAIN scores : ~scores[j].passed} IN
  [failed |-> Cardinality(lost),
   classified |-> Cardinality({j \in lost : scores[j].failure # "none"})]

----------------------------------------------------------------------------
(* The answer of nobody: what a truth itself would look like.               *)

ContractPrediction(t) ==
  [scenario |-> t.scenario, root |-> t.root,
   status |-> IF t.root = {} THEN Actionless ELSE AsCandidate,
   confidence |-> IF t.root = {} THEN 0 ELSE 80,
   evidence |-> t.ids, kinds |-> t.required,
   claims |-> {[kind |-> "ROOT_CAUSE", cites |-> t.ids, says |-> r.type] : r \in t.root},
   chain |-> {Link(e[1], e[2], t.ids) : e \in t.chain}, affected |-> t.affected,
   ranked |-> <<>>, calls |-> t.tools, failed |-> FALSE]

ValidTruth(t) ==
  /\ t.required \cap t.optional = {} /\ t.tools \cap t.banned = {}
  /\ IF t.root = {} THEN t.status # AsCandidate /\ t.chain = {} /\ t.affected = {}
     ELSE t.status = AsCandidate

=============================================================================
