----------------------------- MODULE RootCauses -----------------------------
(* From evidence to a conclusion: facts are read for what they say, grouped  *)
(* into candidates and scored; a model chooses among the candidates; and the *)
(* guardrails of the dynamic investigation put the cause into a topology.    *)
(* Scores are in 80ths.  A text is what the readers of it find: "says" the   *)
(* type of a structured field, "hint" the one its words suggest.             *)
EXTENDS Naturals, Sequences, FiniteSets, FiniteSetsExt

CONSTANTS
  MaxCandidates,   \* candidates kept
  Afflicted        \* the service of the incident

ASSUME RootCausesAssumption == MaxCandidates \in Nat

VARIABLES
  facts,       \* the evidence, in the order it was collected
  resolving,   \* "legacy", or "safe" where resources and types are not guessed
  reached,     \* "evidence", "ranked", "concluded", "explained", or refused
  ranked,      \* the candidates, best first
  concluded,   \* the report
  graph,       \* the topology of the incident
  explained    \* its root, its chain and the services it affects

causeVars == <<facts, resolving, reached, ranked, concluded, graph, explained>>

Unknown == "UNKNOWN"
NoAction == "NO_ACTIONABLE_ROOT_CAUSE"
Undecided == "UNDETERMINED"
Nothing0 == <<>>         \* no resource, as a resource is a tuple of its parts

----------------------------------------------------------------------------
(* Normalization.                                                          *)

\* Structured fields are believed in this order of their evidence.
Believed == <<"LOG", "TRACE", "HTTP", "METRIC", "TOPOLOGY", "CHANGE", "KNOWLEDGE", "RUNBOOK">>
Belief(kind) == CHOOSE n \in DOMAIN Believed : Believed[n] = kind

\* The words of a text suggest the first of these types that is in it.
Suggested ==
  <<NoAction, "DEPENDENCY_LATENCY", "DEPENDENCY_TIMEOUT", "CONFIGURATION_ERROR",
    "DEPLOYMENT_REGRESSION", "KNOWN_ERROR", "RESOURCE_EXHAUSTION", "CASCADING_FAILURE",
    "LATENCY", "APPLICATION_ERROR", Unknown>>

Facts == {facts[n] : n \in DOMAIN facts}

\* The structured field that speaks for those without one: of equals the first.
Structured(n) == facts[n].says # Unknown
Before0(n, k) == \/ Belief(facts[n].type) < Belief(facts[k].type)
                 \/ facts[n].type = facts[k].type /\ n <= k
StructuredContext ==
  {n \in DOMAIN facts :
     Structured(n) /\ \A k \in DOMAIN facts : Structured(k) => Before0(n, k)}

\* What all texts together suggest; nothing when one of them is about the past.
IncidentType ==
  IF \E f \in Facts : f.historical THEN Unknown
  ELSE Suggested[Min({n \in DOMAIN Suggested : Suggested[n] = Unknown \/
                        \E f \in Facts : f.hint = Suggested[n]})]

OrElse(kind, otherwise) == IF kind = Unknown THEN otherwise ELSE kind

InferredType(f) ==
  LET fallback == {facts[n].says : n \in StructuredContext} IN
  OrElse(f.says,
    OrElse(IF fallback = {} THEN Unknown ELSE CHOOSE t \in fallback : TRUE,
      OrElse(f.hint,
        OrElse(IncidentType, IF resolving = "safe" THEN Unknown ELSE "APPLICATION_ERROR"))))

\* The service named last stands for the incident's.
IncidentService ==
  LET naming == {n \in DOMAIN facts : facts[n].service # "none"} IN
  IF naming = {} THEN "unknown-service" ELSE facts[Max(naming)].service

ServiceOf(f) ==
  IF InferredType(f) # "CASCADING_FAILURE" /\ f.service # "none"
  THEN f.service ELSE IncidentService

\* A resource guessed from the type, where guessing is allowed.
LegacyResource(kind, service) ==
  CASE kind = "DEPENDENCY_TIMEOUT" -> <<"postgres">>
    [] kind = NoAction -> <<"alert-rule">>
    [] kind \in {"CASCADING_FAILURE", "KNOWN_ERROR", "DEPLOYMENT_REGRESSION"} -> <<service>>
    [] kind = "CONFIGURATION_ERROR" -> <<service, "config">>
    [] kind = "RESOURCE_EXHAUSTION" -> <<service, "db-pool">>
    [] kind = "LATENCY" -> <<service, "latency-fault">>
    [] kind = "APPLICATION_ERROR" /\ (\E f \in Facts : f.historical) -> <<service>>
    [] OTHER -> Nothing0

FallbackResource ==
  LET chosen == {facts[n].resource : n \in StructuredContext} \ {Nothing0}
      named0 == {n \in DOMAIN facts : facts[n].resource # Nothing0} IN
  IF chosen # {} THEN CHOOSE r \in chosen : TRUE
  ELSE IF named0 # {} THEN facts[Min(named0)].resource ELSE Nothing0

ResourceOf(f) ==
  LET kind == InferredType(f)
      found == IF f.resource # Nothing0 THEN f.resource ELSE FallbackResource IN
  IF kind = "DEPLOYMENT_REGRESSION" /\ f.version # "none"
  THEN <<ServiceOf(f), f.version>>
  ELSE IF found = Nothing0 /\ resolving = "legacy"
  THEN LegacyResource(kind, ServiceOf(f)) ELSE found

----------------------------------------------------------------------------
(* Candidates.                                                             *)

IdentityOf(f) ==
  [service |-> ServiceOf(f), type |-> InferredType(f), resource |-> ResourceOf(f)]

Grouped == {n \in DOMAIN facts :
              ~(resolving = "safe" /\ InferredType(facts[n]) = Unknown)}

Weight == [LOG |-> 20, TRACE |-> 19, METRIC |-> 16, HTTP |-> 15, TOPOLOGY |-> 12,
           CHANGE |-> 11, KNOWLEDGE |-> 8, RUNBOOK |-> 4]
Direct == {"LOG", "TRACE", "METRIC", "HTTP"}
OfDependency == {"DEPENDENCY_LATENCY", "DEPENDENCY_TIMEOUT"}

\* What denies an actionable cause does not support it.
Supporting(identity) ==
  {n \in Grouped : IdentityOf(facts[n]) = identity
                   /\ (identity.type = NoAction \/ ~facts[n].negative)}
Contradicting(identity) ==
  IF identity.type = NoAction THEN {}
  ELSE {n \in DOMAIN facts : facts[n].negative} \ Supporting(identity)

Present(support) == {n \in support : ~facts[n].historical}

EvidenceScore(support) ==
  Min({60, MapThenSumSet(LAMBDA n : Weight[facts[n].type] * facts[n].confidence, Present(support))})

CausalConsistency(kind, sources) ==
  CASE kind = "DEPLOYMENT_REGRESSION" ->
         IF "CHANGE" \in sources /\ sources \cap Direct # {} THEN 12 ELSE 0
    [] kind \in OfDependency -> IF "TRACE" \in sources THEN 8 ELSE 0
    [] kind = NoAction -> IF Cardinality(sources) >= 2 THEN 8 ELSE 4
    [] OTHER -> IF sources \cap Direct # {} THEN 4 ELSE 0

MissingEvidence(kind, sources) ==
  {m \in {"recent_change", "post_change_signal_shift", "dependency_trace"} :
     CASE m = "recent_change" -> kind = "DEPLOYMENT_REGRESSION" /\ "CHANGE" \notin sources
       [] m = "post_change_signal_shift" ->
            kind = "DEPLOYMENT_REGRESSION" /\ sources \cap Direct = {}
       [] OTHER -> kind \in OfDependency /\ "TRACE" \notin sources}

Penalty(n, each, most) == Min({n * each, most})

ScoreCandidate(identity) ==
  LET support == Supporting(identity)
      against == Contradicting(identity)
      sources == {facts[n].type : n \in support}
      missing == MissingEvidence(identity.type, sources)
      merit == 8 + EvidenceScore(support) + CausalConsistency(identity.type, sources)
      penalty == Penalty(Cardinality(against), 16, 48) + Penalty(Cardinality(missing), 12, 36)
  IN [identity |-> identity, support |-> support, against |-> against, missing |-> missing,
      score |-> IF merit <= penalty THEN 0 ELSE Min({80, merit - penalty})]

Candidates0 == {ScoreCandidate(i) : i \in {IdentityOf(facts[n]) : n \in Grouped}}

\* By score; equals by a digest, which is in any order.  The first few are kept.
BestFirst(all) ==
  LET count == Min({Cardinality(all), MaxCandidates}) IN
  {s \in [1..count -> all] :
     /\ \A i, j \in 1..count : i < j => s[i] # s[j] /\ s[i].score >= s[j].score
     /\ \A c \in all : c \in {s[i] : i \in 1..count} \/ \A i \in 1..count : c.score <= s[i].score}

Rank ==
  /\ reached = "evidence"
  /\ reached' = "ranked"
  /\ ranked' \in BestFirst(Candidates0)
  /\ UNCHANGED <<facts, resolving, concluded, graph, explained>>

\* The conclusion recommended to the model, with the confidence it deserves.
Recommended ==
  IF ranked = <<>> \/ (ranked # <<>> /\ ranked[1].score < 40)
  THEN [status |-> Undecided, confidence |-> 0]
  ELSE [status |-> IF ranked[1].identity.type = NoAction THEN NoAction ELSE "CANDIDATE",
        confidence |-> Min({ranked[1].score, IF ranked[1].against = {} THEN 72 ELSE 52})]

----------------------------------------------------------------------------
(* The conclusion: a model's answer, held to the candidates; what is refused *)
(* gives way to a report without a cause.                                  *)

NoCause == {}

\* A model that is sure of itself answers under the contract with candidates, or
\* under the one before it, which does not name any.
ModelChoices ==
  LET choices(legacy, chosen, causes) ==
        [status : {Undecided, NoAction, "CANDIDATE"}, legacy : {legacy}, chosen : chosen,
         cause : causes, cites : SUBSET DOMAIN facts, confidence : {80}]
  IN choices(FALSE, 0..MaxCandidates, {"same", "other", "none"}) \cup choices(TRUE, {0}, {"none"})

\* The candidate it means; if there is one only, whatever it names.
Selection(a) ==
  IF a.legacy THEN {ranked[n] : n \in DOMAIN ranked \cap {1}}
  ELSE {ranked[n] : n \in DOMAIN ranked \cap (IF Len(ranked) = 1 THEN {1} ELSE {a.chosen})}

Consistent(a) ==
  CASE a.status = Undecided -> a.legacy \/ (a.chosen = 0 /\ a.cause = "none")
    [] a.status = NoAction ->
         /\ \E c \in Selection(a) : c.identity.type = NoAction
         /\ a.legacy \/ a.cause = "none"
    [] OTHER -> Selection(a) # {} /\ (a.legacy \/ a.cause = "same")

\* The candidate has to be probable enough, and caps the confidence.
Calibrated(a, c) ==
  Min({a.confidence, IF c.score >= 64 /\ c.against = {} /\ c.missing = {} THEN 72 ELSE 56})

AcceptsAnswer(a) ==
  /\ Consistent(a)
  /\ a.cites # {}
  /\ a.status # Undecided => \A c \in Selection(a) : c.score >= 40

ReportOfAnswer(a) ==
  LET selected == IF a.status = Undecided THEN {} ELSE Selection(a) IN
  [status |-> a.status, cites |-> a.cites, selected |-> selected,
   cause |-> IF a.status = "CANDIDATE"
             THEN {IF a.cause = "other" THEN [c.identity EXCEPT !.service = "other"]
                   ELSE c.identity : c \in selected} ELSE NoCause,
   confidence |-> IF selected = {} THEN a.confidence
                  ELSE Calibrated(a, CHOOSE c \in selected : TRUE)]

\* Without the model: all evidence, and no cause.
FallbackReport ==
  [status |-> Undecided, cites |-> DOMAIN facts, selected |-> {}, cause |-> NoCause,
   confidence |-> 40]

Conclude ==
  /\ reached = "ranked"
  /\ reached' = "concluded"
  /\ \E a \in ModelChoices :
       concluded' = IF AcceptsAnswer(a) THEN ReportOfAnswer(a) ELSE FallbackReport
  /\ UNCHANGED <<facts, resolving, ranked, graph, explained>>

----------------------------------------------------------------------------
(* The guardrails: the cause in the topology.  A node of a service is not    *)
(* called like the service; a resource is.                                 *)

NodeOf(service) == <<"service", service>>
OnNodes(names) == names \cap graph.nodes

\* The node of the cause: its resource, or its service, or the incident's.
RootNode ==
  LET resources == OnNodes({i.resource : i \in concluded.cause})
      services == IF concluded.cause = {} THEN {Afflicted}
                  ELSE {i.service : i \in concluded.cause}
  IN IF resources # {} THEN resources ELSE OnNodes({NodeOf(v) : v \in services})

\* Nodes that evidence other than of the topology mentions.
ObservedNodes ==
  OnNodes(UNION {{NodeOf(f.service), f.resource} : f \in {g \in Facts : g.type # "TOPOLOGY"}})

\* An edge is followed if its target was observed, a trace gave it, or there is no other.
Follows(e, observed) ==
  \/ e.to \in observed
  \/ e.traced
  \/ \A d \in graph.edges : d.from = e.from => d = e

\* Nodes found within so many edges of the root.
Reach(root, observed) ==
  LET R[n \in 0..graph.depth] ==
        IF n = 0 THEN root
        ELSE R[n - 1] \cup {e.to : e \in {d \in graph.edges :
                                          d.from \in R[n - 1] /\ Follows(d, observed)}}
  IN R

\* Each of them is reached once, from a node found just before it.
Traversals(root, observed) ==
  LET R == Reach(root, observed)
      Level(v) == Min({n \in DOMAIN R : v \in R[n]})
      found == R[graph.depth] \ root
      Into(v) == {e \in graph.edges : e.to = v /\ Follows(e, observed)
                                      /\ e.from \in R[graph.depth]
                                      /\ Level(e.from) = Level(v) - 1}
  IN {{into[v] : v \in found} :
        into \in {g \in [found -> graph.edges] : \A v \in found : g[v] \in Into(v)}}

IsService(node) == Len(node) = 2 /\ node[1] = "service"
Impact(root, chain) ==
  {v[2] : v \in {u \in {e.to : e \in chain} \cup (IF concluded.cause = {} THEN {} ELSE root) :
                 IsService(u)}}

NoContext == [root |-> {}, chain |-> {}, services |-> {}]

\* What evidence contains may mention any node; without topology evidence in the
\* report there is no chain.
CausalContexts ==
  IF concluded.status = NoAction \/ RootNode = {} THEN {NoContext}
  ELSE IF \A n \in concluded.cites : facts[n].type # "TOPOLOGY"
  THEN {[NoContext EXCEPT !.root = RootNode]}
  ELSE {[root |-> RootNode, chain |-> chain, services |-> Impact(RootNode, chain)] :
          chain \in UNION {Traversals(RootNode, ObservedNodes \cup more) :
                           more \in SUBSET graph.nodes}}

\* The report is validated again: its root has to be the selected candidate's service.
StillValid(root) == \A i \in concluded.cause : root = {<<i.service>>}

\* Without a topology the report stays as it is.
Explain ==
  /\ reached = "concluded"
  /\ IF graph.nodes = {}
     THEN reached' = "explained" /\ UNCHANGED explained
     ELSE /\ explained' \in CausalContexts
          /\ reached' = IF StillValid(explained'.root) THEN "explained" ELSE "refused"
  /\ UNCHANGED <<facts, resolving, ranked, concluded, graph>>

----------------------------------------------------------------------------

\* Evidence is a sequence of facts of kinds there are; nodes are sequences of names.
FactsFit(s) ==
  /\ Len(s) \in Nat /\ DOMAIN s = 1..Len(s)
  /\ \A n \in DOMAIN s : s[n].type \in DOMAIN Weight /\ s[n].confidence \in Nat
EvidenceAsks(E) == \A s \in E : FactsFit(s)
GraphAsks(G) ==
  \A g \in G : \A u \in g.nodes \cup {e.to : e \in g.edges} : u \in Seq(STRING)

CausesInit ==
  /\ reached = "evidence"
  /\ ranked = <<>>
  /\ concluded = [status |-> Undecided, cites |-> {}, selected |-> {}, cause |-> NoCause,
                  confidence |-> 0]
  /\ explained = NoContext

CausesNext == Rank \/ Conclude \/ Explain

----------------------------------------------------------------------------

CausesTypeOK ==
  /\ reached \in {"evidence", "ranked", "concluded", "explained", "refused"}
  /\ resolving \in {"legacy", "safe"}
  /\ \A n \in DOMAIN ranked : ranked[n].score \in 0..80 /\ ranked[n].support \subseteq DOMAIN facts
  /\ concluded.status \in {Undecided, NoAction, "CANDIDATE"}
  /\ explained.chain \subseteq graph.edges

\* A recommended cause is backed by a fact that is not about the past and does
\* not deny it; facts that deny it keep the confidence low; and as soon as one
\* structured field names a type, words of a text no longer decide.
\* pipeline.py:92-160, 213-226, normalizer.py:69-110.
RankingIsSound ==
  /\ Recommended.status # Undecided =>
       \E n \in ranked[1].support :
         ~facts[n].historical /\ (facts[n].negative => ranked[1].identity.type = NoAction)
  /\ Recommended.confidence > 52 => ranked[1].against = {}
  /\ \A n \in DOMAIN ranked :
       /\ ranked[n].support \cap ranked[n].against = {}
       /\ (\E f \in Facts : f.says # Unknown) =>
            \E f \in Facts : f.says = ranked[n].identity.type

\* A report's cause is one of the candidates that the evidence made probable, in
\* all its parts, and its confidence is within the candidate's.
\* llm_report_generator.py:432-541, 715-727.
CauseIsCandidate ==
  \A i \in concluded.cause :
    \E n \in DOMAIN ranked :
      /\ ranked[n].identity = i /\ ranked[n].score >= 40
      /\ concluded.confidence > 56 => ranked[n].against \cup ranked[n].missing = {}

\* The causal chain is a tree of known edges that starts at the root, is no deeper
\* than the graph allows, and exists only with evidence of the topology that the
\* report cites; a service counts as affected only along it.
\* causal_context.py:68-242.
ChainIsGrounded ==
  LET chain == explained.chain
      reached0 == explained.root \cup {e.to : e \in chain} IN
  chain # {} =>
    /\ \A e \in chain : e.from \in reached0 /\ e.to \notin explained.root
    /\ \A d, e \in chain : d.to = e.to => d = e
    /\ \E n \in concluded.cites : facts[n].type = "TOPOLOGY"
    /\ concluded.status # NoAction
    /\ \A v \in explained.services : NodeOf(v) \in reached0

CausesAreSound == RankingIsSound /\ CauseIsCandidate /\ ChainIsGrounded

\* What a model chose among the candidates is not refused afterwards: "the model
\* chooses the root cause from the candidates only, and the causal chain and the
\* impact are built from the topology".
\* docs/local-high-fidelity-simulation-acceptance.md:50-51.
ConclusionStands == reached # "refused"
=============================================================================
