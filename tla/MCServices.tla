----------------------------- MODULE MCServices -----------------------------
(* Components that meet only through rows and messages, side by side: a    *)
(* behaviour is about one of them, which "part" names, and the others keep *)
(* still.  One run checks the safety of all, another one their progress on *)
(* smaller instances.                                                      *)
EXTENDS TLC, AlertIntake, IncidentAnalysis, AuditRetention, TicketSubmission, Lifecycle,
        Readiness, Configuration, RunbookCatalog, ToolGrants, Investigation,
        ReportGeneration,
        RangeController,
        OutboundCalls,
        SigningKeys,
        HttpEdge,
        DatasetReleases,
        Workspaces,
        ToolCalls,
        WorkerLoops,
        Monitoring,
        RootCauses,
        Benchmark,
        Experiments,
        FaultDrill,
        OpsConsole,
        LoadTest

CONSTANT Posts, Talks, Trails, Cases, Edits, Grantings,  \* scenarios of components
         Inquests, Rankings, Givens,
         Orders,
         Callings,
         Bearings,
         Visitings,
         Curatings,
         Furnishings,
         Tryings,
         Evidences, Graphs,
         Trials,
         Studies,
         Drills,
         LoadPlans
CONSTANT Moving      \* the parts a run is about

VARIABLE part

servicesVars == <<intakeVars, analysisVars, retentionVars, ticketVars, lifecycleVars,
                  readinessVars, catalogVars, grantVars, investigationVars, generationVars,
                  configurationVars, controllerVars,
                  outboundVars, signingVars, edgeVars,
                  releaseVars, workspaceVars, callVars,
                  loopVars, monitoringVars, causeVars,
                  benchmarkVars, experimentVars, drillVars,
                  consoleVars, loadVars, part>>

----------------------------------------------------------------------------
(* Alerts: of service s of environment e at time t.  A storm with a repeat, *)
(* two connected services, two environments, an alert below the threshold, *)
(* and one of a service with more incidents than a query returns.          *)
AlertOf(id, s, e, rank, t) ==
  [event |-> id, service |-> s, environment |-> e, rank |-> rank, starts_at |-> t]

Alerts ==
  {AlertOf("e1", "x", "prod", 30, 1), AlertOf("e2", "x", "prod", 40, 2),
   AlertOf("e3", "y", "prod", 30, 0), AlertOf("e4", "y", "dev", 30, 1),
   AlertOf("e5", "x", "prod", 10, 1), AlertOf("e6", "y", "prod", 40, 1)}

Named(id) == CHOOSE a \in Alerts : a.event = id

Storms == {<<"e1", "e1", "e2">>, <<"e1", "e3", "e2">>, <<"e1", "e4", "e3">>,
           <<"e5", "e5", "e1">>, <<"e3", "e4", "e6">>}
CrossedStorms == {<<"e1", "e3">>}

OpeningOrder == [s \in Sender |-> s]

Nodes == <<"x", "y">>
Edges == {<<"x", "y">>}

Posting(storm) == alert = [s \in Sender |-> Named(storm[s])]

----------------------------------------------------------------------------
(* Requests about one incident: starts under one key and under two, a key  *)
(* used for another body; decisions and closures beside a start, repeats.  *)
Request(kind, key, body, expected) ==
  [kind |-> kind, key |-> key, body |-> body, expected |-> expected]

Dialogues ==
  {<<Request("start", "k1", "b1", 1), Request("start", "k2", "b1", 1),
     Request("close", "k1", "b1", 1)>>,
   <<Request("start", "k1", "b1", 1), Request("start", "k1", "b2", 1),
     Request("resolve", "k1", "b1", 1)>>,
   <<Request("resolve", "k1", "b1", 1), Request("resolve", "k1", "b1", 1),
     Request("close", "k1", "b1", 2)>>}
ShortDialogues == {<<Request("start", "k1", "b1", 1)>>}

\* An incident is resolved while its RCA is started once more.
Overlap == {<<Request("start", "k1", "b1", 1), Request("start", "k2", "b1", 1),
              Request("resolve", "k1", "b1", 2)>>}

Place(c) == CASE c = "c1" -> 1 [] c = "c2" -> 2 [] c = "c3" -> 3
Asking(dialogue) ==
  /\ call = [c \in Caller |-> [ask |-> dialogue[Place(c)], at |-> Waiting]]
  /\ row = [status |-> "OPEN", updated_at |-> 0, version |-> 1,
            resolution |-> NoKey, closure |-> NoKey]

----------------------------------------------------------------------------
(* Readers of audit trails, by what they want them for.                    *)
AllPurposes == Purpose
OnePurpose == {"use"}
Reading(purpose, run) ==
  reading = [x \in Reader |-> [purpose |-> purpose, run |-> run, at |-> Idling]]

----------------------------------------------------------------------------
(* Tickets: two drafts; an approval beside a rejection, of another person and   *)
(* under the same key; an approved draft submitted under two keys.         *)
InquiryOf(kind, key, by, choice, target, expected) ==
  [kind |-> kind, key |-> key, by |-> by, choice |-> choice, target |-> target,
   expected |-> expected]
Create(key, by) == InquiryOf("create", key, by, "APPROVED", "jira", 1)
Decision(key, by, choice) == InquiryOf("decide", key, by, choice, "jira", 1)
Submission(key, by, target) == InquiryOf("submit", key, by, "APPROVED", target, 2)

FirstDraft == Create("k1", "ann")
Approval == Decision("k1", "ann", "APPROVED")
TicketCaseOf(drafted, asks) == [drafted |-> drafted, asks |-> asks]
FromReport == TicketCaseOf(NoDraft, <<FirstDraft, Approval, Submission("k1", "ann", "jira")>>)
TicketCases ==
  {FromReport,
   TicketCaseOf(NoDraft, <<FirstDraft, Create("k1", "bob"), Approval>>),
   TicketCaseOf(NoDraft, <<FirstDraft, Approval, Decision("k2", "bob", "REJECTED")>>),
   TicketCaseOf(NoDraft, <<FirstDraft, Approval, Decision("k1", "ann", "REJECTED")>>),
   TicketCaseOf(ApprovedBefore(FirstDraft, Approval),
     <<Create("k1", "bob"), Submission("k1", "ann", "hub"), Submission("k2", "bob", "hub")>>)}
ShortTicketCases ==
  {TicketCaseOf(NoDraft, <<FirstDraft, Approval, Submission("k1", "ann", "hub")>>)}

Members(s) == {s[i] : i \in DOMAIN s}
Inquiries == UNION {Members(case.asks) : case \in TicketCases}
Workers == [c \in {"c1", "c2"} |-> IF c = "c1" THEN "w1" ELSE "w2"]
Bringing(case) ==
  /\ draft = case.drafted
  /\ request = [q \in Requester |-> [ask |-> case.asks[q], step |-> "idle"]]

----------------------------------------------------------------------------
(* Runbooks: a draft saved twice and published, beside one that expects the  *)
(* runbook as it was before; drafts of two versions, and a publication.    *)
EditOf(kind, key, version, content, expected) ==
  [kind |-> kind, key |-> key, version |-> version, content |-> content,
   expected |-> expected]

RunbookEdits ==
  {<<EditOf("save", "k1", "v1", "a", 0), EditOf("save", "k1", "v1", "a", 0),
     EditOf("publish", "k3", "v1", "a", 1)>>,
   <<EditOf("save", "k1", "v2", "a", 1), EditOf("save", "k3", "v2", "b", 2),
     EditOf("publish", "k4", "v2", "a", 2)>>}
Editing(s) == edit = [e \in Editor |-> [ask |-> s[e], at |-> "idle", occurred_at |-> 0]]

(* Grants: replaced, revoked, and set again, some requests unaware of others. *)
GrantOf(kind, key, tags, expected) ==
  [kind |-> kind, key |-> key, tags |-> tags, expected |-> expected]

GrantRequests ==
  {<<GrantOf("set", "k1", {"p"}, 0), GrantOf("set", "k1", {"p"}, 0),
     GrantOf("revoke", "k3", {}, 1), GrantOf("revoke", "k4", {}, 2)>>,
   <<GrantOf("set", "k1", {"p"}, 0), GrantOf("revoke", "k2", {}, 1),
     GrantOf("set", "k3", {"q"}, 1), GrantOf("set", "k4", {"q"}, 2)>>}
Granting(s) ==
  granting = [m \in Admin |-> [ask |-> s[m], at |-> "idle", held |-> 0, version |-> 0]]

(* Investigations: the fixed plans, and dynamic ones without a topology, with *)
(* a successor beside them, and of a service the topology does not know.    *)
InquestOf(kind, around, steps, starters) == <<kind, around, steps, starters>>

FixedPlans == {InquestOf("fail_fast", "none", 5, {1}), InquestOf("degrading", "none", 5, {1})}
AllInquests ==
  FixedPlans \cup
  {InquestOf("dynamic", "none", 4, {1}), InquestOf("dynamic", "inside", 1, {1, 2}),
   InquestOf("dynamic", "outside", 3, {1})}
Inquiring(s) ==
  /\ policy = s[1] /\ surroundings = s[2] /\ maxSteps = s[3]
  /\ Starting0(s[4])

ToolPlan == <<"metrics", "changes", "logs", "traces", "runbooks">>

(* Candidates of a report: a clear cause, and a doubtful one beside the      *)
(* finding that nothing needs to be done.                                  *)
CandidateOf0(id, score, clean, kind) ==
  [id |-> id, score |-> score, clean |-> clean, kind |-> kind]
RankedCandidates ==
  {<<CandidateOf0("a", 8, TRUE, "cause")>>,
   <<CandidateOf0("a", 4, TRUE, "cause"), CandidateOf0("b", 8, FALSE, "no_action")>>}

----------------------------------------------------------------------------
(* Settings: a process with everything switched on, and what may be changed   *)
(* of it at once: the times of the protocols, the streams of the consumers, *)
(* logins, a plan and its backends, a controller, ticket vendors.           *)
Quiet ==
  [production |-> FALSE, in_range |-> TRUE, webhook_auth |-> FALSE, webhook_secret |-> "good",
   oidc |-> FALSE, issuer |-> "none", jwks |-> "https", audience |-> "good",
   claims |-> "good", algorithms |-> "asymmetric",
   demo |-> FALSE, demo_token |-> "good", demo_identity |-> "good",
   protocol |-> "PLAINTEXT", mechanism |-> "none", username |-> "none",
   password |-> "none", names |-> "good", brokers |-> "good",
   outbox |-> FALSE, batch |-> 20, publish |-> 5, outbox_lease |-> 120,
   rca |-> FALSE, policy |-> "fixed_default", heartbeat |-> 30, lease |-> 120,
   execution |-> 1800, prometheus |-> "http", loki |-> "http", tempo |-> "http",
   observers |-> "none", rca_group |-> 1, rca_dead |-> 2, topic |-> 1,
   tickets |-> FALSE, tickets_group |-> 2, tickets_dead |-> 3,
   http_json |-> FALSE, endpoint |-> "http", endpoint_token |-> "none",
   jira |-> FALSE, jira_url |-> "none", jira_texts |-> "good", jira_token |-> "good",
   servicenow |-> FALSE, servicenow_url |-> "https", servicenow_texts |-> "good",
   servicenow_password |-> "good",
   execute |-> FALSE, controller |-> "none", controller_token |-> "none",
   catalog |-> "none", tenants |-> {}, reclaim |-> FALSE, reclaim_batch |-> 50,
   remediation_timeout |-> 10, remediation_lease |-> 60, opens |-> 0, closes |-> 24,
   slack |-> "none", teams |-> "none", pagerduty |-> "none",
   report |-> FALSE, provider |-> "openai", model_url |-> "none", key |-> "none",
   model |-> "good", backoff |-> 5, backoff_max |-> 300]

Busy == [Quiet EXCEPT !.rca = TRUE, !.tickets = TRUE, !.http_json = TRUE, !.outbox = TRUE]
Live == [Busy EXCEPT !.production = TRUE, !.webhook_auth = TRUE]

Settings ==
  {[Busy EXCEPT !.batch = b, !.publish = p, !.outbox_lease = l] :
     b \in {1, 24, 100}, p \in {1, 5, 120}, l \in {1, 119, 120, 121, 3600}} \cup
  {[Busy EXCEPT !.heartbeat = h, !.lease = l, !.execution = e] :
     h \in {0, 9, 10, 120, 3599}, l \in {10, 120, 3600}, e \in {9, 10, 11, 3599, 4000}} \cup
  {[Busy EXCEPT !.policy = p, !.tempo = t, !.report = m, !.key = k, !.rca = r] :
     p \in Policies, t \in Address, m \in BOOLEAN, k \in {"none", "good"}, r \in BOOLEAN} \cup
  {[Busy EXCEPT !.rca_group = g, !.rca_dead = d, !.tickets_dead = e, !.rca = r,
                !.http_json = h] :
     g \in {1, 2}, d \in {1, 2, 3}, e \in {1, 2, 3}, r \in BOOLEAN, h \in BOOLEAN} \cup
  {[Live EXCEPT !.webhook_auth = w, !.webhook_secret = x, !.demo = d, !.oidc = o,
                !.issuer = i, !.algorithms = a] :
     w \in BOOLEAN, x \in Text, d \in BOOLEAN, o \in BOOLEAN, i \in Address,
     a \in {"empty", "symmetric", "asymmetric"}} \cup
  {[Live EXCEPT !.production = p, !.controller = c, !.catalog = g, !.execute = e,
                !.tenants = t, !.remediation_lease = l, !.reclaim = r, !.reclaim_batch = b] :
     p \in BOOLEAN, c \in Address, g \in Text, e \in BOOLEAN, t \in SUBSET Tenant,
     l \in {10, 11}, r \in BOOLEAN, b \in {500, 501}} \cup
  {[Live EXCEPT !.jira = j, !.jira_url = u, !.servicenow = n, !.slack = u] :
     j \in BOOLEAN, u \in Address, n \in BOOLEAN}

----------------------------------------------------------------------------
(* The range's plan: carried out twice under one key and taken back; approved *)
(* by its author in vain, and carried out under two keys.                  *)
DirectiveOf(doing, key, by, expected) ==
  [stage |-> doing, key |-> key, by |-> by, expected |-> expected]
ShopOrders ==
  {<<DirectiveOf("creation", "k1", "ann", 1), DirectiveOf("approval", "k1", "bob", 1),
     DirectiveOf("execution", "k1", "ann", 2), DirectiveOf("execution", "k1", "ann", 2),
     DirectiveOf("rollback", "k1", "bob", 4)>>,
   <<DirectiveOf("creation", "k1", "ann", 1), DirectiveOf("approval", "k1", "ann", 1),
     DirectiveOf("approval", "k2", "bob", 1), DirectiveOf("execution", "k1", "ann", 2),
     DirectiveOf("execution", "k2", "ann", 2)>>}

----------------------------------------------------------------------------
(* Two calls at a time: of a channel that is not configured, of a vendor the   *)
(* generic gateway stands in for, of one that closes.                      *)
CalledTargets ==
  {<<"jira", "slack">>, <<"unknown", "controller">>, <<"http_json", "pagerduty">>,
   <<"servicenow", "teams">>, <<"slack", "slack">>}

----------------------------------------------------------------------------
(* Tokens: of one key, of two, and of an algorithm that is not allowed.      *)
TokenOf(kid, alg) == [kid |-> kid, alg |-> alg]
Tokens ==
  {<<TokenOf("a", "rs"), TokenOf("b", "rs")>>, <<TokenOf("b", "rs"), TokenOf("b", "rs")>>,
   <<TokenOf("a", "hs"), TokenOf("a", "rs")>>}

----------------------------------------------------------------------------
(* Requests: of one source, of two that take each other's window, and of paths *)
(* without a quota.                                                        *)
Ways ==
  {<<<<"s", "api">>, <<"s", "api">>, <<"s", "api">>>>,
   <<<<"s", "api">>, <<"t", "api">>, <<"s", "api">>>>,
   <<<<"s", "console">>, <<"t", "operational">>, <<"t", "api">>>>}

----------------------------------------------------------------------------
(* Releases: reviewed, published, and reviewed too late; a self-review and a     *)
(* second review in one role beside those that count; two releases of one version. *)
CurationOf(kind, d, key, by, role, expected) ==
  [kind |-> kind, release |-> d, key |-> key, by |-> by, role |-> role,
   dataset |-> "v2", expected |-> expected]
ReviewBy(key, by, role, expected) == CurationOf("review", "d1", key, by, role, expected)
FirstRelease == CurationOf("create", "d1", "k1", "ann", "DOMAIN", 0)
Publication(key, expected) == CurationOf("publish", "d1", key, "ann", "DOMAIN", expected)
Curations ==
  {<<FirstRelease, ReviewBy("k1", "bob", "DOMAIN", 1), ReviewBy("k2", "cid", "PRIVACY", 2),
     Publication("k1", 3), Publication("k1", 3)>>,
   <<FirstRelease, ReviewBy("k1", "ann", "DOMAIN", 1), ReviewBy("k2", "bob", "DOMAIN", 1),
     ReviewBy("k3", "cid", "PRIVACY", 2), Publication("k2", 3)>>,
   <<FirstRelease, ReviewBy("k1", "bob", "DOMAIN", 1), ReviewBy("k2", "cid", "PRIVACY", 1),
     ReviewBy("k3", "bob", "PRIVACY", 2), Publication("k2", 3)>>,
   <<FirstRelease, ReviewBy("k1", "bob", "DOMAIN", 1), ReviewBy("k2", "cid", "DOMAIN", 2),
     ReviewBy("k3", "dan", "PRIVACY", 2), Publication("k2", 2)>>,
   <<FirstRelease, [FirstRelease EXCEPT !.dataset = "raw"],
     [FirstRelease EXCEPT !.release = "d2"],
     ReviewBy("k1", "bob", "DOMAIN", 1), Publication("k2", 2)>>}
Curate(s) == curating = [q \in Curation |-> [ask |-> s[q], at |-> "idle", row |-> NoRelease]]

----------------------------------------------------------------------------
(* Workspaces: made twice at once, changed by two administrators, given a name    *)
(* another one has, and one key for two of them.                             *)
UpsertOf(w, key, name, content, expected) ==
  [workspace |-> w, key |-> key, name |-> name, content |-> content, expected |-> expected]
WorkspaceEdits ==
  {<<UpsertOf("w1", "k1", "n1", "a", 0), UpsertOf("w1", "k1", "n1", "a", 0),
     UpsertOf("w1", "k2", "n1", "b", 1), UpsertOf("w1", "k3", "n2", "c", 1)>>,
   <<UpsertOf("w1", "k1", "n1", "a", 0), UpsertOf("w2", "k2", "n1", "a", 0),
     UpsertOf("w2", "k1", "n2", "b", 0), UpsertOf("w1", "k4", "n2", "b", 1)>>}
Furnish(s) == upserting = [u \in Upsert |-> [ask |-> s[u], at |-> "idle", seen |-> 0]]

----------------------------------------------------------------------------
(* Calls of tools, two at a time: of telemetry and of what is stored, with more     *)
(* or fewer items than there are, of an unknown tool and of a foreign server's. *)
CallOf(tool, limit, signals) ==
  [tool |-> tool, limit |-> limit, most |-> 3, signals |-> signals, window |-> 3600,
   binding |-> "good"]
Foreign(binding) == [CallOf("mcp", 1, {}) EXCEPT !.binding = binding]
ToolRequests ==
  {<<CallOf("metrics", 3, {"rate", "errors"}), CallOf("traces", 3, {"slow"})>>,
   <<CallOf("logs", 1, {"errors", "warnings"}), CallOf("changes", 2, {"all"})>>,
   <<CallOf("runbooks", 1, {"all"}), CallOf("changes", 4, {"all"})>>,
   <<[CallOf("metrics", 2, {"rate"}) EXCEPT !.window = 1860], CallOf("logs", 2, {"errors"})>>,
   <<CallOf("unknown", 1, {"all"}), CallOf("traces", 2, {"slow", "failed"})>>,
   <<Foreign("good"), Foreign("writes")>>, <<Foreign("denied"), CallOf("changes", 3, {"all"})>>}
Trying(s) == invoking = [i \in Invocation |-> [ask |-> s[i], at |-> "idle", cause |-> "none"]]

----------------------------------------------------------------------------
(* Pauses: of each kind a first and a longest one.                          *)
FirstPauses == [error |-> 2, empty |-> 1, retry |-> 3]
LongestPauses == [error |-> 6, empty |-> 4, retry |-> 12]

----------------------------------------------------------------------------
(* Scrapes of a process whose consumer has run and whose retention is off.  *)
HealthOf(consumer, outbox) ==
  [w \in Watched |-> CASE w = "outbox" -> outbox [] w = "rca_consumer" -> consumer
                      [] w = "retention" -> 0 [] OTHER -> 2]
FirstHealth == {HealthOf(1, 2)}

----------------------------------------------------------------------------
(* Evidence: what logs say, words that suggest a cause or deny one, a change, a trace, *)
(* and what is remembered of the past; collected in any order, up to three.  *)
FactOf(type, says, hint, service, resource) ==
  [type |-> type, says |-> says, hint |-> hint, service |-> service, resource |-> resource,
   version |-> "none", negative |-> FALSE, historical |-> FALSE, confidence |-> 2]
Findings ==
  {FactOf("LOG", "DEPENDENCY_TIMEOUT", "DEPENDENCY_TIMEOUT", "y", <<"postgres">>),
   FactOf("METRIC", "UNKNOWN", "LATENCY", "none", <<>>),
   [FactOf("METRIC", "UNKNOWN", "NO_ACTIONABLE_ROOT_CAUSE", "x", <<>>) EXCEPT !.negative = TRUE],
   FactOf("TRACE", "UNKNOWN", "DEPENDENCY_TIMEOUT", "y", <<>>),
   [FactOf("CHANGE", "UNKNOWN", "DEPLOYMENT_REGRESSION", "y", <<>>) EXCEPT !.version = "v2"],
   FactOf("TOPOLOGY", "UNKNOWN", "UNKNOWN", "x", <<>>),
   [FactOf("KNOWLEDGE", "UNKNOWN", "APPLICATION_ERROR", "x", <<>>) EXCEPT !.historical = TRUE],
   [FactOf("LOG", "UNKNOWN", "CASCADING_FAILURE", "y", <<>>) EXCEPT !.historical = TRUE]}
Collections ==
  UNION {{s \in [1..n -> Findings] : \A i, j \in 1..n : i # j => s[i] # s[j]} : n \in 1..2} \cup
  {<<a, b, c>> : a \in Findings, b \in {f \in Findings : f.service = "y"}, c \in {f \in Findings : f.negative \/ f.type = "TOPOLOGY"}}

EdgeOf(from, to, traced) == [from |-> from, to |-> to, traced |-> traced]
Surroundings ==
  {[nodes |-> {}, edges |-> {}, depth |-> 1],
   [nodes |-> {<<"service", "x">>, <<"service", "y">>, <<"postgres">>}, depth |-> 2,
    edges |-> {EdgeOf(<<"service", "x">>, <<"service", "y">>, TRUE),
               EdgeOf(<<"service", "y">>, <<"postgres">>, FALSE),
               EdgeOf(<<"service", "y">>, <<"service", "x">>, FALSE)}]}

----------------------------------------------------------------------------
(* Trials: a timeout of a dependency, with a candidate near it and one far behind;   *)
(* an incident nothing follows from; answers that choose each, that name none, that *)
(* say too much or nothing; batches in which a scenario is missing.                *)
RootOf(service, type, resource) == [service |-> service, type |-> type, resource |-> resource]
Timeout == RootOf("y", "DEPENDENCY_TIMEOUT", "postgres")
Wrong == RootOf("x", "APPLICATION_ERROR", "none")
Nothing1 == RootOf("x", "NO_ACTIONABLE_ROOT_CAUSE", "alert-rule")
Option(id, root, score, support, kinds) ==
  [id |-> id, root |-> root, score |-> score, support |-> support, sources |-> kinds]
Seen(type, mentions) == [type |-> type, mentions |-> mentions, downstream |-> {}]

TimeoutCase ==
  [scenario |-> "s1", service |-> "x", entry |-> "none", recommended |-> TRUE, calibrated |-> 70,
   evidence |-> <<Seen("LOG", {"y"}), Seen("TRACE", {"x", "y"}), Seen("CHANGE", {"x"})>>,
   ranked |-> <<Option(1, Timeout, 80, {1, 2}, {"LOG", "TRACE"}),
                Option(2, Nothing1, 65, {3}, {"CHANGE"}), Option(3, Wrong, 50, {3}, {"CHANGE"})>>,
   calls |-> {"logs", "traces"}, steps |-> 2, clean |-> TRUE]
QuietCase ==
  [TimeoutCase EXCEPT !.scenario = "s2", !.recommended = FALSE, !.calibrated = 30,
                      !.ranked = <<Option(1, Nothing1, 60, {1}, {"LOG"})>>]
CascadeCase ==
  [TimeoutCase EXCEPT !.scenario = "s2", !.entry = "y",
     !.evidence = <<[Seen("LOG", {"y"}) EXCEPT !.downstream = {"x"}], Seen("TRACE", {"x"})>>,
     !.ranked = <<Option(1, RootOf("y", "CASCADING_FAILURE", "none"), 80, {1}, {"LOG"})>>]
DarkCase == [QuietCase EXCEPT !.ranked = <<>>]

TruthOf(scenario, root, status, chain, affected) ==
  [scenario |-> scenario, root |-> root, status |-> status, chain |-> chain,
   affected |-> affected, required |-> {"LOG", "TRACE"}, optional |-> {}, ids |-> {1, 2},
   tools |-> {"logs"}, banned |-> {"shell"}, forbidden |-> {"guess"}, version |-> 1]
TimeoutTruth ==
  TruthOf("s1", {Timeout}, "CANDIDATE", {<<"postgres", "y">>, <<"y", "x">>}, {"x", "y"})
QuietTruth == TruthOf("s2", {}, "NO_ACTIONABLE_ROOT_CAUSE", {}, {})
OpenTruth == TruthOf("s2", {}, "UNDETERMINED", {}, {})

AnswerOf(kind, status, root, chosen, cites) ==
  [kind |-> kind, status |-> status, root |-> root, chosen |-> chosen, cites |-> cites,
   claims |-> {}, edges |-> {}, services |-> {}, confidence |-> 60]
Says(answer, kind, cites) ==
  [answer EXCEPT !.claims = {[kind |-> kind, cites |-> cites, says |-> "guess"]}]
TrialAnswers ==
  {AnswerOf("text", "CANDIDATE", {}, {1}, {1, 2}), AnswerOf("text", "UNDETERMINED", {}, {}, {1, 2}),
   [AnswerOf("text", "CANDIDATE", {Timeout}, {1}, {1, 2}) EXCEPT
      !.edges = {Link("y", "x", {2}), Link("x", "y", {1}), Link("y", "y", {1})}, !.services = {"x"}],
   Says(AnswerOf("text", "CANDIDATE", {Wrong}, {3}, {3}), "ROOT_CAUSE", {3}),
   AnswerOf("text", "NO_ACTIONABLE_ROOT_CAUSE", {}, {2}, {3}),
   AnswerOf("text", "NO_ACTIONABLE_ROOT_CAUSE", {}, {1}, {1, 2}),
   Says(AnswerOf("text", "NO_ACTIONABLE_ROOT_CAUSE", {}, {}, {1, 2}), "ROOT_CAUSE", {1}),
   Says(AnswerOf("text", "CANDIDATE", {RootOf("x", "LATENCY", "none")}, {}, {1, 2}), "CHANGE", {}),
   AnswerOf("text", "UNDETERMINED", {}, {}, {9}), AnswerOf("text", "CONFIRMED", {}, {}, {}),
   AnswerOf("unreadable", "UNDETERMINED", {}, {}, {})}
BrokenAnswer == AnswerOf("null", "UNDETERMINED", {}, {}, {})

BatchOf(way, cases, truths, room, lenient) ==
  [way |-> way, cases |-> cases, truths |-> truths, room |-> room, lenient |-> lenient,
   strict |-> way = "runtime", origin |-> "real", insecure |-> FALSE, version |-> 1,
   answers |-> TrialAnswers]
Batches ==
  {BatchOf("runtime", <<TimeoutCase, QuietCase>>, {TimeoutTruth, QuietTruth}, 2, TRUE),
   BatchOf("direct", <<TimeoutCase, TimeoutCase>>, {TimeoutTruth}, 1, FALSE),
   BatchOf("direct", <<CascadeCase, DarkCase>>, {OpenTruth}, 1, TRUE),
   BatchOf("direct", <<TimeoutCase, TimeoutCase>>, {TimeoutTruth, OpenTruth}, 2, TRUE),
   [BatchOf("runtime", <<TimeoutCase, DarkCase>>, {TimeoutTruth, OpenTruth}, 2, TRUE)
      EXCEPT !.answers = {BrokenAnswer, AnswerOf("text", "UNDETERMINED", {}, {}, {1, 2})}],
   BatchOf("direct", <<[TimeoutCase EXCEPT !.steps = 1], TimeoutCase>>, {TimeoutTruth}, 1, TRUE),
   BatchOf("runtime", <<TimeoutCase, TimeoutCase>>, {TimeoutTruth, QuietTruth}, 1, TRUE),
   [BatchOf("direct", <<TimeoutCase, TimeoutCase>>, {TimeoutTruth}, 1, TRUE)
      EXCEPT !.insecure = TRUE, !.answers = {BrokenAnswer}],
   [BatchOf("direct", <<TimeoutCase, TimeoutCase>>, {TimeoutTruth}, 1, TRUE)
      EXCEPT !.insecure = TRUE, !.origin = "simulation",
             !.answers = {AnswerOf("text", "CANDIDATE", {}, {1}, {1, 2})}],
   BatchOf("contract", <<TimeoutCase, QuietCase>>, {TimeoutTruth, QuietTruth}, 1, FALSE),
   BatchOf("contract", <<TimeoutCase, QuietCase>>, {TimeoutTruth, OpenTruth}, 1, FALSE)}

----------------------------------------------------------------------------
(* Experiments: two cases, of which one truth names the other case's service; a       *)
(* snapshot that is not real and one whose noise does not fit; parts to be merged.   *)
VariantsOf(one, other) == [clean |-> "clean", first |-> one, second |-> other]
MeasureOf(accuracy, recall, tools, leaked) ==
  [accuracy |-> accuracy, recall |-> recall, unsupported |-> 0, tools |-> tools, tokens |-> 9,
   leaked |-> leaked]
Measurements == {MeasureOf(8, 7, 3, FALSE), MeasureOf(8, 8, 2, FALSE), MeasureOf(5, 8, 2, TRUE)}

SignalOf(id, type) == [id |-> <<id>>, type |-> type]
CaseOf(scenario, service, entry, signals, mentions) ==
  [scenario |-> scenario, service |-> service, entry |-> entry, evidence |-> signals,
   mentions |-> {Name(b) : b \in mentions}, errors |-> {"db_timeout"}, aliased |-> {},
   calls |-> {[tool |-> s.type, status |-> "SUCCEEDED", ids |-> {s.id}] : s \in signals},
   steps |-> Cardinality(signals)]
Snapshot ==
  {CaseOf("s1", "x", "y", {SignalOf("e1", "LOG"), SignalOf("e2", "TRACE"), SignalOf("e3", "CHANGE")},
           {"x", "y", "z"}),
   CaseOf("s2", "z", "none", {SignalOf("e1", "METRIC"), SignalOf("e2", "LOG")}, {"z"})}
StudyTruths == {[scenario |-> "s1", names |-> {Name("x"), Name("y")}],
            [scenario |-> "s2", names |-> {Name("z"), Name("x")}]}
MeasuredRun(id, scenario, seen) == [id |-> id, scenario |-> scenario, seen |-> seen]
PartOf(model, of) == [make |-> model, runs |-> of]
StudyOf(variants, cases, parts, real) ==
  [variant |-> variants, cases |-> cases, truths |-> StudyTruths, real |-> real, parts |-> parts, needed |-> 2, each |-> 1]
FewStudies ==
  {StudyOf(VariantsOf("service_rename", "missing_logs"), Snapshot,
           <<PartOf("m", {MeasuredRun(1, "s1", 1)}),
             PartOf("m", {MeasuredRun(1, "s1", 2), MeasuredRun(2, "s2", 1)})>>, TRUE),
   StudyOf(VariantsOf("noise_50", "composite_fault"),
           Snapshot \cup {CaseOf("s3", "x", "none", {SignalOf("e1", "LOG"), SignalOf("e4", "LOG"),
                                                    SignalOf("e5", "TRACE")}, {"x"})},
           <<PartOf("m", {MeasuredRun(1, "s1", 1)}), PartOf("n", {MeasuredRun(2, "s2", 1)})>>, TRUE),
   StudyOf(VariantsOf("missing_traces", "topology_shift"), Snapshot,
           <<PartOf("m", {MeasuredRun(1, "s1", 1)}), PartOf("m", {MeasuredRun(1, "s2", 1)})>>, FALSE)}

----------------------------------------------------------------------------
(* Drills: one service twice, two services at a time, and two scenarios.             *)
DriveOf(by, steps, aspects, most) ==
  [by |-> by, plan |-> steps, rules |-> aspects, runs |-> most]
Own == {<<"x", "own">>, <<"y", "own">>}
ShopRules == Own \cup {<<"x", "other">>}
Drives == {DriveOf("executor", <<<<"x">>>>, Own, 2), DriveOf("pair", <<<<"x", "y">>>>, Own, 1),
           DriveOf("runner", <<<<"x">>, <<"y">>>>, Own, 2),
           DriveOf("runner", <<<<"x">>, <<"y">>>>, ShopRules, 1)}

----------------------------------------------------------------------------
(* Load tests: three alerts in a row; an alert the queue may drop, with a restart;  *)
(* two rates; files of k6; a plan; a consumer's lag with the topic filled.           *)
LoadOf(mode, rates, partitions, fates, most, earlier) ==
  [mode |-> mode, rates |-> rates, partitions |-> partitions, fates |-> fates, restarts |-> most,
   late |-> IF partitions = {} THEN 1 ELSE 0,
   readings |-> most, earlier |-> earlier, shared |-> partitions \ {1}, runs |-> partitions # {}, waiting |-> IF mode = "lag" THEN 2 ELSE 0,
   summaries |-> {[Unmeasured EXCEPT !.p95 = {1}, !.p99 = {1}, !.errors = {0}, !.outbox = {0},
                                     !.completion = {100}, !.lag = {0}, !.duration = d] @@
                  [count |-> n] : n, d \in {{}, {2}, {3}}}]
RateOf(planned, interval) == [planned |-> planned, interval |-> interval]
AllLoads ==
  {LoadOf("http", <<RateOf(3, 1)>>, {}, {"accepted"}, 0, {}),
   LoadOf("http", <<RateOf(1, 1)>>, {1}, {"accepted", "lost"}, 1, {1}),
   LoadOf("http", <<RateOf(1, 1), RateOf(1, 1)>>, {1}, {"accepted"}, 0, {}),
   LoadOf("k6", <<RateOf(2, 1), RateOf(1, 2)>>, {}, {}, 0, {}),
   LoadOf("contract", <<RateOf(2, 1)>>, {}, {}, 0, {}),
   LoadOf("lag", <<RateOf(1, 1)>>, {1, 2}, {}, 1, {})}

----------------------------------------------------------------------------
\* The scenarios of the part that moves.  One that stays where it is needs none, but
\* for what its first state is made of.
Of(p, scenarios) == IF part = p THEN scenarios ELSE {CHOOSE s \in scenarios : TRUE}
Else(p, scenarios) == IF part = p THEN scenarios ELSE {"unused"}

\* What a scenario of a set asks for, over all of them.
AskedIn(S, who) == {s[w] : s \in S, w \in who}

\* The scenarios of administrators ask for what administrators can ask for.
AdministrationAsks ==
  /\ EditAsks(AskedIn(Edits, Editor)) /\ GrantAsks(AskedIn(Grantings, Admin))
  /\ CurationAsks(AskedIn(Curatings, Curation)) /\ UpsertAsks(AskedIn(Furnishings, Upsert))

\* Those of calls have a target, those of the range ask for a phase.
OutsideAsks ==
  /\ \A s \in Callings : \A c \in Outgoing : s[c] \in CallTargets
  /\ \A s \in Orders : \A r \in Directive : s[r] \in OrderAsk

\* Settings are those there are, logins bring keys there are, requests come of sources
\* there are, and counters of workers stay below their bound.
ProcessAsks ==
  /\ Givens \subseteq Setting /\ BearerAsks(AskedIn(Bearings, Login))
  /\ VisitAsks(AskedIn(Visitings, Visit)) /\ HealthAsks(FirstHealth)

\* Calls of tools have queries, evidence is of kinds there are, a topology has nodes,
\* an investigation has a policy and a budget, candidates have an order.
AgentAsks ==
  /\ CallAsks(AskedIn(Tryings, Invocation))
  /\ EvidenceAsks(Evidences) /\ GraphAsks(Graphs)
  /\ InquestAsks(Inquests) /\ RankingAsks(Rankings)

ASSUME ScenarioAssumption == AdministrationAsks /\ OutsideAsks /\ ProcessAsks /\ AgentAsks

ServicesInit ==
  /\ part \in Moving
  /\ \E storm \in Of("intake", Posts) : Posting(storm)
  /\ \E talk \in Of("analysis", Talks) : Asking(talk)
  /\ \E purpose \in Of("retention", Trails), run \in Of("retention", AuditedRun) :
       Reading(purpose, run)
  /\ \E case \in Of("tickets", Cases) : Bringing(case)
  /\ \E edits \in Of("runbooks", Edits) : Editing(edits)
  /\ IF part = "grants" THEN \E requests \in Grantings : Granting(requests)
     ELSE granting = "unused"
  /\ database \in Of("readiness", BOOLEAN)
  /\ \E inquest \in Of("investigation", Inquests) : Inquiring(inquest)
  /\ candidates \in Of("report", Rankings)
  /\ given \in Else("configuration", Givens)
  /\ books \in Of("runbooks", FirstBooks)
  /\ IF part = "controller" THEN \E directives \in Orders : Ordered(directives)
     ELSE order = "unused"
  /\ \E targets \in Of("outbound", Callings) : Calling(targets)
  /\ \E tokens \in Of("logins", Bearings) : Bearing(tokens)
  /\ \E ways \in Of("edge", Visitings) : Visiting(ways)
  /\ IF part = "releases" THEN \E script \in Curatings : Curate(script)
     ELSE curating = "unused"
  /\ IF part = "workspaces" THEN \E script \in Furnishings : Furnish(script)
     ELSE upserting = "unused"
  /\ IF part = "toolcalls" THEN \E calls \in Tryings : Trying(calls)
     ELSE invoking = "unused"
  /\ worker \in Of("loops", Workers5)
  /\ workerHealth \in Of("monitoring", FirstHealth)
  /\ facts \in Of("reasoning", Evidences) /\ resolving \in Of("reasoning", {"legacy", "safe"})
  /\ graph \in Of("reasoning", Graphs)
  /\ bench \in Else("evaluation", Trials)
  /\ study \in Else("experiments", Studies)
  /\ drill \in Else("drill", Drills)
  /\ desk \in Of("console", {"incident", "plan", "draft"})
  /\ load \in Of("load", LoadPlans)
  /\ IntakeInit /\ AnalysisInit /\ RetentionInit /\ TicketInit /\ LifecycleInit
  /\ ReadinessInit /\ CatalogInit /\ GrantsInit
  /\ InvestigationInit /\ GenerationInit /\ ConfigurationInit
  /\ ControllerInit
  /\ OutboundInit
  /\ SigningInit
  /\ EdgeInit
  /\ ReleasesInit
  /\ WorkspacesInit
  /\ CallsInit
  /\ LoopsInit
  /\ MonitoringInit
  /\ CausesInit
  /\ BenchmarkInit
  /\ ExperimentsInit
  /\ DrillInit
  /\ ConsoleInit
  /\ LoadInit

\* Everything but one part stays where it is.
Only(p) ==
  /\ part = p
  /\ IF p = "intake" THEN TRUE ELSE UNCHANGED intakeVars
  /\ IF p = "analysis" THEN TRUE ELSE UNCHANGED analysisVars
  /\ IF p = "retention" THEN TRUE ELSE UNCHANGED retentionVars
  /\ IF p = "tickets" THEN TRUE ELSE UNCHANGED ticketVars
  /\ IF p = "lifecycle" THEN TRUE ELSE UNCHANGED lifecycleVars
  /\ IF p = "readiness" THEN TRUE ELSE UNCHANGED readinessVars
  /\ IF p = "runbooks" THEN TRUE ELSE UNCHANGED catalogVars
  /\ IF p = "grants" THEN TRUE ELSE UNCHANGED grantVars
  /\ IF p = "investigation" THEN TRUE ELSE UNCHANGED investigationVars
  /\ IF p = "report" THEN TRUE ELSE UNCHANGED generationVars
  /\ IF p = "configuration" THEN TRUE ELSE UNCHANGED configurationVars
  /\ IF p = "controller" THEN TRUE ELSE UNCHANGED controllerVars
  /\ IF p = "outbound" THEN TRUE ELSE UNCHANGED outboundVars
  /\ IF p = "logins" THEN TRUE ELSE UNCHANGED signingVars
  /\ IF p = "edge" THEN TRUE ELSE UNCHANGED edgeVars
  /\ IF p = "releases" THEN TRUE ELSE UNCHANGED releaseVars
  /\ IF p = "workspaces" THEN TRUE ELSE UNCHANGED workspaceVars
  /\ IF p = "toolcalls" THEN TRUE ELSE UNCHANGED callVars
  /\ IF p = "loops" THEN TRUE ELSE UNCHANGED loopVars
  /\ IF p = "monitoring" THEN TRUE ELSE UNCHANGED monitoringVars
  /\ IF p = "reasoning" THEN TRUE ELSE UNCHANGED causeVars
  /\ IF p = "evaluation" THEN TRUE ELSE UNCHANGED benchmarkVars
  /\ IF p = "experiments" THEN TRUE ELSE UNCHANGED experimentVars
  /\ IF p = "drill" THEN TRUE ELSE UNCHANGED drillVars
  /\ IF p = "console" THEN TRUE ELSE UNCHANGED consoleVars
  /\ IF p = "load" THEN TRUE ELSE UNCHANGED loadVars
  /\ UNCHANGED part

ServicesNext ==
  \/ Only("intake") /\ IntakeNext
  \/ Only("analysis") /\ AnalysisNext
  \/ Only("retention") /\ RetentionNext
  \/ Only("tickets") /\ TicketNext
  \/ Only("lifecycle") /\ LifecycleNext
  \/ Only("readiness") /\ ReadinessNext
  \/ Only("runbooks") /\ CatalogNext
  \/ Only("grants") /\ GrantsNext
  \/ Only("investigation") /\ InvestigationNext
  \/ Only("report") /\ GenerationNext
  \/ Only("configuration") /\ ConfigurationNext
  \/ Only("controller") /\ ControllerNext
  \/ Only("outbound") /\ OutboundNext
  \/ Only("logins") /\ SigningNext
  \/ Only("edge") /\ EdgeNext
  \/ Only("releases") /\ ReleasesNext
  \/ Only("workspaces") /\ WorkspacesNext
  \/ Only("toolcalls") /\ CallsNext
  \/ Only("loops") /\ LoopsNext
  \/ Only("monitoring") /\ MonitoringNext
  \/ Only("reasoning") /\ CausesNext
  \/ Only("evaluation") /\ BenchmarkNext
  \/ Only("experiments") /\ ExperimentsNext
  \/ Only("drill") /\ DrillNext
  \/ Only("console") /\ ConsoleNext
  \/ Only("load") /\ LoadNext

ServicesSpec == ServicesInit /\ [][ServicesNext]_servicesVars

\* The others never leave their first state: what moves tells the state.
View ==
  CASE part = "intake" -> <<part, intakeVars>>
    [] part = "analysis" -> <<part, analysisVars>>
    [] part = "retention" -> <<part, retentionVars>>
    [] part = "tickets" -> <<part, ticketVars>>
    [] part = "lifecycle" -> <<part, lifecycleVars>>
    [] part = "readiness" -> <<part, readinessVars>>
    [] part = "runbooks" -> <<part, catalogVars>>
    [] part = "grants" -> <<part, grantVars>>
    [] part = "investigation" -> <<part, investigationVars>>
    [] part = "report" -> <<part, generationVars>>
    [] part = "configuration" -> <<part, configurationVars>>
    [] part = "controller" -> <<part, controllerVars>>
    [] part = "outbound" -> <<part, outboundVars>>
    [] part = "logins" -> <<part, signingVars>>
    [] part = "edge" -> <<part, edgeVars>>
    [] part = "releases" -> <<part, releaseVars>>
    [] part = "workspaces" -> <<part, workspaceVars>>
    [] part = "toolcalls" -> <<part, callVars>>
    [] part = "loops" -> <<part, loopVars>>
    [] part = "monitoring" -> <<part, monitoringVars>>
    [] part = "reasoning" -> <<part, causeVars>>
    [] part = "evaluation" -> <<part, benchmarkVars>>
    [] part = "experiments" -> <<part, experimentVars>>
    [] part = "drill" -> <<part, drillVars>>
    [] part = "console" -> <<part, consoleVars>>
    [] part = "load" -> <<part, loadVars>>

\* The components that promise to get somewhere.
ProgressSpec ==
  /\ ServicesInit /\ [][ServicesNext]_servicesVars
  /\ \/ part = "intake" /\ IntakeFairness
     \/ part = "retention" /\ RetentionFairness
     \/ part = "tickets" /\ TicketFairness
     \/ part = "lifecycle" /\ LifecycleFairness
     \/ part = "investigation" /\ InvestigationFairness
     \/ part = "logins" /\ SigningFairness

\* The types of the part that moves.
TypesOK ==
  CASE part = "intake" -> IntakeTypeOK
    [] part = "analysis" -> AnalysisTypeOK
    [] part = "retention" -> RetentionTypeOK
    [] part = "tickets" -> TicketTypeOK
    [] part = "lifecycle" -> LifecycleTypeOK
    [] part = "readiness" -> ReadinessTypeOK
    [] part = "runbooks" -> CatalogTypeOK
    [] part = "grants" -> GrantsTypeOK
    [] part = "investigation" -> InvestigationTypeOK
    [] part = "report" -> GenerationTypeOK
    [] part = "configuration" -> ConfigurationTypeOK
    [] part = "controller" -> ControllerTypeOK
    [] part = "outbound" -> OutboundTypeOK
    [] part = "logins" -> SigningTypeOK
    [] part = "edge" -> EdgeTypeOK
    [] part = "releases" -> ReleasesTypeOK
    [] part = "workspaces" -> WorkspacesTypeOK
    [] part = "toolcalls" -> CallsTypeOK
    [] part = "loops" -> LoopsTypeOK
    [] part = "monitoring" -> MonitoringTypeOK
    [] part = "reasoning" -> CausesTypeOK
    [] part = "evaluation" -> BenchmarkTypeOK
    [] part = "experiments" -> ExperimentsTypeOK
    [] part = "drill" -> DrillTypeOK
    [] part = "console" -> ConsoleTypeOK
    [] part = "load" -> LoadTypeOK

\* A process: its settings keep what the protocols assume, a shutdown releases
\* what workers use after they have ended, and readiness is not older than it
\* may be; administrators log in by keys of the provider, and requests are
\* counted and held to their quota.  settings.py:634-1261, runtime.py:445-729,
\* oidc.py:262-405, rate_limit.py:76-107, middleware.py:45-105; the loops of workers
\* report what their cycles did and scrapes what they last counted.
\* outbox_worker.py:96-206, outbox_backlog.py:40-115, registry.py:300-700.
ProcessIsSound ==
  /\ [](CASE part = "configuration" -> RunningIsSafe
          [] part = "lifecycle" -> ShutdownIsOrderly
          [] part = "logins" -> LoginsAreSound
          [] part = "edge" -> EdgeIsSound
          [] part = "loops" -> LoopsAreSound
          [] part = "monitoring" -> MonitoringIsSound
          [] part = "readiness" -> ReadyMeansSeen
          [] OTHER -> TRUE)
  /\ ReadinessIsSpaced /\ NoCycleAfterStop /\ NeverBackwards

\* What administrators do to runbooks, grants, datasets and workspaces under
\* retries and races.  runbook_admin_store.py:62-260,
\* tool_permission_admin_store.py:60-260, dataset_release_store.py:38-193,
\* workspace_repository.py:81-228.
AdministrationIsSound ==
  /\ [](CASE part = "runbooks" -> RunbooksAreSound
          [] part = "grants" -> GrantsAreSound
          [] part = "releases" -> ReleaseIsSound
          [] part = "workspaces" -> WorkspacesAreSound
          [] OTHER -> TRUE)
  /\ PublishedIsKept /\ PublishedStays

\* The calls of an agent's tools, the evidence it works with and the report a model
\* makes of it.  executor.py:78-206, controlled_workflow.py:289-451,
\* bounded_dynamic.py:60-260, llm_report_generator.py:155-430; the causes it ranks and
\* the chain it builds.  pipeline.py:30-231, causal_context.py:20-290.
AgentIsSound ==
  /\ [](CASE part = "toolcalls" -> ToolCallsAreSound
          [] part = "reasoning" -> CausesAreSound
          [] part = "investigation" -> InvestigationsAreSound
          [] part = "report" -> ReportingIsSound
          [] OTHER -> TRUE)
  /\ CheckpointsAdvance /\ OpenKeepsItsTime

\* What leaves the platform: calls to vendors, channels and controllers, and the
\* range's own controller.  http_json.py:97-268, jira.py:100-217, webhook.py:87-175,
\* minishop.py:368-821.
OutsideIsSound ==
  CASE part = "outbound" -> CallsAreSound [] part = "controller" -> ControllerIsSound
    [] OTHER -> TRUE

\* Requests that take locks in opposite orders end, old trails go,
\* submissions get their results, a shutdown, an investigation and a login end.
\* alert_service.py:100-105, audit_retention_worker.py:123-151,
\* ticket_submission_record_processor.py:61-123, runtime.py:615-729.
Progress ==
  IntakeEnds /\ OldTrailsGo /\ SubmissionsSettle /\ ShutdownEnds /\ InvestigationsEnd
  /\ LoginsEnd

\* What is measured is what was answered, and what is made of measurements comes of
\* them.  live_runner.py:512-921, scorer.py:129-276, runner.py:54-275,
\* generalization.py:43-225, generalization_report.py:197-373.  A drill reports its own
\* incident and leaves the shop as it was: blackbox_executor.py:70-362,
\* run_multi_incident.py:40-180, run_e2e.py.  The console's card shows what was so, and a
\* decision changes what was seen: app.js:783-1063.  A load test passes what it measured:
\* run_load.py:233-292, 494-647, consumer.py:436-502.
TrialsAreSound ==
  /\ [](CASE part = "console" -> ConsoleIsHonest
          [] part = "drill" -> DrillsAreSound
          [] part = "evaluation" -> BenchmarkIsSound
          [] part = "experiments" -> ExperimentsAreSound
          [] part = "load" -> LoadsAreEarned
          [] OTHER -> TRUE)
  /\ LagIsBracketed

=============================================================================
