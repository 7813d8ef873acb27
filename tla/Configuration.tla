--------------------------- MODULE Configuration ---------------------------
(* From the settings to a running process: what the settings model refuses  *)
(* when it loads, what the constructors of the components refuse when the    *)
(* runtime is built, and what the protocols may rely on after that.  An       *)
(* address is "none", "bad", "http" or "https"; a secret, or any other text,  *)
(* is "none", "bad" or "good"; times are in seconds.                         *)
EXTENDS Naturals

CONSTANT Tenant      \* tenants a remediation may be allowed for

VARIABLES
  given,     \* the settings, as the environment gives them
  phase,     \* "given", "loaded", "built" or "refused"
  sick       \* the components that fail at every cycle from then on

configurationVars == <<given, phase, sick>>

Address == {"none", "bad", "http", "https"}
Text == {"none", "bad", "good"}
Policies == {"fixed_default", "fixed_no_traces", "fixed_metrics_logs_runbooks",
             "bounded_dynamic_v1"}

Setting ==
  [production : BOOLEAN, in_range : BOOLEAN,
   webhook_auth : BOOLEAN, webhook_secret : Text,
   oidc : BOOLEAN, issuer : Address, jwks : Address, audience : Text, claims : Text,
   algorithms : {"empty", "symmetric", "asymmetric"},
   demo : BOOLEAN, demo_token : Text, demo_identity : Text,
   protocol : {"PLAINTEXT", "SSL", "SASL_PLAINTEXT", "SASL_SSL", "other"},
   mechanism : Text, username : Text, password : Text, names : Text, brokers : Text,
   outbox : BOOLEAN, batch : Nat, publish : Nat, outbox_lease : Nat,
   rca : BOOLEAN, policy : Policies \cup {"other"}, heartbeat : Nat, lease : Nat,
   execution : Nat, prometheus : Address, loki : Address, tempo : Address,
   observers : Text, rca_group : Nat, rca_dead : Nat, topic : Nat,
   tickets : BOOLEAN, tickets_group : Nat, tickets_dead : Nat,
   http_json : BOOLEAN, endpoint : Address, endpoint_token : Text,
   jira : BOOLEAN, jira_url : Address, jira_texts : Text, jira_token : Text,
   servicenow : BOOLEAN, servicenow_url : Address, servicenow_texts : Text,
   servicenow_password : Text,
   execute : BOOLEAN, controller : Address, controller_token : Text, catalog : Text,
   tenants : SUBSET Tenant, reclaim : BOOLEAN, reclaim_batch : Nat,
   remediation_timeout : Nat, remediation_lease : Nat, opens : Nat, closes : Nat,
   slack : Address, teams : Address, pagerduty : Text,
   report : BOOLEAN, provider : {"openai", "custom"}, model_url : Address, key : Text,
   model : Text,
   backoff : Nat, backoff_max : Nat]

----------------------------------------------------------------------------
(* The settings model.                                                      *)

\* The bounds of the fields the protocols depend on; "in_range" stands for
\* the bounds of all the others.
Bounds ==
  [batch |-> 1..100, outbox_lease |-> 1..3600, publish |-> 1..120,
   lease |-> 10..3600, heartbeat |-> 1..3599, execution |-> 2..86400]
FieldBounds(s) ==
  /\ s.in_range
  /\ s.batch \in Bounds.batch /\ s.outbox_lease \in Bounds.outbox_lease
  /\ s.publish \in Bounds.publish
  /\ s.lease \in Bounds.lease /\ s.heartbeat \in Bounds.heartbeat
  /\ s.execution \in Bounds.execution

\* Those of remediation and of the worker that reclaims its leases.
RemediationBounds(s) ==
  /\ s.remediation_timeout \in 1..60 /\ s.remediation_lease \in 5..3600
  /\ s.reclaim_batch \in 1..1000
  /\ s.opens \in 0..23 /\ s.closes \in 1..24
  /\ s.backoff \in 1..3600 /\ s.backoff_max \in 1..86400

\* Fields checked one by one, enabled or not: names, and addresses.
NameFields(s) ==
  /\ s.policy \in Policies
  /\ s.protocol # "other"
  /\ s.mechanism # "bad" /\ s.username # "bad" /\ s.names # "bad"
AddressFields(s) ==
  /\ "bad" \notin {s.endpoint, s.jira_url, s.servicenow_url, s.controller}
  /\ s.catalog # "bad"

\* Logins of administrators, and the signature of alerts.
AuthenticationIsSet(s) ==
  /\ ~(s.oidc /\ s.demo)
  /\ s.production => ~s.demo /\ s.webhook_auth
  /\ s.webhook_auth => s.webhook_secret = "good"
  /\ s.oidc => /\ s.issuer = "https" /\ s.jwks = "https"
               /\ s.audience = "good" /\ s.claims = "good"
  /\ s.demo => s.demo_token = "good" /\ s.demo_identity = "good"
  /\ s.algorithms # "empty"

Sasl(s) == s.protocol \in {"SASL_PLAINTEXT", "SASL_SSL"}
KafkaIsSet(s) ==
  IF Sasl(s) THEN {s.mechanism, s.username, s.password} = {"good"}
  ELSE {s.mechanism, s.username, s.password} = {"none"}


TimesFit(s) ==
  /\ s.backoff <= s.backoff_max
  /\ s.heartbeat < s.execution
  /\ s.heartbeat < s.lease

\* Consumers: what they read, the tools of the plan, and where they put what
\* they cannot read.
ConsumersAreSet(s) ==
  /\ s.rca =>
       /\ {s.prometheus, s.loki} \subseteq {"http", "https"}
       /\ s.tempo # "bad"
       /\ s.policy \in {"fixed_default", "bounded_dynamic_v1"} => s.tempo # "none"
       /\ s.observers # "bad"
       /\ s.rca_dead # s.topic
  /\ s.tickets => s.tickets_dead # s.topic
  /\ s.rca /\ s.tickets => s.rca_group # s.tickets_group /\ s.rca_dead # s.tickets_dead

TicketingIsSet(s) ==
  /\ s.http_json => s.tickets /\ s.endpoint # "none" /\ s.endpoint_token # "bad"
  /\ s.jira \/ s.servicenow => s.tickets
  /\ s.jira => /\ s.jira_url # "none" /\ s.jira_texts = "good" /\ s.jira_token = "good"
               /\ s.production => s.jira_url = "https"
  /\ s.servicenow =>
       /\ s.servicenow_url # "none" /\ s.servicenow_texts = "good"
       /\ s.servicenow_password = "good"
       /\ s.production => s.servicenow_url = "https"


RemediationIsSet(s) ==
  /\ s.execute => s.controller # "none" /\ s.tenants # {}
  /\ (s.controller # "none") <=> (s.catalog # "none")
  /\ s.reclaim => s.controller # "none"
  /\ s.controller = "none" => s.tenants = {} /\ s.controller_token = "none"
  /\ s.controller # "none" =>
       /\ s.opens < s.closes
       /\ s.remediation_timeout < s.remediation_lease
       /\ s.controller_token # "bad"
       /\ s.production => s.controller = "https"

NotificationIsSet(s) ==
  /\ "bad" \notin {s.slack, s.teams, s.pagerduty}
  /\ s.production => "http" \notin {s.slack, s.teams}

\* A provider needs a key and a model; only known ones have an address of
\* their own.
ProviderIsSet(s) ==
  s.key = "good" /\ s.model = "good" /\ (s.provider = "custom" => s.model_url # "none")
ReportsAreSet(s) ==
  s.report => s.rca /\ s.model_url # "bad" /\ s.model # "bad" /\ ProviderIsSet(s)

Accepts(s) ==
  /\ FieldBounds(s) /\ RemediationBounds(s) /\ NameFields(s) /\ AddressFields(s)
  /\ AuthenticationIsSet(s) /\ KafkaIsSet(s) /\ TimesFit(s) /\ ConsumersAreSet(s)
  /\ TicketingIsSet(s) /\ RemediationIsSet(s) /\ NotificationIsSet(s) /\ ReportsAreSet(s)

----------------------------------------------------------------------------
(* The constructors.                                                        *)

\* The batch of a dispatcher, published one after another, ends within the
\* lease of its claim.
DispatcherBuilds(s) == s.outbox => s.batch * s.publish < s.outbox_lease

AuthenticatorBuilds(s) == s.oidc => s.algorithms = "asymmetric"

ConsumersBuild(s) == (s.outbox \/ s.rca \/ s.tickets) => s.brokers # "none"

\* A ticket consumer without any gateway would retry one message for ever.
GatewaysBuild(s) == s.tickets => s.http_json \/ s.jira \/ s.servicenow

\* The catalog is read; the lease is compared with the call once more.
RemediationBuilds(s) ==
  s.controller # "none" =>
    s.catalog = "good" /\ s.remediation_lease \in 5..3600
    /\ s.remediation_timeout < s.remediation_lease

Builds(s) ==
  /\ DispatcherBuilds(s) /\ AuthenticatorBuilds(s) /\ ConsumersBuild(s)
  /\ GatewaysBuild(s) /\ RemediationBuilds(s)

\* The repository refuses more than it wants to read at once.
Sick(s) == IF s.reclaim /\ s.reclaim_batch > 500 THEN {"reclaim"} ELSE {}

----------------------------------------------------------------------------
LoadSettings ==
  /\ phase = "given"
  /\ phase' = IF Accepts(given) THEN "loaded" ELSE "refused"
  /\ UNCHANGED <<given, sick>>

BuildRuntime ==
  /\ phase = "loaded"
  /\ phase' = IF Builds(given) THEN "built" ELSE "refused"
  /\ sick' = IF Builds(given) THEN Sick(given) ELSE {}
  /\ UNCHANGED given

ConfigurationInit == phase = "given" /\ sick = {}
ConfigurationNext == LoadSettings \/ BuildRuntime
ConfigurationSpec ==
  given \in Setting /\ ConfigurationInit /\ [][ConfigurationNext]_configurationVars

----------------------------------------------------------------------------
ConfigurationTypeOK ==
  /\ given \in Setting
  /\ phase \in {"given", "loaded", "built", "refused"}
  /\ sick \subseteq {"reclaim"}

\* What the protocols assume of the times: a heartbeat is due before the lease
\* and before the execution ends, a whole batch is published inside its lease,
\* and a call to the controller ends while its claim holds.  rca_runtime.py:362-380,
\* outbox_dispatcher.py:29-46, remediation_service.py:190, settings.py:741-756, 1022.
ProtocolTimes(s) ==
  /\ s.rca => s.heartbeat < s.lease /\ s.heartbeat < s.execution /\ s.lease >= 10
  /\ s.outbox => \A k \in 1..s.batch : k * s.publish < s.outbox_lease
  /\ s.execute => s.remediation_timeout < s.remediation_lease

\* Events of one topic reach each consumer, and what is put aside is not read
\* again.  settings.py:1220-1249.
StreamsAreApart(s) ==
  /\ s.rca /\ s.tickets => s.rca_group # s.tickets_group
  /\ s.rca => s.rca_dead \notin {s.topic} \cup (IF s.tickets THEN {s.tickets_dead} ELSE {})
  /\ s.tickets => s.tickets_dead # s.topic

\* Nobody can be asked for what is not there: every tool of the plan has its
\* backend, every ticket consumer a gateway, every execution a controller, a
\* catalog and somebody it is allowed for.  ticket_submission_runtime.py:58-67.
NothingIsMissing(s) ==
  /\ s.rca /\ s.policy \in {"fixed_default", "bounded_dynamic_v1"} => s.tempo \in {"http", "https"}
  /\ s.tickets => s.http_json \/ s.jira \/ s.servicenow
  /\ s.execute => s.tenants # {} /\ s.catalog = "good" /\ s.controller \in {"http", "https"}
  /\ s.report => s.rca /\ s.key = "good"

\* In production nobody is an administrator by a fixed token, alerts are
\* signed, and keys and decisions leave over TLS.  settings.py:634-670, 1048-1080.
ProductionIsGuarded(s) ==
  s.production =>
    /\ ~s.demo /\ s.webhook_auth /\ s.webhook_secret = "good"
    /\ s.oidc => s.algorithms = "asymmetric" /\ s.issuer = "https"
    /\ s.jira => s.jira_url = "https"
    /\ s.execute => s.controller = "https"

SafeToRun(s) ==
  ProtocolTimes(s) /\ StreamsAreApart(s) /\ NothingIsMissing(s) /\ ProductionIsGuarded(s)

\* Whatever the environment gives, a process that was built can keep the
\* promises of its protocols.
RunningIsSafe == phase = "built" => SafeToRun(given)

\* Not checked, for it does not hold (Remediation_batch.cfg): nothing the
\* settings accept is refused by a running component.
NothingIsRefusedLater == sick = {}
=============================================================================
