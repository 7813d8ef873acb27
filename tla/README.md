# A verification development for the DevOps agent platform

The platform (`src/src/devops_agent_platform`, Python, asyncio, PostgreSQL,
Kafka) turns alerts into incidents, investigates each incident with an agent
(RCA), and lets people act on the result: tickets, and remediations that a
second person approves.  Around it the repository has a demonstration shop with
faults to drill on, an evaluation of the agent, load tests and a console.  What
is hard in it is not any single function but the way its processes share rows,
leases, messages, caches and clocks.  This directory models those protocols in
TLA+, checks small instances with TLC and proves the central results with TLAPS
for every instance.

Paths below are relative to `src/src/devops_agent_platform/` unless they begin
with `ops/` or `MiniShop`, which are relative to `src/`.

## 1. Inventory

### 1.1 The protocols of an incident

| Component | State it keeps | Operations | Hard behaviour | What makes it correct |
|---|---|---|---|---|
| **Alerts and incidents** `application/services/alert_service.py`, `alert_correlation_service.py`, `infrastructure/adapters/sqlalchemy/incident_lock.py` | incidents, alert events, advisory locks of services | receive an alert: lock, look for a candidate, open or attach | first alerts of one storm at once, alerts of connected services, an attach beside a change of status, repeats | one active incident per storm; an incident's row tells of its alerts; no status is taken back |
| **Start of an RCA, resolution, closure** `rca_service.py`, `incident_resolution_service.py` | incident with its version, run, keys of requests, audit | start, resolve, close, recover after a conflict | two starts of one incident, retries of a key, a save that changes no column | one active run per incident, each key honoured once |
| **WorkflowRun execution lease** `workflow_execution_service.py`, `rca_execution_coordinator.py`, `rca_requested_handler.py`, `rca_cancellation_service.py`, `workflow_run_repository.py` | one row of `workflow_runs`: status, owner, expiry, heartbeat, attempts, version; report and evidence | claim, heartbeat, complete, cancel | takeover of an expired lease while the old agent still runs, stale clocks, lost commit answers, a crash between any two steps, replicas that share a worker id | an ended run stays ended; report and evidence are the final attempt's; only an ended run's message is acknowledged |
| **Outbox dispatch** `outbox_dispatcher.py`, `outbox_dispatch_store.py` | rows of `outbox_events`: status, attempts, lock, lease, next time | claim a batch, publish, mark, clean up | two dispatchers on one row, a publish that times out after it was sent, a batch that outlives its lease | at least once, within a budget; every event is settled; no stale worker overwrites |
| **Kafka consumption** `infrastructure/adapters/kafka/consumer.py`, `rca_record_processor.py`, `rca_consumer_runner.py` | partition position, committed offset, dead letters | poll one, process, commit, seek back, dead-letter | a commit that fails after the work is done, a rebalance in a long run, poison messages | no record is passed over before its run ended or it is a dead letter |
| **Remediation** `remediation_service.py`, `remediation_reclaim_worker.py`, `domain/models/remediation.py` | one row: status, version, lease of the running phase, idempotency keys | create, decide, execute, roll back, reclaim | an external effect outlives the lease, replayed requests, the reclaim worker races the result | a result is stored once, under the version and lease that started it; only what another person approved is carried out |
| **Tickets** `ticket_draft_service.py`, `ticket_submission_service.py`, `ticket_submission_requested_handler.py`, `ticket_submission_record_processor.py` | draft, submission per target, result, messages | draft, decide, submit, call the gateway, record | duplicate deliveries, an answer that is lost after a ticket was opened, racing keys | one submission per target, of an approval that stands; a result is final |
| **Audit retention** `audit_retention_service.py`, `audit_retention_worker.py`, `rca_query_service.py` | rows and children of ended runs, purge marks | purge a batch; read a result, export, use evidence | a purge between two statements of a reader, two purgers | a reader is never shown half a trail as a whole one |
| **Feedback** `rca_feedback_service.py` | feedback rows | give feedback | replays | one per key; only its use of evidence is modelled |

How they interact: an alert opens or joins an incident; an HTTP request starts
an RCA and writes run and event in one transaction; a dispatcher publishes the
event; a consumer is handed the record, claims the run, runs the agent beside a
heartbeat, completes the run and only then lets the offset be committed.
Cancellation writes the same row; resolution and closure write the incident's.
Ticket submission repeats the pattern (row, outbox, consumer) with an external
system behind it, remediation with a controller that is called directly.

### 1.2 The process

| Component | State it keeps | Hard behaviour | What makes it correct |
|---|---|---|---|
| **Lifecycle** `bootstrap/runtime.py` | stage, resources, worker tasks | a start that fails or is cancelled half way, a worker that does not stop, cancellation of the shutdown | nothing is released before its users ended, whatever was opened is closed |
| **Readiness** `bootstrap/runtime.py`, `bootstrap/readiness.py` | cached probe result, lock | requests that line up behind a slow probe, a shutdown meanwhile | "ready" rests on an answer that is recent; one query for all |
| **Settings and wiring** `infrastructure/config/settings.py`, `bootstrap/rca_runtime.py` | settings | combinations that only the constructors refuse | what runs satisfies what the protocols assume |
| **HTTP edge** `interfaces/http/middleware.py`, `rate_limit.py` | windows per source (LRU), counters | eviction, cancellation of a request in flight | quota per window; every request counted once |
| **Signing keys** `infrastructure/auth/oidc.py` | cached key document, refresh lock, unknown keys | rotation, concurrent logins, failures, close | no key beyond its time, no key the provider never had, no storm of refreshes |
| **Worker loops** `outbox_worker.py` and the four other runners | health, failure streak, pause | a stop or a cancellation in any place of the loop | health tells what the cycles did; backoff grows and resets; no cycle after a stop |
| **Metrics** `infrastructure/metrics/registry.py`, `outbox_backlog.py` | gauges, cached backlog | scrapes beside each other, failures that are cached | a current value is recent, gauges never go backwards between scrapes |

### 1.3 Administration

Runbooks (`runbook_admin_service.py`), tool permissions
(`tool_permission_admin_service.py`), dataset releases
(`dataset_release_service.py`) and workspaces (`workspace_service.py`) each keep
rows with a revision, operations under idempotency keys and audit events.  What
is hard is what a request does at READ COMMITTED after it waited for a lock that
somebody else held, and where there is no row to lock.  They are correct if a
revision is one operation, what is published stays as it is, and a repeat is told
what the first was told.

### 1.4 The agent and what it calls

| Component | Hard behaviour | What makes it correct |
|---|---|---|
| **Investigation** `agent/controlled_workflow.py`, `bounded_dynamic.py`, `infrastructure/adapters/sqlalchemy/investigation_checkpoint.py` | permissions revoked in the middle, a predecessor beside its successor, checkpoints that fail | budget, permission before each call, evidence accounted, confidence earned |
| **Tools** `tools/executor.py`, `tools/handlers/*`, `tools/mcp_adapter.py` | queries of one call in parallel, timeouts and cancellation, slots | slots are given back, results bounded and marked as cut, calls audited |
| **RCA reasoning** `rca_reasoning/pipeline.py`, `causal_context.py` | facts in any order, facts of the past, contradictions | order does not decide; the cause is a candidate; the chain is in the topology |
| **Reports by models** `agent/llm_report_generator.py`, `infrastructure/llm/failover.py` | breaker with one probe, providers in order, answers to be refused | an open breaker keeps its time; what a report says is supported |
| **Outbound calls** `infrastructure/ticketing/*`, `infrastructure/notifications/webhook.py`, `infrastructure/remediation/http.py` | an answer that is late, too long or unclear | final and retryable errors are told apart; nothing final is told for what may have happened |
| **Range controller** `infrastructure/remediation/minishop.py` | repeats, restarts, a call that is carried out late | one transition per call, an append-only trail that the row agrees with |

### 1.5 Trials

Evaluation (`evaluation/live_runner.py`, `scorer.py`, `runner.py`,
`generalization.py`, `ops/evaluation/*`), fault drills (`ops/minishop-e2e/*` on
`MiniShop 电商下单故障演练靶场/app`), the console
(`interfaces/http/static/ops-console/app.js`), load tests (`ops/load/run_load.py`)
and the consumer's lag.  What is hard: batches cut short and taken up again,
drivers that are killed, answers that arrive in another order than they were
asked for, counters that restart between two readings.  They are correct if a
number that is reported was measured, and of what it claims to be about.

### 1.6 Not modelled

Knowledge, topology and change events (`knowledge_service.py`,
`topology_service.py`, `change_event_service.py`): reads, and inserts of one row
under an idempotency key, as in 1.3.  DTOs, migrations, deployment files and the
remaining scripts.  See section 8.

## 2. Plan

The order followed what the rest rests on: the row that decides an
investigation, the two transports around it, the protocol that touches other
people's systems; then the services around them; then the process they run in,
the agent they run, and the trials.

| Step | Modules | State |
|---|---|---|
| 1 | `WorkflowLease`, abstract `RunOutcome` | modelled, checked, safety and refinement proved |
| 2 | `OutboxDispatch`, abstract `AtLeastOnce` | modelled, checked, safety and refinement proved |
| 3 | `RcaDelivery` (composes `AtLeastOnce` and the lease of a run) | modelled, checked, safety proved |
| 4 | `Remediation` | modelled, checked, safety proved |
| 5 | `TicketSubmission`, abstract `TicketLedger` | modelled, checked, safety and refinement proved |
| 6 | `AlertIntake`, `IncidentAnalysis`, `AuditRetention` | modelled, checked, safety proved |
| 7 | `Lifecycle`, `Readiness`, `Configuration`, `HttpEdge`, `SigningKeys`, `WorkerLoops`, `Monitoring` | modelled, checked, safety proved |
| 8 | `RunbookCatalog`, `ToolGrants`, `DatasetReleases`, `Workspaces` | modelled, checked, safety proved |
| 9 | `OutboundCalls`, `RangeController` | modelled, checked, safety proved |
| 10 | `Investigation`, `ToolCalls`, `RootCauses`, `ReportGeneration` | modelled, checked, safety proved |
| 11 | `Verdicts`, `Benchmark`, `Experiments`, `FaultDrill`, `OpsConsole`, `LoadTest` | modelled, checked |

Left: proofs for the protocols of step 11 (drills and console); knowledge,
topology and change events; `ops/chaos` and `ops/simulation`.

Conventions: one action per transaction or step of the code, named after the
handler or its outcome; a step that commits and a step that is refused or fails
are separate actions (or branches) with the same precondition; what lies between
two awaits of one event loop is one step; a definition that begins with
`\* Mutation:` is not part of the model, but a plausible bug that the property
named beside it in `PROJECT.json` catches.

## 3. The modules

### 3.1 WorkflowLease, RunOutcome

State: the row `run` (the columns the conditions read), `report`, `evidence`
and `audit` for the rows written with it, a reference `clock`, and for every
process its program counter, granted attempt, clock reading, heartbeat task and
the answer of its last delivery; for every cancellation request the version and
time it loaded.

| Action | Code |
|---|---|
| `Deliver`, `Release` | `RCARequestedMessageHandler.handle`: a message, new or repeated, begins a claim; what the handler answers decides whether it is acknowledged |
| `ClaimCommits`, `ClaimRefused`, `Reread` | `claim` and the `UPDATE ... WHERE` of `claim_for_execution`; a refused claim reads the row to tell an ended run from an active one |
| `TransactionFails` | any transaction that raises; its commit may have taken place |
| `AgentEnds`, `LeaseLost` | `_run_with_heartbeat`: the agent's result, error or timeout, against the heartbeat task |
| `BeginComplete`, `CompleteCommits`, `CompleteRefused` | `complete` with report and evidence in the same transaction; after a refusal the row is read again (`RereadAnswer`) |
| `BeginRenew`, `RenewCommits`, `RenewFails` | `_heartbeat_loop`, `heartbeat`, `renew_execution_lease` |
| `CancelLoads`, `CancelSaves`, `CancelFails` | `RCACancellationService`, under the optimistic version |
| `Crash`, `Tick` | a process stops between any two steps; time |

A transaction reads its host's clock first and compares the reading later, so
`Begin*` and `*Commits` are separate and `Readings` allows a host to be
`MaxSkew` ticks off.  `RunOutcome` is what the rest of the system sees: attempts,
at most one end, a report of the attempt that ended it, one audit event.
`MCWorkflowLease` puts three settings beside each other (section 4).

### 3.2 OutboxDispatch, AtLeastOnce

State: the rows (`status`, `attempts`, `lockId`, what is left of lease and
delay), `sent` (copies on the topic), and for each dispatcher its batch with the
attempts it was handed, the publish under way and the verdict it is about to
write.  `SelectBatch` locks and reads (`FOR UPDATE SKIP LOCKED`), `CommitClaim`
writes; `Publish` may reach the topic and report a failure all the same; `Mark`
is the update fenced by status and `lock_id`; `ClaimFails`, `MarkFails` and
`Crash` end a cycle.  `Rest` is what `run_once` does with the rest of a batch.
`AtLeastOnce` is the contract: what is marked published was sent, what is
settled stays so, and (its fair version) everything is settled.

### 3.3 RcaDelivery

The outbox is `AtLeastOnce` itself (`Publish` is its `Send`, `Settle(r)` its
`Settle` and `GiveUp`), so what `OutboxDispatch` is shown to implement is what
this module assumes.  Of a run it keeps the status, the holder of the lease and
whether the lease has run out; that is the part of `WorkflowLease` its
consumers can tell apart.  A consumer polls one record (`Poll`), judges it
(`Skip` foreign types, `Reject` what does not parse, `Claim` or `NotClaimed`),
works (`Complete`, `LeaseLost`, `WorkFails`), dead-letters, commits, and in every
failure seeks back (`Retry`, `Rewind`).  `Rebalance`, `Assign` and `Leave` are
the consumer group, external to the repository.  `MCDelivery` runs consumers, or
an instance of `OutboxDispatch` with its fairness.

### 3.4 Remediation

State: the plan (`status`, `author`, the key and operator of each phase, whether
the running lease has passed, who ended each phase), the `task` of each process
(which request it serves, which status it loaded), and the controller: calls it
was sent, calls it carried out, what they amount to.  Decide, execute and roll
back are one pattern in the code, so they are one in the model:

| Action | Code (`remediation_service.py`) |
|---|---|
| `Create`, `DecideLoads`, `Decide` | `create`, `decide`; the author may not approve (`MayDecide`) |
| `RequestLoads`, `Claim` | the first half of `execute` and `rollback` |
| `ReplayDecided`, `ReplayEnded`, `ReplayRunning` | a retry under the same key: told the result, or calling the controller again under the same controller key, or failing an expired claim |
| `Call`, `Perform`, `Answered`, `NotAnswered` | `_call_executor` and the controller, which may act long after the caller stopped waiting |
| `Reload`, `Recheck`, `Finish` | the second half: load again, compare, write |
| `Expire`, `Scan`, `FailStale` | end of a lease, the reclaim worker, `_fail_stale_execution` and `_fail_stale_rollback` |
| `Abort` | a process stops or a step raises |

`Unchanged` is the comparison of `replace`: versions, not statuses.  That the
same number belongs to two statuses (APPROVED and REJECTED are version 2,
SUCCEEDED and FAILED 4) is in the model as it is in the code.  A lease is a
boolean: once some clock has passed its end a reader may find it expired, and
one whose reading is older or slower may still find it active.

### 3.5 AlertIntake

`receive_alert` as one transaction in steps: `Post` (a request, new or repeated),
`Handle` (threshold, advisory locks of the own service and of its neighbours in
one order, candidates, correlation, the commit as `create` or `attach`, the
recovery from a conflict), `Abort` (a statement fails, the process stops) and
`MoveOn` (an RCA or a person changes the status of an incident).  Incidents are
named by the request that opened them; `IncidentId` gives the ids that break a tie
in the order of the query.  `Candidates` is that query as it is written: the first
`CandidateLimit` of a service by update and id, whatever their environment
(`Loadable`, `Ahead`).  `leftOut` is a history variable that no guard reads: what
the limit cut off when a request took its decision.

### 3.6 IncidentAnalysis

One incident: `Attach` (an alert joins), `Call` (a request, new or repeated),
`Handler` (the steps of `RCAService.start` and of resolve and close, each a read
or the commit), `Fails`, `RunMoves` (a run starts, ends or is canceled).
`StartSavesUnchanged` is the save of an incident that is ANALYZING already: it
changes no column, so nothing is compared.

### 3.7 AuditRetention

`Midnight` and `Finish` (a run ends and its trail is complete), `Purge` with its
two halves `SelectForUpdate` and `PurgeCommits`, `PurgeFails`, and `Look`: the
statements of a reader one by one, for the result of a run, for an export, or
for a request that needs the evidence.

### 3.8 TicketSubmission, TicketLedger

`Serve`: `Inquire`, `LooksUpKey`, `Loads`, `Saves`, `Conflicts`, `Recovers`,
`Breaks` for drafts, decisions and submissions, which have one shape.
`Consume`: `Take` (the message, again and again), `OpenTicket` and `RefuseTicket`
(the gateway, of which the answer may be lost), `RecordResult`,
`ResultIsThere`, `Acknowledge`, `DeadLetter`, `Drop`.  A target either honours the
event's id as a key (`Deduplicating`) or opens a ticket for every call.
`TicketLedger` is the promise: one draft decided once, one submission per target
of an approved draft, one result that stays.

### 3.9 The process

* `Lifecycle`: the start in stages (`CheckDatabase`, `StartWorkers`,
  `VerifyWorkers`, `StartFails`), the shutdown (`Close`, `GraceEnds`,
  `WorkerAwaited`, `AllAwaited`, `WaitCancelled`, `CancelForwarded`, `Release`,
  `Closed`), and the workers as far as either waits for them.  A cancellation of
  `close()` ends the wait while the worker is shielded; once the worker has been
  cancelled it is passed on to it, and the wait goes on.
* `Readiness`: probes (`CheckReadiness`, `TakeTurn`, `DatabaseAnswers`, `ProbeEnds`,
  `Answered`, `ClientGone`) beside a runtime that starts and closes, a worker that
  dies and a database that comes and goes.
* `Configuration`: `LoadSettings` refuses what the validators refuse,
  `BuildRuntime` what the constructors refuse.
* `HttpEdge`: a request enters, passes the quota, takes a service, is handled and
  counted, or is abandoned in any place.
* `SigningKeys`: logins with a cached document, its refresh under one lock, the
  provider's rotation, cancellation, and the close of the authenticator.
* `WorkerLoops`: one loop of each kind of worker with cycles of every outcome.
* `Monitoring`: scrapes in parallel, the cached backlog count, worker health.

### 3.10 Administration

`RunbookCatalog` (`LookUpEdit`, `LockHead`, `Apply`, `Found`), `ToolGrants`
(`LookUpChange`, `SelectActive`, `GetsRow`, `CountVersions`, `CommitSet`,
`CommitRevoke`, and a viewer's statements), `DatasetReleases` (`LookUpRelease`,
`InsertRelease`, `HoldRelease`, `Review`, `Publish`, and a spectator's
statements), `Workspaces` (`FindOperation`, `HoldWorkspace`, `ApplyUpsert`,
`RecoverOperation`).  Each has an action for a request that drops out between
any two statements.

### 3.11 The agent and what it calls

* `Investigation`: fixed plans (`StartPlan`, `PrepareStep`, `CallOfPlan`,
  `CallEnds`) and dynamic ones (`LoadContext`, `Choose`, `CheckPermission`,
  `BeginCall`, `DynamicCallEnds`, `SaveCheckpoint`), with `RevokeGrant` and
  `CancelExecution` at any time and a successor beside its predecessor.
* `ToolCalls`: slot, handler, parallel queries, withdrawal, timeout, cancellation,
  and the foreign server's tools, which take no slot.
* `RootCauses`: `Rank`, `Conclude`, `Explain` as functions of evidence and graph.
* `ReportGeneration`: `AskModel`, `ProviderAnswers`, `ProviderFails`,
  `ModelTimesOut`, `GenerationCancelled` around one breaker.
* `OutboundCalls`: tickets, notices and remediations on their way out, with what
  the other side did kept apart from what was answered.
* `RangeController`: requests as transactions of one SQLite store, the post to
  the shop between two of them, restarts.

### 3.12 Trials

`Verdicts` (operators: answer to prediction to score) is extended by `Benchmark`
(a batch with its calls, files and restarts); its confidences are integers where
the code compares floats, so a rounding that makes two of them equal is not there.  `Experiments`: variants of
snapshots, comparisons, ablation, merged shards.  `FaultDrill`: the three drivers
as scripts of steps beside shop, alerts and incidents that move by themselves.
`OpsConsole`: cards, requests in flight, dialogs, other operators, and the answer
of a started RCA, which overwrites the field for the workflow (`RcaAnswers`).
What a card shows is judged by id, status and version; a late answer may put
another incident's title beside them, which the state carries and no property
judges, because nothing in the repository promises it.  `LoadTest`:
rates, queue, senders, scrapes, the platform, and the lag measured partition by
partition.  Counts are tiny, so `ArrivalTolerance` is 25 per cent there where the
code has 5.

### 3.13 MCServices

The components of 3.5 to 3.12 meet only through rows and messages that are
inputs of each, so they are put side by side: the variable `part` names the one
a behaviour is about, every other keeps its first state.  `Of` and `Else` choose
the scenario sets of the part that moves; `View` keeps only its variables.  The
scenario sets (who asks for what, under which key) are described where they are
defined.  The composite properties name, part by part, the properties of the
modules: `ProcessIsSound`, `AdministrationIsSound`, `AgentIsSound`,
`OutsideIsSound`, `TrialsAreSound` and, under fairness, `Progress`.

### 3.14 Abstractions

* Ids, payloads, reports and evidence are model values or the attempt that
  wrote them; validation of payloads is the set `Bad` of records.
* In `WorkflowLease` an agent run is one step with a heartbeat beside it; its
  inside is `Investigation`.
* Backoff of the outbox is a delay between one tick and `MaxBackoff`.
* Policy, catalog and evidence checks of remediation may refuse; a refusal
  changes nothing and is left out.
* That the controller carries out a call once per key is an assumption on it
  (the adapter sends the key as `Idempotency-Key`); the mutant
  `CallKeyOfRequest` shows that results become false without it.
* One run, one partition, one plan, one incident: rows do not interact but
  through a batch or a storm, which are modelled.
* Texts are what their readers find in them; scores are whole numbers on a
  scale that keeps the code's comparisons.

## 4. What the runs check

`TypeOK` (`TypesOK`) is the type invariant of each module.

| Run | Instance | Shows |
|---|---|---|
| `lease_settings` | three settings: two executors with ids of their own and clocks a tick off, clock up to 4; agreeing clocks and prompt heartbeats, clock up to 8; two executors with one id and two cancelers, clock up to 4 | the conditions imply the CHECK constraints, only the current attempt renews (first setting); `PromptSoleAgent` (second); with shared ids the attempt alone fences: acknowledgement, completion, attempts, audit, and `RunOutcome` is implemented |
| `lease_stale_renewal` | two executors with one id | violation, section 7 |
| `outbox_settings` | two dispatchers, two events, batch 2, 3 attempts, lease 3, timeout 1; ids of their own, prompt timing, one shared id | exclusive claims, copies within the budget, `AtLeastOnce` is implemented; what waits can be claimed and each settles its own claim (own ids); no overlap (prompt) |
| `outbox_stranded`, `outbox_dirty_row` | smallest instances | violations, section 7 |
| `delivery` | 2 consumers; a run, a foreign and a bad record; 2 records on the topic, 2 rebalances of a live owner; beside it 2 dispatchers, one event, 2 attempts | `NothingSkipped`, `Drains`, `RequestsEnd`; `DispatchSettles` |
| `remediation` | 2 requests, 2 people, 2 keys, batch 50, with fairness | all safety properties and `StuckPlansEnd` |
| `remediation_batch` | batch 1000 | violation, section 7 |
| `services` | the 26 parts of `MCServices`, one moving at a time | `AlertsConverge`, `OncePerKey`, `TrailsAreWhole`, `TicketsAreAccounted` and the safety composites |
| `progress` | small instances of six parts, with fairness | intake ends, old trails go, submissions settle, a shutdown, an investigation and a login end; `TicketLedger` is implemented |
| `rejected_conclusion`, `late_analysis` | one part | violations, section 7 |

Bounds, and why they are enough:

* Lease 2 and heartbeat 1 are the smallest values with one renewal before the
  end.  The clock reaches far enough for a claim, a takeover after the lease, and
  the stale completion and renewal behind it (with prompt timing, for a second
  takeover).  One tick of skew makes every pair of readings disagree in either
  direction.
* Two processes are the case of every race in the code, which is always between
  the owner and its successor or between two writers of one version; three where
  a third one matters (a storm, a start beside a resolution).
* In the outbox, lease 3 with batch 2 and timeout 1 is the tightest the
  configuration accepts (`lease > batch * timeout`), so `PromptNeverOverlaps` is
  checked where it could fail first; 2 and 3 attempts hold a takeover in the
  middle of the budget and one at its end.
* In the delivery, 2 records hold a duplicate, or a record with one behind it;
  the bound `MaxMoves` counts only rebalances that take the partition from a
  live consumer: crashes and departures are not bounded.
* In remediation two requests with two people and keys hold a retry, a foreign
  request and the author.  Nothing else is bounded: every phase occurs at most
  once.
* In `services` a cache, a window or a retention period lasts one or two ticks
  and time goes a tick beyond its end; a queue, a slot or a window set holds one
  or two and one more wants in; a worker runs three cycles, enough to fail, fail
  again and recover.  Alerts, analysis, tickets and retention are small here
  because section 6 has them for every instance.
* The query for candidates returns one incident of a service in `services`, where
  the code has 50: with three requests the limit then binds, and two incidents are
  enough for one of them to be left out.
* `progress` keeps the scenarios that can block each other: alerts of two
  connected services taken in opposite order, two purgers, redelivery, workers
  that never end their cycle.

All bounds (`MaxClock`, `MaxLog`, `MaxMoves`, `MaxPosts`, `MaxVersion`,
`MaxTickets`, `MaxDay`, `MaxCycles`, the last instants of the clocks, and the
like) are in guards and named in the modules.  Deadlock is checked in the runs
of the first four modules; the parts of `MCServices` end when their requests are
answered, so it is not checked there, and `Progress` says what must not get
stuck.

## 5. Fairness

* `OutboxDispatch!Fairness`: weak fairness of time; of each dispatcher's cycle,
  because `OutboxWorkerRunner` loops for ever and is restarted; strong fairness
  of a claim that found work, because a database does not refuse every such
  claim.  No fairness of publishing: the event may fail every time, and is then
  given up.
* `RcaDelivery!Fairness`: what the outbox promises; the group assigns a free
  partition; the lease of a run nobody works on passes; and no step of the
  consumers (poll, judge, claim, complete, dead-letter, commit) fails every time
  it is tried.  The last is an assumption on broker and database and not on the
  code: consumers retry all of these without a limit.  Rebalances of live
  owners end (`MaxMoves`), or none of it would hold.
* `Remediation!FairSpec`: time passes, the reclaim worker runs, and its write
  does not fail every time.  Requests have no fairness at all: a caller may
  never come back.
* `IntakeFairness`: a request's coroutine is scheduled, and a wait for a lock is
  bounded by `lock_timeout`.
* `RetentionFairness`: days pass, a worker runs cycle after cycle, and its
  transaction does not fail every time.
* `TicketFairness`: a message that nobody acknowledged is delivered again;
  gateway, database and process do not fail every time.
* `LifecycleFairness`: awaits with a timeout end, a cancellation arrives,
  connections get closed.  No worker has to end its cycle, or its start, by
  itself.
* `InvestigationFairness`: tools and permission checks have timeouts, and so has
  the execution.
* `SigningFairness`: a login's steps without a wait are taken, and a fetch of
  keys ends because its reads have a timeout.
* `WorkflowLease` has no liveness property of its own; that runs end is stated
  where messages come back, in `RcaDelivery`.

The prompt settings of lease and outbox are no fairness but a timing assumption:
steps that are due are taken before the next tick.

## 6. What is proved

TLAPS checks these for all values of the constants; the assumptions are named
in the modules, and TLC evaluates them in the runs.

| Module | Theorems |
|---|---|
| `WorkflowLeaseProofs` | `TypeCorrect`, `Invariance`, `AcknowledgedRunsHaveEnded`, `CompletionsAreOwn`, `ArtifactsAreFinal`, `AttemptsIdentifyExecutions`, `CancellationIsAudited`, `ConditionsSuffice`, `EndedRunsStayEnded`, `UpdateTimeGrows`, `LeaseImplementsOutcome`, `PromptSoleExecution`, `OwnIdsRenewOwnAttempt`, `DistinctRenewOwnAttempt` |
| `OutboxProofs` | `AlwaysTyped`, `AlwaysExclusive`, `AlwaysWithinBudget`, `AlwaysAtLeastOnce`, `OwnIdsStrandNothing`, `OwnIdsSettleOwnClaim`, `OwnSettingsStrandNothing`, `OwnSettingsSettleOwnClaim`, `PromptNeverOverlap` |
| `RcaDeliveryProofs` | `DeliveryTypeCorrect`, `CommittedIsDone` |
| `RemediationProofs` | `RemediationTypeCorrect`, `RemediationInvariance`, `ResultsAreFinal`, `TellsTheTruth`, `CallersHoldTheClaim`, `CallsAreApproved`, `ResultsStayTrue` |
| `IncidentProofs` | `RetentionInvariant`, `RetentionTypes`, `TrailsStayWhole`; `AnalysisInvariant`, `AnalysisTypes`, `KeysAreHonouredOnce`; `IntakeInvariant`, `IntakeTypes`, `AlertsAlwaysConverge`; `TicketsAlwaysAccounted`, `ServicesKeepTheLedger`; `ToolCallsAlwaysSound`, `CausesAlwaysSound`, `InvestigationsAlwaysSound`, `ReportingAlwaysSound` |
| `ComponentProofs` | `RunbooksAlwaysSound`, `PublishedRunbooksStay`, `GrantsAlwaysSound`, `ReleasesAlwaysSound`, `PublishedReleasesAreKept`, `WorkspacesAlwaysSound`, `CallsAlwaysSound`, `ControllerAlwaysSound` |
| `ProcessProofs` | `RunningAlwaysSafe`, `ShutdownAlwaysOrderly`, `ReadinessAlwaysTrue`, `LoginsAlwaysSound`, `EdgeAlwaysSound`, `LoopsAlwaysSound`, `MonitoringAlwaysSound` |
| `ServicesProofs` | `OutsideStaysSound`, `AdministrationStaysSound`, `ProcessStaysSound`, `AgentStaysSound` |

**Lease**, under `TimingAssumption` and `IdentityAssumption` (the lease is
positive, any skew, worker ids may be shared).  The inductive invariant is
`IInv`: `RowInv` (the row is storable; a running row was last written by a claim
or a heartbeat), `ExecInv` (attempts of executions at work differ and do not
exceed the row's), `LoadedInv` (a cancellation that loaded the current version
checked the current row) and `OutcomeInv` (what the answers and side tables
say).  `RowInv` is needed because the conditions of an update compare times with
each other, and only their history makes them ordered; `LoadedInv` because the
version is compared and nothing else.  The proof goes by the four writes of the
row (`OnlyWritesChangeTheRow`, `RowWriteEffects`).  Two results need more of
the world.  `PromptSoleExecution` supposes that clocks agree, that due steps are
taken before time passes, and `HeartbeatInterval < LeaseDuration`, which the
settings demand (`infrastructure/config/settings.py:749-757`); its invariant
`PromptInv` says that a process that executes holds the latest attempt, that its
lease outlasts its next due renewal, and that what a transaction read of the
clock is still the time.  `OwnIdsRenewOwnAttempt` supposes that no two processes
have one worker id; `OwnerIsCurrent` then says that the process the row names
executes the attempt the row names, or none.  `PromptSoleExecution` and
`DistinctRenewOwnAttempt` are about the behaviours of `MCWorkflowLease`, whose
settings differ in skew and worker ids and never change.

**Outbox**, under `ConfigAssumption` (any batch, attempts, timeout and backoff, a
lease longer than batch times timeout, without which the runtime is not built) and
`IdentityAssumption` (finitely many dispatchers and events; worker ids may be
shared).  A claim is selected and committed under row locks
(`Selected`), so its number of attempts is new to whoever holds an older claim of
the row (`Held`); every claim that may still publish counts like a copy that was
sent (`Budgeted`).  If no publish exceeds its timeout, the lease of a row
outlasts the rest of its batch (`Leased`).  `OwnSettingsStrandNothing`,
`OwnSettingsSettleOwnClaim` and `PromptNeverOverlap` carry the three results to
the behaviours of `MCOutboxDispatch`, where the setting is a variable.

**Delivery**, under `RecordAssumption`.  `Safe`: whoever may commit a record has
seen to it and to all before it; also for a consumer that lost the partition and
does not know yet.

**Remediation**, under `PlanAssumption`.  The difficulty is that the version is
shared by two statuses and is all that a write compares.  `Later` orders the
statuses; from what a process loaded only one status with that version can be
reached (`SameVersion`), so a write hits the row it was made for
(`WritesAreExact`), so every step moves forward (`StepsAdvance`), so what other
processes rely on is kept (`TasksAreKept`).  `TaskInv` says what each process
relies on, `PlanInv` what decision, calls and answers say of the plan,
`ControllerInv` that each call has one result and what the results amount to: a
rollback is called only after the execution succeeded, so an execution that
arrives late cannot follow it (`CallsAreApproved`).

**Tickets**, under `TicketAssumption`.  An approval is final, so what a request
or a consumer has read of it still holds when it acts (`Warranted`, `Working`);
`TicketsFit` carries the event's key from the call to the ticket.  That the
services implement `TicketLedger` follows step by step.

**Retention**, under `RetentionAssumption`.  A row, its children and its purge
mark fit together (`RowSound`), a batch holds rows that may be purged and no
other purger holds (`BatchesSound`), and each reader has seen all there was
unless the purge came meanwhile, which the row then says (`Faithful`).  The last
is what makes a reader of several statements at READ COMMITTED safe: it compares
the mark after it has read the children.

**Analysis**, under `AnalysisAssumption`.  A version is never used again, so what
a request loaded is the row as long as the version is (`PlacesSound`); the slots
for resolution and closure follow the status, and each was filled by the one
request that is audited (`SlotsSound`, `AuditSound`); a run belongs to the
request that asked for it (`RunsSound`, `ToldSound`).  That one run at most is
active rests on the unique index and not on the version, which is why it holds
although `TerminalIsQuiet` does not.

**Intake**, under `IntakeAssumption` (any graph over the services, any order of
its nodes, finitely many requests and distinct ids of incidents; the tolerated
skew does not exceed the window; the limit of the query may be anything).
The lock of an alert's own service is held from before the candidates are read
until the commit (`OwnLock`), so nobody else can open an incident near to it, and
any that is near was left out by the limit when the request decided (`NoneNear`).
Convergence therefore holds but for such pairs, and `OnlyCrowdsAreCut` bounds
them: the limit cuts off nothing unless the service has had more incidents than
it (`CutFromACrowd`; `CrowdsStay`, because incidents are not deleted).  Without the
exception it is false, see the end of section 7.  What was loaded to attach to is the row while its version is
(`LoadedSound`), so the attach adds to what is there and takes no status back.

**The agent**, for any calls, evidence, topology, plan, budget and candidates
(`CallAsks`, `EvidenceAsks`, `GraphAsks`, `InquestAsks`, `RankingAsks`), and
whatever tools and models answer.  *Tool calls* (`ToolCallsInv`): the findings of a
call are of its own queries that are over, one of each (`FindingsFit`), its
queries run only while it does (`StageFits`), and what runs fits into the slots
(`SlotsFit`); that a result shows no more than its limit is a bound on a sum over
the findings.  *Causes* (`CausesInv`): what is ranked was scored from the facts
(`RankedFits`).  A score over the threshold has a present fact behind it, because
consistency alone does not reach it (`CandidateIsBacked`); structured facts have a
first one, which decides what words would have (`StructureDecides`); an accepted
answer selects exactly one ranked candidate (`AnswerIsCandidate`); and each node
of a chain is found once, by an edge from a node found before it
(`FollowedIsGrounded`).  *Investigations* (`InvestigationInv`, under
`InvestigationAssumption`: the steps of a plan are of different tools): evidence is
exactly what the calls brought (`Accounted`); a fixed plan has visited its first
tools and no other (`OfPlan`); the dynamic one counts a step before the call, so
calls stay within the budget, and after a revocation one call at most was already
permitted (`OfChoice`).  *Reports* (`GenerationInv`): a permit is as old as the
breaker that gave it or is out of date (`PermitFits`), so one request holds the
place of a probe and gives it back, and an old success does not close the breaker.

Sums and least numbers are what these proofs need of induction over data.  The
library's induction theorems cannot be used, but well-foundedness of the
finite subsets of a set is stated there without an operator: from it follow
`SmallestOf` (a non-empty set of naturals has a least), `AllOf` (a set with zero and
all successors is `Nat`), and, as sets of sizes, that the sum the community
module defines by a recursive function exists and is bounded (`SumExists`,
`SumIsBounded`).

**Administration**, under the assumptions of the four modules; requests are any
set of what can be asked for (`EditAsks`, `GrantAsks`, `CurationAsks`,
`UpsertAsks`).  *Runbooks* (`CatalogInv`): the head row, or what the first change
makes up for it, says which versions are draft and published and how many
revisions there were (`HeadFits`), the operations are the revisions
(`OperationsFit`), and who has got past the head row holds it (`LockersHold`).
*Grants* (`GrantInv`): a set that found no active row has locked nothing, so it
is the insert under the unique index that keeps one row active
(`AtMostOneActive`), while what a change knows of a row it has locked is still so
when it writes (`HoldersHold`, `WritersKnow`); each active row was made by a
change that is on record (`ActiveAreMade`), which is what a viewer's two
statements can find (`ViewersFound`).  *Releases* (`ReleasesInv`): a row counts
its reviews (`RowsAddUp`), who holds it has read it (`HoldersSee`), and a reader of
a row and of later reviews still gets an acceptable release because reviews are
only added before the publication (`ReadersMayGoOn`).  *Workspaces*
(`WorkspacesInv`): the operations of a workspace are its revisions
(`HistoryIsWhole`), and a revision that was read under the row's lock stays
(`AppliersHold`).

**Outbound calls**, under `OutboundAssumption` (routes are to vendors and
channels).  `CallsInv` says of each call what is known at the place where it is
(`CallFits`: which gateway it went to, what that may have told, whether the other
side may have acted, what was counted) and that the trail has its notice if and
only if it was told (`NotesFit`).

**Range controller**, under `ControllerAssumption`.  `ControllerInv`: the row and
its trail tell the same versions, a phase has its key from its claim on
(`KeyHeld`), each post to the shop belongs to a request that landed and to a phase
that was claimed with its key (`PostFits`), and a rollback is never posted before
an execution.

**The process.**  *Settings* (`ConfigurationInv`): what was loaded was accepted,
what was built was built of it; that this suffices for the times of the protocols
is arithmetic (`TimesHold`): a part of a batch takes no longer than the batch.
*Lifecycle* (`LifecycleInv`, under `LifecycleAssumption`: any of the five workers
may be off): what the start has opened stays open until every worker has been
waited for (`StartedFits`), and whoever had its turn in the shutdown is gone
(`ClosingFits`).  *Readiness* (`ReadinessInv`): a probe on its way to the database
holds the lock, and not for longer than its timeout (`ProbeFits`), so a stored
success is of an answer that came shortly before it was stored (`CacheFits`).
*Logins* (`SigningInv`, for tokens of any set whose key ids are known ones,
`BearerAsks`): a document is right of every key but those the provider changed
since its fetch began (`AsSince`), and who fetches stands first in the queue
(`QueueFits`), which is why one login fetches at a time.  *Edge* (`EdgeInv`, for
any finite number of requests and sources): gauge and counter are cardinalities
of sets of requests, and a window counts nothing that did not come in its time
(`WindowFits`).  The bound of twice the quota needs more: while no more sources
were admitted than there are windows, no window is taken from its source, so a
window knows all that was admitted since it began, and no span of a window's
length before it holds more than the quota (`EdgeCalm`).  *Loops* (`LoopsInv`, for
each kind of worker): a counter is the number of counted outcomes since the last
one that resets it (`StreaksFit`), and the pause is what the last cycle asked for
(`PauseFits`).  `LoopAssumption` says that the powers of two up to the bound are
naturals, because the provers know of them only that they are integers; TLC
evaluates it.  *Monitoring* (`MonitoringInv`): what a scrape has seen is not less
than what was highest when it came (`SeenFits`), one scrape at most counts
(`OneCounts`), and a report is as old as the count it was made of (`ReportFits`).

**Side by side**, under `ScenarioAssumption` (scenarios ask for what can be asked
for).  A step of a behaviour about one part is a step of that part
(`PartsMove`), and the others keep still (`OthersStay`), so what a component
keeps alone it keeps in `MCServices`: `OutsideStaysSound`,
`AdministrationStaysSound`, `ProcessStaysSound` and `AgentStaysSound` state the
composites the runs check, the last three with their action properties.

Only model-checked:

* all liveness (`Drains`, `RequestsEnd`, `DispatchSettles`, `StuckPlansEnd`,
  `Progress`): fairness and ENABLED are beyond the prover;
* the composite `TrialsAreSound` of `MCServices`.  Benchmarks, experiments and load
  tests rest on definitions over data (batches, merged files, percentiles,
  scripts) whose results are those of recursive definitions over sequences; drills
  and the console are protocols, and their invariants are left to TLC;
* `TypesOK` as the type invariant of all 26 parts; where a component's theorem
  includes its type invariant, it is proved of that part.

## 7. Findings

Each is a counterexample of a run, with the sentence it contradicts quoted in
`PROJECT.json`.

1. `lease_stale_renewal`: `renew_execution_lease` compares owner and lease but
   not the attempt.  Replicas share the worker id in the shipped configuration,
   so an execution that was taken over renews the lease of its successor.
   Results stay safe (`lease_settings`): the completion does compare the attempt.
2. `outbox_stranded`: the outbox fences by `lock_id` alone.  With a shared worker
   id a dispatcher that was taken over settles its successor's row, and can put
   a row whose attempts are used up back to PENDING, where nothing finds it.
   With ids of their own neither happens, which is proved.
3. `outbox_dirty_row`: a row that cannot be mapped makes the claim of its whole
   batch fail, at every poll.
4. `remediation_batch`: the setting for the reclaim batch goes to 1000, the
   repository refuses more than 500; the worker then reclaims nothing.
5. `late_analysis`: starting an RCA for an incident that is ANALYZING changes no
   column, so its version is not compared; the incident is resolved meanwhile,
   and the run waits on a resolved incident.
6. `rejected_conclusion`: the guardrails of the dynamic investigation put a node
   id of the topology where the report must name the service of the candidate;
   the report is refused and the run fails.

One more contradicts a sentence and has no run of its own, because `services`
holds the behaviour and `StormsConverge` excepts it by name (`leftOut`).  The
docstring of `find_candidates` (`incident_repository.py:173-175`) says
"保证 limit 截断后仍保留全局最优候选": the order keeps the best candidate of all when
the limit cuts.  The query (`:188-203`) selects by tenant, service, status and time;
environment and correlation are judged afterwards, on what it returned
(`alert_correlation_service.py:70-97`).  Incidents of another environment that were
updated later therefore take the places.  In `services`, with limit 1: alert `e3`
opens an incident of `y` in `prod`, `e4` one of `y` in `dev` a tick later; `e6`, of
`prod` and of the storm of `e3`, is given the incident of `dev` only, and opens a
second one.  Strike the exception from `StormsConverge` and TLC returns such a
behaviour.  In the code it takes more than 50 active incidents of one service
within the window (`alert_service.py:127`).

Worth knowing, and no contradiction of anything written:

* Delivery: a consumer that lost its partition in the middle of a record commits
  that record late, which can set the committed offset back (duplicates, no
  loss); an error nobody foresaw is retried for ever and blocks its partition.
* Remediation: a plan that FAILED because its lease passed says nothing of the
  target system, and no rollback leads out of FAILED.  The range's controller
  posts again when a request is repeated while the plan is EXECUTING.
* Lifecycle: a cancellation of `close()` during a worker's grace period abandons
  that worker; the
  database check of the start has no timeout.
* Settings: a symmetric OIDC algorithm, and an outbox lease that is too short for
  its batch, are accepted when the settings are loaded and refused when the
  runtime is built.
* Signing keys: one key of an algorithm that is not allowed spoils the document;
  an unknown key id blocks the next refresh for a while.
* HTTP edge: a source whose window was evicted starts with a new quota.
* Tool permissions: a SET that found no active grant has no row to lock and may
  reuse a version after a racing SET and REVOKE.
* Investigation: where the topology cannot be loaded, the dynamic way fails with
  an AttributeError; a checkpoint that fails after a success counts its step
  twice.
* Tools: a foreign server's call that is cancelled leaves no audit.
* Evaluation: an answer with `"claims": null` ends the batch with a TypeError,
  also where failures are to be kept.
* Console: a confirmation that is repeated before the answer comes is a request
  of its own under a new key; a decision about a plan or draft takes its id from
  the field and its version from the card.
* Drills: a driver that is killed leaves the fault's gauge on; a pair that misses
  its second incident settles neither.
* Load tests: the first rate on a new process never passes end to end, because a
  counter has no sample before its first increment; a lag that is unavailable is
  exported as 0 and passes the gate; completions that come late count for the
  next rate.

## 8. What is not modelled

* Knowledge, topology and change events: reads, and inserts of one row under an
  idempotency key, the pattern of the administration modules.  What the agent
  takes from them is an input of `RootCauses` and `ToolCalls`.
* Creation of a feedback, labels and histograms of metrics, the wording of
  hypotheses and reports, the query languages of the stores, prompts, rendering:
  data without shared state.
* `evaluation/generalization_report.py` beyond its comparisons, the generation
  and curation of data sets, `ops/chaos` and `ops/simulation`: scripts that call
  external commands in a row.
* DTOs, migrations, deployment files.
* Broker, database, identity provider, gateways, models and the shop are modelled
  by how the code uses them.
