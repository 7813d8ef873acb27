--------------------------- MODULE WorkflowLease ---------------------------
(***************************************************************************)
(* The execution lease of one RCA WorkflowRun: the row of workflow_runs    *)
(* and everything that writes it once it exists.                           *)
(*                                                                         *)
(* Executor processes (one RCA consumer each) take a delivered             *)
(* rca.requested message, claim the run with one conditional UPDATE, run   *)
(* the agent beside a heartbeat task that renews the lease, and complete   *)
(* the run with a conditional UPDATE fenced by owner, attempt and lease.   *)
(* Cancellation requests write the same row under its optimistic version.  *)
(*                                                                         *)
(* Every transaction reads its host's clock first and reaches the database *)
(* later, so a reading may be stale when it is compared; hosts' clocks may *)
(* differ by MaxSkew.  A message may be delivered to any process at any    *)
(* time (at-least-once delivery, rebalances), a process may crash between  *)
(* any two steps, and a commit's answer may be lost on its way back.       *)
(***************************************************************************)
EXTENDS Integers

CONSTANTS
  Executor,          \* RCA consumer processes
  WorkerName,        \* values worker_id may take
  WorkerId,          \* worker_id of each process; replicas may share one
  NoWorker,          \* lease_owner IS NULL
  Request,           \* cancellation requests (an idempotency key each)
  NoRequest,         \* cancellation metadata IS NULL
  LeaseDuration,     \* WorkflowClaimConfig.lease_duration, in ticks
  HeartbeatInterval, \* RCAExecutionCoordinatorConfig.heartbeat_interval
  MaxSkew,           \* how far a host's clock is from the reference clock
  MaxClock           \* bound: the reference clock stops here

ASSUME TimingAssumption ==
  /\ LeaseDuration \in Nat \ {0}
  /\ HeartbeatInterval \in Nat \ {0}
  /\ MaxSkew \in Nat
  /\ MaxClock \in Nat

ASSUME IdentityAssumption ==
  /\ WorkerId \in [Executor -> WorkerName]
  /\ NoWorker \notin WorkerName
  /\ NoRequest \notin Request

VARIABLES
  clock,      \* reference time
  run,        \* the workflow_runs row
  report,     \* attempt that stored the rca_reports row, 0 without one
  evidence,   \* attempts whose evidence and invocations are stored
  audit,      \* number of rca.canceled rows in the outbox
  pc,         \* what each process is doing with its message
  attempt,    \* execution_attempt each process was granted
  reading,    \* `now` of the transaction a process has under way
  heartbeat,  \* state of each process's heartbeat task
  beat,       \* `now` of its renewal, or when its waiting began
  outcome,    \* target_status the agent's end calls for
  reply,      \* what the last delivery led to
  cancelPc,      \* state of each cancellation request
  cancelVersion, \* version its transaction loaded
  cancelReading, \* `now` of its transaction
  cancelReply    \* the answer the caller last saw

rowVars == <<run, report, evidence, audit>>
workerVars == <<pc, attempt, reading, heartbeat, beat, outcome, reply>>
cancelVars == <<cancelPc, cancelVersion, cancelReading, cancelReply>>
vars == <<clock, rowVars, workerVars, cancelVars>>

----------------------------------------------------------------------------
(* The row and what the table accepts.                                     *)

Terminal == {"SUCCEEDED", "FAILED", "CANCELED"}
Active == {"PENDING", "RUNNING"}

NoTime == 0                 \* a timestamp column that IS NULL
CreatedAt == MaxSkew + 1    \* every reading of any host's clock is positive

Row == [status: Active \cup Terminal,
        leaseOwner: WorkerName \cup {NoWorker},
        leaseExpiresAt: Nat, heartbeatAt: Nat,
        startedAt: Nat, updatedAt: Nat, endedAt: Nat,
        attempts: Nat, version: Nat,
        canceledBy: Request \cup {NoRequest}]

\* CHECK constraints of the table, repeated by the domain object when a row
\* is loaded: timeline, status timeline, execution lease, cancellation.
ValidTimeline(r) ==
  /\ r.updatedAt >= CreatedAt
  /\ r.startedAt # NoTime => r.startedAt >= CreatedAt
  /\ r.endedAt # NoTime =>
       r.endedAt >= (IF r.startedAt = NoTime THEN CreatedAt ELSE r.startedAt)

ValidStatusTimeline(r) ==
  /\ r.status = "PENDING" => r.startedAt = NoTime
  /\ r.status \in {"RUNNING", "SUCCEEDED", "FAILED"} => r.startedAt # NoTime
  /\ (r.endedAt = NoTime) <=> (r.status \in Active)

ValidLease(r) ==
  IF r.status = "RUNNING"
    THEN /\ r.leaseOwner # NoWorker
         /\ r.heartbeatAt >= r.startedAt
         /\ r.leaseExpiresAt > r.heartbeatAt
         /\ r.attempts >= 1
    ELSE /\ r.leaseOwner = NoWorker
         /\ r.leaseExpiresAt = NoTime
         /\ r.heartbeatAt = NoTime

ValidCancellation(r) == r.canceledBy # NoRequest => r.status = "CANCELED"

Storable(r) ==
  /\ ValidTimeline(r)
  /\ ValidStatusTimeline(r)
  /\ ValidLease(r)
  /\ ValidCancellation(r)

----------------------------------------------------------------------------
(* The conditional updates: WHERE clauses and the rows they write.         *)

\* Mutation: a lease is taken over as soon as one heartbeat is missed.
ClaimableAfterMissedBeat(now) ==
  \/ run.status = "PENDING"
  \/ run.status = "RUNNING" /\ run.heartbeatAt + HeartbeatInterval <= now

Claimable(now) ==
  \/ run.status = "PENDING"
  \/ run.status = "RUNNING" /\ run.leaseExpiresAt <= now

\* Mutation: a takeover continues the attempt it takes over.
ClaimedSameAttempt(p, now) ==
  [run EXCEPT !.status = "RUNNING",
              !.startedAt = IF run.status = "PENDING" THEN now ELSE @,
              !.updatedAt = now,
              !.leaseOwner = WorkerId[p],
              !.leaseExpiresAt = now + LeaseDuration,
              !.heartbeatAt = now,
              !.attempts = IF run.status = "PENDING" THEN @ + 1 ELSE @,
              !.version = @ + 1]

Claimed(p, now) ==
  [run EXCEPT !.status = "RUNNING",
              !.startedAt = IF run.status = "PENDING" THEN now ELSE @,
              !.updatedAt = now,
              !.leaseOwner = WorkerId[p],
              !.leaseExpiresAt = now + LeaseDuration,
              !.heartbeatAt = now,
              !.attempts = @ + 1,
              !.version = @ + 1]

\* Mutation: renewal by workflow_run_id alone.
RenewableByAnyone(p, now) ==
  /\ run.status = "RUNNING"
  /\ run.leaseExpiresAt > now
  /\ run.leaseExpiresAt < now + LeaseDuration

Renewable(p, now) ==
  /\ run.status = "RUNNING"
  /\ run.leaseOwner = WorkerId[p]
  /\ run.leaseExpiresAt > now
  /\ run.leaseExpiresAt < now + LeaseDuration
  /\ run.heartbeatAt <= now

Renewed(now) ==
  [run EXCEPT !.heartbeatAt = now,
              !.updatedAt = now,
              !.leaseExpiresAt = now + LeaseDuration,
              !.version = @ + 1]

\* Mutation: completion fenced by owner and lease, not by attempt.
CompletableByOwner(p, now) ==
  /\ run.status = "RUNNING"
  /\ run.leaseOwner = WorkerId[p]
  /\ run.leaseExpiresAt > now
  /\ run.heartbeatAt <= now

\* Mutation: completion does not compare its time with the last heartbeat.
CompletableBeforeBeat(p, now) ==
  /\ run.status = "RUNNING"
  /\ run.leaseOwner = WorkerId[p]
  /\ run.attempts = attempt[p]
  /\ run.leaseExpiresAt > now

Completable(p, now) ==
  /\ run.status = "RUNNING"
  /\ run.leaseOwner = WorkerId[p]
  /\ run.attempts = attempt[p]
  /\ run.leaseExpiresAt > now
  /\ run.heartbeatAt <= now

Ended(status, now) ==
  [run EXCEPT !.status = status,
              !.updatedAt = now,
              !.endedAt = now,
              !.leaseOwner = NoWorker,
              !.leaseExpiresAt = NoTime,
              !.heartbeatAt = NoTime,
              !.version = @ + 1]

Canceled(r, now) == [Ended("CANCELED", now) EXCEPT !.canceledBy = r]

\* What some host's clock may show: within MaxSkew of the reference clock.
Readings == {t \in (clock - MaxSkew)..(clock + MaxSkew) : t > 0}

----------------------------------------------------------------------------
(* A process and its message.                                              *)

\* The consumer hands the process a record; claim() reads its clock.
Deliver(p) ==
  /\ pc[p] = "idle"
  /\ \E now \in Readings : reading' = [reading EXCEPT ![p] = now]
  /\ pc' = [pc EXCEPT ![p] = "claim"]
  /\ outcome' = [outcome EXCEPT ![p] = "none"]
  /\ attempt' = [attempt EXCEPT ![p] = 0]
  /\ reply' = [reply EXCEPT ![p] = "none"]
  /\ UNCHANGED <<clock, rowVars, heartbeat, beat, cancelVars>>

\* The delivery ends with an answer; the process keeps nothing else of it,
\* except what it was told it completed.
Release(p, answer) ==
  /\ pc' = [pc EXCEPT ![p] = "idle"]
  /\ reply' = [reply EXCEPT ![p] = answer]
  /\ reading' = [reading EXCEPT ![p] = NoTime]
  /\ heartbeat' = [heartbeat EXCEPT ![p] = "off"]
  /\ beat' = [beat EXCEPT ![p] = NoTime]
  /\ attempt' = [attempt EXCEPT ![p] = IF answer = "completed" THEN @ ELSE 0]
  /\ outcome' = [outcome EXCEPT ![p] =
                   IF answer = "completed" THEN @ ELSE "none"]

\* The claim commits: the process starts agent and heartbeat, or never
\* learns that it owns the lease (the answer of the commit is lost).
ClaimCommits(p) ==
  /\ pc[p] = "claim"
  /\ Claimable(reading[p])
  /\ Storable(Claimed(p, reading[p]))
  /\ run' = Claimed(p, reading[p])
  /\ \/ /\ pc' = [pc EXCEPT ![p] = "agent"]
        /\ attempt' = [attempt EXCEPT ![p] = run'.attempts]
        /\ heartbeat' = [heartbeat EXCEPT ![p] = "wait"]
        /\ beat' = [beat EXCEPT ![p] = clock]
        /\ reading' = [reading EXCEPT ![p] = NoTime]
        /\ UNCHANGED <<outcome, reply>>
     \/ Release(p, "retry")
  /\ UNCHANGED <<clock, report, evidence, audit, cancelVars>>

\* The WHERE clause matched no row: the transaction reads the row again.
ClaimRefused(p) ==
  /\ pc[p] = "claim"
  /\ ~Claimable(reading[p])
  /\ pc' = [pc EXCEPT ![p] = "reread"]
  /\ reading' = [reading EXCEPT ![p] = NoTime]
  /\ UNCHANGED <<clock, rowVars, attempt, heartbeat, beat, outcome, reply,
                 cancelVars>>

\* The transaction under way fails and leaves no trace: the database is
\* unreachable, or a constraint refuses the row.  The message is retried.
TransactionFails(p) ==
  /\ pc[p] \in {"claim", "reread", "complete"}
  /\ Release(p, "retry")
  /\ UNCHANGED <<clock, rowVars, cancelVars>>

\* Mutation: a message whose run is already taken is acknowledged.
RereadAcksDuplicate(p) ==
  IF outcome[p] = "none" THEN "ignored"
  ELSE IF run.status = outcome[p] /\ run.attempts = attempt[p]
    THEN "completed" ELSE "retry"


\* What the row read again means: for a claim, an ended run needs no work;
\* for a completion, only the same status under the same attempt is its own.
RereadAnswer(p) ==
  IF outcome[p] = "none"
    THEN IF run.status \in Terminal THEN "ignored" ELSE "retry"
    ELSE IF run.status = outcome[p] /\ run.attempts = attempt[p]
      THEN "completed" ELSE "retry"

\* Second statement of a claim or completion whose update matched nothing.
Reread(p) ==
  /\ pc[p] = "reread"
  /\ Release(p, RereadAnswer(p))
  /\ UNCHANGED <<clock, rowVars, cancelVars>>

\* Mutation: the timeout becomes a status of its own.
AgentOutcomesWithTimeout == {"SUCCEEDED", "FAILED", "TIMED_OUT"}

\* An agent error and the execution timeout both call for FAILED.
AgentOutcomes == {"SUCCEEDED", "FAILED"}

\* The agent ends: a result, an error, or the execution timeout.
AgentEnds(p) ==
  /\ pc[p] = "agent"
  /\ pc' = [pc EXCEPT ![p] = "join"]
  /\ \E status \in AgentOutcomes :
       outcome' = [outcome EXCEPT ![p] = status]
  /\ UNCHANGED <<clock, rowVars, attempt, reading, heartbeat, beat, reply,
                 cancelVars>>

\* The heartbeat task ended with an error: it wins over whatever the agent
\* produced, and nothing is completed.
LeaseLost(p) ==
  /\ pc[p] \in {"agent", "join"}
  /\ heartbeat[p] = "lost"
  /\ Release(p, "retry")
  /\ UNCHANGED <<clock, rowVars, cancelVars>>

\* The heartbeat task has stopped: complete() reads its clock.
BeginComplete(p) ==
  /\ pc[p] = "join"
  /\ heartbeat[p] = "wait"
  /\ pc' = [pc EXCEPT ![p] = "complete"]
  /\ heartbeat' = [heartbeat EXCEPT ![p] = "off"]
  /\ beat' = [beat EXCEPT ![p] = NoTime]
  /\ \E now \in Readings : reading' = [reading EXCEPT ![p] = now]
  /\ UNCHANGED <<clock, rowVars, attempt, outcome, reply, cancelVars>>

\* The repository completes a run only into one of these.
CompletionStatuses == {"SUCCEEDED", "FAILED"}

\* Terminal status, evidence, invocations and report in one transaction.
CompleteCommits(p) ==
  /\ pc[p] = "complete"
  /\ outcome[p] \in CompletionStatuses
  /\ Completable(p, reading[p])
  /\ Storable(Ended(outcome[p], reading[p]))
  /\ run' = Ended(outcome[p], reading[p])
  /\ evidence' = evidence \cup {attempt[p]}
  /\ report' = IF outcome[p] = "SUCCEEDED" THEN attempt[p] ELSE report
  /\ \E answer \in {"completed", "retry"} : Release(p, answer)
  /\ UNCHANGED <<clock, audit, cancelVars>>

CompleteRefused(p) ==
  /\ pc[p] = "complete"
  /\ ~Completable(p, reading[p])
  /\ pc' = [pc EXCEPT ![p] = "reread"]
  /\ reading' = [reading EXCEPT ![p] = NoTime]
  /\ UNCHANGED <<clock, rowVars, attempt, heartbeat, beat, outcome, reply,
                 cancelVars>>

----------------------------------------------------------------------------
(* The heartbeat task beside the agent.                                    *)

\* The interval has passed and no stop is signalled: renewal reads a clock.
BeginRenew(p) ==
  /\ pc[p] = "agent"
  /\ heartbeat[p] = "wait"
  /\ clock >= beat[p] + HeartbeatInterval
  /\ heartbeat' = [heartbeat EXCEPT ![p] = "renew"]
  /\ \E now \in Readings : beat' = [beat EXCEPT ![p] = now]
  /\ UNCHANGED <<clock, rowVars, pc, attempt, reading, outcome, reply,
                 cancelVars>>

RenewCommits(p) ==
  /\ heartbeat[p] = "renew"
  /\ Renewable(p, beat[p])
  /\ Storable(Renewed(beat[p]))
  /\ run' = Renewed(beat[p])
  /\ \/ /\ heartbeat' = [heartbeat EXCEPT ![p] = "wait"]
        /\ beat' = [beat EXCEPT ![p] = clock]
     \/ /\ heartbeat' = [heartbeat EXCEPT ![p] = "lost"]
        /\ beat' = [beat EXCEPT ![p] = NoTime]
  /\ UNCHANGED <<clock, report, evidence, audit, pc, attempt, reading, outcome,
                 reply, cancelVars>>

\* No row matched, or the database failed: either way the task raises.
RenewFails(p) ==
  /\ heartbeat[p] = "renew"
  /\ heartbeat' = [heartbeat EXCEPT ![p] = "lost"]
  /\ beat' = [beat EXCEPT ![p] = NoTime]
  /\ UNCHANGED <<clock, rowVars, pc, attempt, reading, outcome, reply,
                 cancelVars>>

\* The process dies and restarts with the same worker_id and no memory.
Crash(p) ==
  /\ pc[p] # "idle"
  /\ Release(p, "none")
  /\ UNCHANGED <<clock, rowVars, cancelVars>>

----------------------------------------------------------------------------
(* Cancellation: load, check, and save under the optimistic version.       *)

AnswerCancel(r, answer) == cancelReply' = [cancelReply EXCEPT ![r] = answer]

\* The request names a version the caller has seen, so any up to the
\* current one; the loaded object is checked in memory.
CancelLoads(r) ==
  /\ cancelPc[r] = "idle"
  /\ \E expected \in 1..run.version, now \in Readings :
       \/ /\ run.canceledBy = r
          /\ AnswerCancel(r, "duplicate")
          /\ UNCHANGED <<cancelPc, cancelVersion, cancelReading>>
       \/ /\ run.canceledBy # r
          /\ \/ expected # run.version
             \/ run.status \notin Active
             \/ now < run.updatedAt
          /\ AnswerCancel(r, "refused")
          /\ UNCHANGED <<cancelPc, cancelVersion, cancelReading>>
       \/ /\ run.canceledBy # r
          /\ expected = run.version
          /\ run.status \in Active
          /\ now >= run.updatedAt
          /\ cancelPc' = [cancelPc EXCEPT ![r] = "loaded"]
          /\ cancelVersion' = [cancelVersion EXCEPT ![r] = expected]
          /\ cancelReading' = [cancelReading EXCEPT ![r] = now]
          /\ AnswerCancel(r, "none")
  /\ UNCHANGED <<clock, rowVars, workerVars>>

CancelEnds(r) ==
  /\ cancelPc' = [cancelPc EXCEPT ![r] = "idle"]
  /\ cancelVersion' = [cancelVersion EXCEPT ![r] = 0]
  /\ cancelReading' = [cancelReading EXCEPT ![r] = NoTime]

\* Mutation: the save does not compare versions.
SaveAnyVersion(r) == TRUE

\* The optimistic lock: nobody wrote the row since it was loaded.
VersionUnchanged(r) == run.version = cancelVersion[r]

\* UPDATE ... WHERE version = the loaded one, and the rca.canceled event.
CancelSaves(r) ==
  /\ cancelPc[r] = "loaded"
  /\ CancelEnds(r)
  /\ IF VersionUnchanged(r)
       THEN /\ Storable(Canceled(r, cancelReading[r]))
            /\ run' = Canceled(r, cancelReading[r])
            /\ audit' = audit + 1
            /\ \E answer \in {"canceled", "none"} : AnswerCancel(r, answer)
       ELSE /\ AnswerCancel(r, IF run.canceledBy = r THEN "duplicate"
                                                     ELSE "refused")
            /\ UNCHANGED <<run, audit>>
  /\ UNCHANGED <<clock, report, evidence, workerVars>>

CancelFails(r) ==
  /\ cancelPc[r] = "loaded"
  /\ CancelEnds(r)
  /\ UNCHANGED <<clock, rowVars, workerVars, cancelReply>>

----------------------------------------------------------------------------

Tick ==
  /\ clock < MaxClock
  /\ clock' = clock + 1
  /\ UNCHANGED <<rowVars, workerVars, cancelVars>>

Init ==
  /\ clock = CreatedAt
  /\ run = [status |-> "PENDING", leaseOwner |-> NoWorker,
            leaseExpiresAt |-> NoTime, heartbeatAt |-> NoTime,
            startedAt |-> NoTime, updatedAt |-> CreatedAt, endedAt |-> NoTime,
            attempts |-> 0, version |-> 1, canceledBy |-> NoRequest]
  /\ report = 0
  /\ evidence = {}
  /\ audit = 0
  /\ pc = [p \in Executor |-> "idle"]
  /\ attempt = [p \in Executor |-> 0]
  /\ reading = [p \in Executor |-> 0]
  /\ heartbeat = [p \in Executor |-> "off"]
  /\ beat = [p \in Executor |-> 0]
  /\ outcome = [p \in Executor |-> "none"]
  /\ reply = [p \in Executor |-> "none"]
  /\ cancelPc = [r \in Request |-> "idle"]
  /\ cancelVersion = [r \in Request |-> 0]
  /\ cancelReading = [r \in Request |-> 0]
  /\ cancelReply = [r \in Request |-> "none"]

Step(p) ==
  \/ Deliver(p) \/ ClaimCommits(p) \/ ClaimRefused(p) \/ TransactionFails(p)
  \/ Reread(p) \/ AgentEnds(p) \/ LeaseLost(p) \/ BeginComplete(p)
  \/ CompleteCommits(p) \/ CompleteRefused(p)
  \/ BeginRenew(p) \/ RenewCommits(p) \/ RenewFails(p) \/ Crash(p)

CancelStep(r) == CancelLoads(r) \/ CancelSaves(r) \/ CancelFails(r)

Next ==
  \/ Tick
  \/ \E p \in Executor : Step(p)
  \/ \E r \in Request : CancelStep(r)

Spec == Init /\ [][Next]_vars

(***************************************************************************)
(* Properties.                                                             *)
(***************************************************************************)

PCs == {"idle", "claim", "reread", "agent", "join", "complete"}
Replies == {"none", "ignored", "retry", "completed"}

\* Type invariant of the row, the side tables, the processes and requests.
TypeOK ==
  /\ clock \in Nat
  /\ run \in Row
  /\ report \in Nat
  /\ evidence \in SUBSET Nat
  /\ audit \in Nat
  /\ pc \in [Executor -> PCs]
  /\ attempt \in [Executor -> Nat]
  /\ reading \in [Executor -> Nat]
  /\ heartbeat \in [Executor -> {"off", "wait", "renew", "lost"}]
  /\ beat \in [Executor -> Nat]
  /\ outcome \in [Executor -> {"none", "SUCCEEDED", "FAILED"}]
  /\ reply \in [Executor -> Replies]
  /\ cancelPc \in [Request -> {"idle", "loaded"}]
  /\ cancelVersion \in [Request -> Nat]
  /\ cancelReading \in [Request -> Nat]
  /\ cancelReply \in [Request -> {"none", "canceled", "duplicate", "refused"}]

\* A message is acknowledged (its offset may be committed) only when the run
\* has ended: neither an ignored duplicate nor a completion can strand an
\* active run without a message.  rca_requested_handler.py:93-125.
AckOnlyWhenEnded ==
  \A p \in Executor : reply[p] \in {"ignored", "completed"}
                        => run.status \in Terminal

\* What a process was told it completed is what the row says for ever, and
\* under its own attempt.  workflow_execution_service.py:156-196.
CompletionIsMine ==
  \A p \in Executor : reply[p] = "completed"
                        => /\ run.status = outcome[p]
                           /\ run.attempts = attempt[p]

\* The report belongs to the one attempt that ended the run successfully, and
\* evidence to the one attempt that ended it: a late attempt that was taken
\* over leaves nothing behind.  workflow_execution_service.py:158-178.
ArtifactsOfFinalAttempt ==
  /\ report = IF run.status = "SUCCEEDED" THEN run.attempts ELSE 0
  /\ evidence = IF run.status \in {"SUCCEEDED", "FAILED"}
                  THEN {run.attempts} ELSE {}

\* No two processes hold the same execution attempt, whatever their
\* worker_id: attempts identify executions.  workflow_run_repository.py:176.
Working(p) == pc[p] \in {"agent", "join", "complete"}
AttemptsAreUnique ==
  \A p, q \in Executor :
    p # q /\ Working(p) /\ Working(q) => attempt[p] # attempt[q]

\* One rca.canceled event exactly when the run is canceled, whatever the
\* race between requests, retries and completions; and a caller told that
\* its request canceled the run was told the truth.
\* rca_cancellation_service.py:84-148.
CancellationAudited ==
  /\ audit = IF run.status = "CANCELED" THEN 1 ELSE 0
  /\ \A r \in Request : cancelReply[r] \in {"canceled", "duplicate"}
                          => run.canceledBy = r

\* The WHERE clauses alone keep the row inside the CHECK constraints: a
\* renewal, completion or cancellation whose conditions hold is never
\* refused by the table (an IntegrityError there would burn the attempt),
\* although its clock reading is stale or skewed.
\* workflow_run_repository.py:214-291, database/models/workflow_run.py:32-91.
ConditionsImplyConstraints ==
  /\ \A p \in Executor :
       /\ heartbeat[p] = "renew" /\ Renewable(p, beat[p])
            => Storable(Renewed(beat[p]))
       /\ pc[p] = "complete" /\ Completable(p, reading[p])
            => Storable(Ended(outcome[p], reading[p]))
  /\ \A r \in Request :
       cancelPc[r] = "loaded" /\ cancelVersion[r] = run.version
         => Storable(Canceled(r, cancelReading[r]))

\* An ended run is never written again: no status, artifact or audit event
\* changes after the end, by any late claim, renewal, completion or cancel.
EndIsFinal == [][run.status \in Terminal => UNCHANGED rowVars]_vars

\* updated_at never moves backwards, although the conditional updates bypass
\* the domain object's check and clocks differ.  workflow_run.py:393-397.
UpdatedAtMonotone == [][run'.updatedAt >= run.updatedAt]_vars

\* Only the execution that owns the current attempt can extend the lease: an
\* execution that was taken over is told so at its next heartbeat.
\* workflow_run_repository.py:193-245.
RenewedByCurrentAttempt ==
  [][\A p \in Executor :
       heartbeat[p] = "renew" /\ heartbeat'[p] = "wait"
         => attempt[p] = run.attempts]_vars

\* Processes, leases, clocks and cancellation requests together implement the
\* outcome others rely on; a renewal, a refusal or a crash is invisible.
Outcome == INSTANCE RunOutcome WITH
  status <- run.status, attempts <- run.attempts,
  published <- report, audited <- audit

ImplementsRunOutcome == Outcome!Spec

(***************************************************************************)
(* Exclusive execution is not a property of Spec: a process stalled past   *)
(* its lease keeps its agent running until its next heartbeat is refused.  *)
(* It holds under the timing the configuration aims at: clocks agree, a    *)
(* due heartbeat is sent at once, and no transaction or lost-lease         *)
(* notification is outstanding while time passes.                          *)
(***************************************************************************)
Due(p) ==
  \/ pc[p] \in {"claim", "reread", "complete"}
  \/ heartbeat[p] \in {"renew", "lost"}
  \/ /\ pc[p] = "agent"
     /\ heartbeat[p] = "wait"
     /\ clock >= beat[p] + HeartbeatInterval
  \/ pc[p] = "join"

PromptNext ==
  \/ Tick /\ \A p \in Executor : ~Due(p)
  \/ \E p \in Executor : Step(p)
  \/ \E r \in Request : CancelStep(r)

PromptSpec == Init /\ [][PromptNext]_vars

\* At most one process runs the agent of an active run at a time.
SoleAgent ==
  \A p, q \in Executor :
    /\ p # q
    /\ pc[p] = "agent" /\ heartbeat[p] # "lost"
    /\ pc[q] = "agent" /\ heartbeat[q] # "lost"
    => run.status \in Terminal
=============================================================================
