--------------------------- MODULE AuditRetention ---------------------------
(* The audit trail of finished runs and its removal: purge batches of        *)
(* concurrent workers (AuditRetentionService, SQLAlchemyAuditRetentionStore) *)
(* beside readers that look at a run and at its trail in several statements  *)
(* at READ COMMITTED: the result query, the evaluation export, and the       *)
(* requests that need available evidence before they write.                  *)
EXTENDS Integers, FiniteSets

CONSTANTS
  AuditedRun,     \* workflow runs
  Purger,         \* retention workers, one per replica
  Reader,         \* requests that read a trail
  RetentionPeriod,
  PurgeBatch,     \* batch_size
  MaxDay          \* bound on the clock

ASSUME RetentionAssumption ==
  /\ RetentionPeriod \in Nat \ {0} /\ PurgeBatch \in Nat \ {0} /\ MaxDay \in Nat
  /\ IsFiniteSet(AuditedRun)

VARIABLES
  day,            \* the clock
  audited,        \* workflow_runs: status, end and purge of each run
  trail,          \* the child tables: which of its records each run has
  batch,          \* rows each purger holds FOR UPDATE in its transaction
  reading         \* the readers
retentionVars == <<day, audited, trail, batch, reading>>

Ended == {"SUCCEEDED", "FAILED", "CANCELED"}
Unended == -1
NoTrail == [report |-> FALSE, evidence |-> FALSE, invocations |-> FALSE]
WholeTrail == [report |-> TRUE, evidence |-> TRUE, invocations |-> TRUE]
RunState == [status : Ended \cup {"RUNNING"}, ended_at : -1..MaxDay, purged : BOOLEAN]
Purpose == {"result", "export", "use"}
Idling == [step |-> "idle", first |-> "RUNNING", seen |-> NoTrail,
           status |-> "RUNNING", purged |-> FALSE]

RetentionInit ==
  /\ day = 0
  /\ audited = [r \in AuditedRun |-> [status |-> "RUNNING", ended_at |-> Unended, purged |-> FALSE]]
  /\ trail = [r \in AuditedRun |-> NoTrail]
  /\ batch = [p \in Purger |-> {}]
  /\ reading \in [Reader -> {[purpose |-> u, run |-> r, at |-> Idling] :
                                u \in Purpose, r \in AuditedRun}]
----------------------------------------------------------------------------
Midnight ==
  /\ day < MaxDay /\ day' = day + 1
  /\ UNCHANGED <<audited, trail, batch, reading>>

\* The completion writes the end of the run and its trail in one transaction
\* (WorkflowLease); a canceled run has none.
Finish(r) ==
  /\ audited[r].status = "RUNNING"
  /\ \E s \in Ended :
       /\ audited' = [audited EXCEPT ![r] = [@ EXCEPT !.status = s, !.ended_at = day]]
       /\ trail' = [trail EXCEPT ![r] =
            CASE s = "SUCCEEDED" -> WholeTrail
              [] s = "FAILED" -> [WholeTrail EXCEPT !.report = FALSE]
              [] s = "CANCELED" -> NoTrail]
  /\ UNCHANGED <<day, batch, reading>>

\* Candidates of one batch: ended before the cutoff, not purged, not locked by
\* another purger (SKIP LOCKED), the oldest of them first.
Cutoff == day - RetentionPeriod
Purgeable(r) ==
  audited[r].status \in Ended /\ audited[r].ended_at < Cutoff /\ ~audited[r].purged
Free == {r \in AuditedRun : Purgeable(r) /\ \A p \in Purger : r \notin batch[p]}
Oldest(b) ==
  /\ b \subseteq Free
  /\ Cardinality(b) = (IF Cardinality(Free) < PurgeBatch THEN Cardinality(Free) ELSE PurgeBatch)
  /\ \A r \in b, s \in Free \ b : audited[r].ended_at <= audited[s].ended_at

SelectForUpdate(p) ==
  /\ batch[p] = {} /\ Free # {}
  /\ \E b \in SUBSET Free : Oldest(b) /\ batch' = [batch EXCEPT ![p] = b]
  /\ UNCHANGED <<day, audited, trail, reading>>

\* Two deletes and the mark on the runs, one commit.
Stripped(t) == [t EXCEPT !.evidence = FALSE, !.invocations = FALSE]
PurgeCommits(p) ==
  /\ batch[p] # {}
  /\ trail' = [r \in AuditedRun |-> IF r \in batch[p] THEN Stripped(trail[r]) ELSE trail[r]]
  /\ audited' = [r \in AuditedRun |->
                   IF r \in batch[p] THEN [audited[r] EXCEPT !.purged = TRUE] ELSE audited[r]]
  /\ batch' = [batch EXCEPT ![p] = {}]
  /\ UNCHANGED <<day, reading>>

\* The database refuses, or the process dies: the locks go with the transaction.
PurgeFails(p) ==
  /\ batch[p] # {}
  /\ batch' = [batch EXCEPT ![p] = {}]
  /\ UNCHANGED <<day, audited, trail, reading>>
----------------------------------------------------------------------------
Reads(x, purposes, step) == reading[x].purpose \in purposes /\ reading[x].at.step = step
Run(x) == reading[x].run
Move(x, at) ==
  /\ reading' = [reading EXCEPT ![x].at = at]
  /\ UNCHANGED <<day, audited, trail, batch>>

\* The first look at the run.  Exports and uses need a run that succeeded and
\* was not purged; a result is shown of any run.
LookAtRun(x) ==
  /\ reading[x].at.step = "idle"
  /\ Move(x, [Idling EXCEPT !.first = audited[Run(x)].status, !.purged = audited[Run(x)].purged,
       !.status = audited[Run(x)].status,
       !.step = IF \/ reading[x].purpose = "result"
                   \/ audited[Run(x)].status = "SUCCEEDED" /\ ~audited[Run(x)].purged
                THEN "report" ELSE "refused"])

LookAtReport(x) ==
  /\ reading[x].at.step = "report"
  /\ Move(x, [reading[x].at EXCEPT !.seen.report = trail[Run(x)].report,
       !.step = CASE reading[x].purpose = "use" -> IF trail[Run(x)].report THEN "write" ELSE "refused"
                  [] reading[x].purpose = "export" -> IF trail[Run(x)].report THEN "evidence" ELSE "refused"
                  [] reading[x].purpose = "result" -> IF reading[x].at.purged THEN "answered" ELSE "evidence"])

LookAtEvidence(x) ==
  /\ reading[x].at.step = "evidence"
  /\ Move(x, [reading[x].at EXCEPT !.seen.evidence = trail[Run(x)].evidence,
       !.step = IF reading[x].purpose = "export" THEN "compare" ELSE "invocations"])

\* An export asks for every item the report refers to.
CompareEvidence(x) ==
  /\ Reads(x, {"export"}, "compare")
  /\ Move(x, [reading[x].at EXCEPT
       !.step = IF reading[x].at.seen.evidence THEN "answered" ELSE "refused"])

LookAtInvocations(x) ==
  /\ Reads(x, {"result"}, "invocations")
  /\ Move(x, [reading[x].at EXCEPT !.seen.invocations = trail[Run(x)].invocations,
                                   !.step = "refresh"])

\* A result looks at the run once more, and shows no trail if it was purged.
\* Mutation: the run as first read is shown.
KeepFirst(x) == [reading[x].at EXCEPT !.step = "answered"]
Refreshed(x) ==
  [reading[x].at EXCEPT !.step = "answered", !.status = audited[Run(x)].status,
     !.purged = audited[Run(x)].purged,
     !.seen = IF audited[Run(x)].purged THEN [NoTrail EXCEPT !.report = reading[x].at.seen.report]
              ELSE @]
RefreshRun(x) ==
  /\ Reads(x, {"result"}, "refresh")
  /\ Move(x, Refreshed(x))

\* Feedback, a ticket draft or a claim of a remediation plan is written: the
\* run is not looked at again.
WriteUse(x) ==
  /\ Reads(x, {"use"}, "write")
  /\ Move(x, [reading[x].at EXCEPT !.step = "answered"])

Purge(p) == SelectForUpdate(p) \/ PurgeCommits(p)
Look(x) ==
  \/ LookAtRun(x) \/ LookAtReport(x) \/ LookAtEvidence(x) \/ CompareEvidence(x)
  \/ LookAtInvocations(x) \/ RefreshRun(x) \/ WriteUse(x)
RetentionNext ==
  \/ Midnight
  \/ \E r \in AuditedRun : Finish(r)
  \/ \E p \in Purger : Purge(p) \/ PurgeFails(p)
  \/ \E x \in Reader : Look(x)
RetentionSpec == RetentionInit /\ [][RetentionNext]_retentionVars

\* A worker runs a cycle, then another (AuditRetentionWorkerRunner.run), and
\* its transaction does not fail every time.
RetentionFairness ==
  /\ WF_retentionVars(Midnight)
  /\ \A p \in Purger : /\ WF_retentionVars(SelectForUpdate(p))
                       /\ SF_retentionVars(PurgeCommits(p))
----------------------------------------------------------------------------
RetentionTypeOK ==
  /\ day \in 0..MaxDay
  /\ audited \in [AuditedRun -> RunState]
  /\ trail \in [AuditedRun -> [report : BOOLEAN, evidence : BOOLEAN, invocations : BOOLEAN]]
  /\ batch \in [Purger -> SUBSET AuditedRun]
  /\ reading \in [Reader -> [purpose : Purpose, run : AuditedRun,
       at : [step : {"idle", "report", "evidence", "compare", "invocations", "refresh",
                     "write", "answered", "refused"},
             first : Ended \cup {"RUNNING"}, status : Ended \cup {"RUNNING"},
             purged : BOOLEAN, seen : [report : BOOLEAN, evidence : BOOLEAN, invocations : BOOLEAN]]]]

\* A trail is whole until the run is marked as purged, which happens after the
\* retention period and to one purger's batch only; then evidence and
\* invocations are gone together.  audit_retention_store.py:45-88, 95-114.
TrailsWholeUntilPurged ==
  /\ \A r \in AuditedRun :
       /\ audited[r].purged => /\ audited[r].ended_at + RetentionPeriod < day
                               /\ ~trail[r].evidence /\ ~trail[r].invocations
       /\ ~audited[r].purged /\ audited[r].status = "SUCCEEDED" => trail[r] = WholeTrail
  /\ \A p, q \in Purger : p # q => batch[p] \cap batch[q] = {}

\* What a reader of a finished run is shown is whole, or is marked as purged
\* and shows no evidence, although the purge commits between its statements;
\* what is exported has its evidence.
\* rca_query_service.py:391-449, rca_feedback_service.py:193-245.
ReadersSeeWholeTrails ==
  \A x \in Reader : reading[x].at.step = "answered" =>
    /\ reading[x].purpose = "export" => reading[x].at.seen.evidence
    /\ reading[x].purpose = "result" /\ reading[x].at.first = "SUCCEEDED" =>
         reading[x].at.seen = IF reading[x].at.purged THEN [NoTrail EXCEPT !.report = TRUE]
                                                      ELSE WholeTrail

\* Both at once.
TrailsAreWhole == TrailsWholeUntilPurged /\ ReadersSeeWholeTrails

\* The same of a run that ends while it is being read: a result is a snapshot.
ResultsAreSnapshots ==
  \A x \in Reader : Reads(x, {"result"}, "answered")
                    /\ reading[x].at.status = "SUCCEEDED" /\ ~reading[x].at.purged =>
    reading[x].at.seen = WholeTrail

\* Nothing old keeps its trail for ever: batches, failures and concurrent
\* workers leave nothing behind.  audit_retention_worker.py:123-151.
OldTrailsGo ==
  \A r \in AuditedRun :
    audited[r].status \in Ended /\ audited[r].ended_at + RetentionPeriod < MaxDay ~> audited[r].purged
=============================================================================
