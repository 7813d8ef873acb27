-------------------------- MODULE IncidentAnalysis --------------------------
(* One incident from its first RCA to its closure: RCAService.start,         *)
(* IncidentResolutionService.resolve and close as series of reads and one    *)
(* commit at READ COMMITTED, beside the alerts that still attach and the     *)
(* runs that end.  A save that changes no column writes nothing: SQLAlchemy  *)
(* then neither locks the row nor compares its version again.                *)
EXTENDS Naturals, FiniteSets

CONSTANTS
  Caller,        \* requests; a run is named by the request that started it
  Key,           \* idempotency keys
  Body,          \* request contents, as the request hash tells them apart
  MaxVersion,    \* bound: versions the row runs through
  MaxReading        \* bound: clock readings and alert times

ASSUME AnalysisAssumption ==
  /\ "none" \notin Key \cup Body
  /\ MaxVersion \in Nat \ {0} /\ MaxReading \in Nat

VARIABLES
  row,           \* the incident
  runs,          \* workflow_runs of the incident, by the request that started it
  call,          \* what each request asks, and where it is
  audit,         \* incident.resolved and incident.closed events
  told           \* answers: what each request was told it had done
analysisVars == <<row, runs, call, audit, told>>

Kinds == {"start", "resolve", "close"}
Ask == [kind : Kinds, key : Key, body : Body, expected : 1..MaxVersion]
NoKey == [key |-> "none", body |-> "none"]
NoRun == [status |-> "none", key |-> "none", body |-> "none"]
InProgress == {"PENDING", "RUNNING"}
Waiting == [step |-> "idle", version |-> 0, status |-> "OPEN"]

AnalysisInit ==
  /\ row \in [status : {"OPEN"}, updated_at : 0..MaxReading, version : {1},
              resolution : {NoKey}, closure : {NoKey}]
  /\ runs = [c \in Caller |-> NoRun]
  /\ call \in [Caller -> {[ask |-> a, at |-> Waiting] : a \in Ask}]
  /\ audit = [k \in {"resolve", "close"} |-> {}]
  /\ told = [c \in Caller |-> {}]
----------------------------------------------------------------------------
At(c, kinds, step) == call[c].ask.kind \in kinds /\ call[c].at.step = step
Goto(c, step) == call' = [call EXCEPT ![c].at.step = step]
Answer(c, what) ==
  /\ told' = [told EXCEPT ![c] = @ \cup {what}]
  /\ call' = [call EXCEPT ![c].at = Waiting]
Refuse(c) == call' = [call EXCEPT ![c].at = Waiting] /\ UNCHANGED told

\* The commit succeeded, and its answer may be lost on the way.
Committed(c, what) == Answer(c, what) \/ Refuse(c)

\* A request arrives, or arrives again.
Call(c) ==
  /\ call[c].at = Waiting
  /\ Goto(c, IF call[c].ask.kind = "start" THEN "key" ELSE "load")
  /\ UNCHANGED <<row, runs, audit, told>>

ActiveRuns == {r \in Caller : runs[r].status \in InProgress}
RunsUnder(key) == {r \in Caller : runs[r].key = key}

\* The answer to a key that is known: the run, or a refusal of another request.
Replay(c, r) ==
  IF runs[r].body = call[c].ask.body THEN Answer(c, r) ELSE Refuse(c)

StartLooksUpKey(c) ==
  /\ At(c, {"start"}, "key")
  /\ IF RunsUnder(call[c].ask.key) = {} THEN Goto(c, "load") /\ UNCHANGED told
     ELSE \E r \in RunsUnder(call[c].ask.key) : Replay(c, r)
  /\ UNCHANGED <<row, runs, audit>>

Loaded(c) == call' = [call EXCEPT ![c].at =
  [step |-> "active", version |-> row.version, status |-> row.status]]

StartLoads(c) ==
  /\ At(c, {"start"}, "load")
  /\ Loaded(c)
  /\ UNCHANGED <<row, runs, audit, told>>

\* The incident must have no active run; its own status is looked at later.
ChecksActive(c) ==
  /\ call[c].at.step = "active"
  /\ Goto(c, IF ActiveRuns = {} THEN "save" ELSE "conflict")
  /\ UNCHANGED <<row, runs, audit, told>>

\* mark_analyzing at clock reading now: from OPEN it changes the row, in
\* ANALYZING it changes nothing, and later it is refused.
Fresh(c) == row.version = call[c].at.version

NewRun(c) == [status |-> "PENDING", key |-> call[c].ask.key, body |-> call[c].ask.body]

\* Mutation: the table has no unique index over the keys.
NoneActive(c) == ActiveRuns = {}
\* workflow_runs: one run per key, one active run per incident.
UniqueKey(c) == RunsUnder(call[c].ask.key) = {}
Insertable(c) == UniqueKey(c) /\ ActiveRuns = {}

StartCommits(c) ==
  /\ At(c, {"start"}, "save")
  /\ call[c].at.status = "OPEN" /\ Fresh(c) /\ Insertable(c)
  /\ row.version < MaxVersion
  /\ \E now \in row.updated_at..MaxReading :
       row' = [row EXCEPT !.status = "ANALYZING", !.updated_at = now, !.version = @ + 1]
  /\ runs' = [runs EXCEPT ![c] = NewRun(c)]
  /\ Committed(c, c)
  /\ UNCHANGED audit

\* The row is loaded once more and its version compared; nothing is written,
\* so nothing is locked and nothing compared when the transaction commits.
StartSavesUnchanged(c) ==
  /\ At(c, {"start"}, "save")
  /\ call[c].at.status = "ANALYZING" /\ Fresh(c)
  /\ Goto(c, "insert")
  /\ UNCHANGED <<row, runs, audit, told>>

StartInserts(c) ==
  /\ At(c, {"start"}, "insert")
  /\ Insertable(c)
  /\ runs' = [runs EXCEPT ![c] = NewRun(c)]
  /\ Committed(c, c)
  /\ UNCHANGED <<row, audit>>

\* ConflictError: a status that cannot be analyzed, a row that moved on, or a
\* unique index that refused the run.
StartConflicts(c) ==
  /\ \/ At(c, {"start"}, "save") /\ (call[c].at.status \notin {"OPEN", "ANALYZING"} \/ ~Fresh(c))
     \/ At(c, {"start"}, "save") /\ call[c].at.status = "OPEN" /\ ~Insertable(c)
     \/ At(c, {"start"}, "insert") /\ ~Insertable(c)
  /\ Goto(c, "conflict")
  /\ UNCHANGED <<row, runs, audit, told>>

\* After a conflict the key is looked up once more in a new transaction.
StartRecovers(c) ==
  /\ At(c, {"start"}, "conflict")
  /\ IF RunsUnder(call[c].ask.key) = {} THEN Refuse(c)
     ELSE \E r \in RunsUnder(call[c].ask.key) : Replay(c, r)
  /\ UNCHANGED <<row, runs, audit>>
----------------------------------------------------------------------------
(* resolve and close.                                                       *)
Slot(c) == IF call[c].ask.kind = "resolve" THEN row.resolution ELSE row.closure
Mark(c) == [key |-> call[c].ask.key, body |-> call[c].ask.body]

\* A key already on the row: the same request is answered, another refused.
Duplicate(c) == Slot(c).key = call[c].ask.key
ReplayDecision(c) == IF Slot(c) = Mark(c) THEN Answer(c, call[c].ask.kind) ELSE Refuse(c)

DecisionLoads(c) ==
  /\ At(c, {"resolve", "close"}, "load")
  /\ IF Duplicate(c) THEN ReplayDecision(c)
     ELSE IF row.version # call[c].ask.expected THEN Goto(c, "conflict") /\ UNCHANGED told
     ELSE Loaded(c) /\ UNCHANGED told
  /\ UNCHANGED <<row, runs, audit>>

\* mark_resolved and mark_closed, and the save under the version.
Decidable(c) ==
  IF call[c].ask.kind = "resolve" THEN call[c].at.status \in {"OPEN", "ANALYZING"}
                                  ELSE call[c].at.status = "RESOLVED"
Decided(c, now) ==
  IF call[c].ask.kind = "resolve"
  THEN [row EXCEPT !.status = "RESOLVED", !.updated_at = now, !.version = @ + 1,
                   !.resolution = Mark(c)]
  ELSE [row EXCEPT !.status = "CLOSED", !.updated_at = now, !.version = @ + 1,
                   !.closure = Mark(c)]

MaySave(c) == Decidable(c) /\ Fresh(c)

DecisionCommits(c) ==
  /\ At(c, {"resolve", "close"}, "save")
  /\ MaySave(c)
  /\ row.version < MaxVersion
  /\ \E now \in row.updated_at..MaxReading : row' = Decided(c, now)
  /\ audit' = [audit EXCEPT ![call[c].ask.kind] = @ \cup {c}]
  /\ Committed(c, call[c].ask.kind)
  /\ UNCHANGED runs

DecisionConflicts(c) ==
  /\ At(c, {"resolve", "close"}, "save")
  /\ ~MaySave(c)
  /\ Goto(c, "conflict")
  /\ UNCHANGED <<row, runs, audit, told>>

DecisionRecovers(c) ==
  /\ At(c, {"resolve", "close"}, "conflict")
  /\ IF Duplicate(c) THEN ReplayDecision(c) ELSE Refuse(c)
  /\ UNCHANGED <<row, runs, audit>>
----------------------------------------------------------------------------
\* The clock of the host reads earlier than updated_at, which an alert from a
\* source ahead of it may have set (AppValidationError); a process dies, or a
\* statement fails.  Either way the transaction leaves nothing.
Fails(c) ==
  /\ call[c].at # Waiting
  /\ Refuse(c)
  /\ UNCHANGED <<row, runs, audit>>

\* An alert attaches (AlertIntake) to an incident that is still active.
Attach ==
  /\ row.status \in {"OPEN", "ANALYZING"} /\ row.version < MaxVersion
  /\ \E now \in row.updated_at..MaxReading :
       row' = [row EXCEPT !.updated_at = now, !.version = @ + 1]
  /\ UNCHANGED <<runs, call, audit, told>>

\* A run is executed and ends, or is canceled (WorkflowLease).
RunMoves(r) ==
  /\ \/ runs[r].status = "PENDING" /\ runs' = [runs EXCEPT ![r].status = "RUNNING"]
     \/ /\ runs[r].status \in InProgress
        /\ \E s \in {"SUCCEEDED", "FAILED", "CANCELED"} :
             runs' = [runs EXCEPT ![r].status = s]
  /\ UNCHANGED <<row, call, audit, told>>

Handler(c) ==
  \/ StartLooksUpKey(c) \/ StartLoads(c) \/ ChecksActive(c) \/ StartCommits(c)
  \/ StartSavesUnchanged(c) \/ StartInserts(c) \/ StartConflicts(c) \/ StartRecovers(c)
  \/ DecisionLoads(c) \/ DecisionCommits(c) \/ DecisionConflicts(c) \/ DecisionRecovers(c)
AnalysisNext == Attach \/ \E c \in Caller : Call(c) \/ Handler(c) \/ Fails(c) \/ RunMoves(c)
AnalysisSpec == AnalysisInit /\ [][AnalysisNext]_analysisVars
----------------------------------------------------------------------------
AnalysisTypeOK ==
  /\ row \in [status : {"OPEN", "ANALYZING", "RESOLVED", "CLOSED"}, updated_at : 0..MaxReading,
              version : 1..MaxVersion, resolution : [key : Key \cup {"none"}, body : Body \cup {"none"}],
              closure : [key : Key \cup {"none"}, body : Body \cup {"none"}]]
  /\ runs \in [Caller -> [status : InProgress \cup {"none", "SUCCEEDED", "FAILED", "CANCELED"},
                          key : Key \cup {"none"}, body : Body \cup {"none"}]]
  /\ call \in [Caller -> [ask : Ask, at : [step : {"idle", "key", "load", "active", "save",
                 "insert", "conflict"}, version : 0..MaxVersion,
                 status : {"OPEN", "ANALYZING", "RESOLVED", "CLOSED"}]]]
  /\ audit \in [{"resolve", "close"} -> SUBSET Caller]
  /\ told \in [Caller -> SUBSET (Caller \cup {"resolve", "close"})]

\* Whoever asks for an RCA under one key is told of one run, the only one that
\* key ever starts, and it is a run for what was asked: through races, lost
\* answers and repeats.  rca_service.py:53-68, 139-180.
StartsOnce ==
  /\ \A c, d \in Caller : runs[c] # NoRun /\ runs[c].key = runs[d].key => c = d
  /\ \A c \in Caller : call[c].ask.kind = "start" =>
       \A r \in told[c] : runs[r].key = call[c].ask.key /\ runs[r].body = call[c].ask.body
  /\ Cardinality(ActiveRuns) <= 1

\* A transition to RESOLVED or CLOSED is made and audited once, and only the
\* request whose key is on the row is told it was its own.
\* incident_resolution_service.py:129-177, 339-357.
DecisionsAudited ==
  \A k \in {"resolve", "close"} :
    LET slot == IF k = "resolve" THEN row.resolution ELSE row.closure IN
    /\ Cardinality(audit[k]) = (IF slot = NoKey THEN 0 ELSE 1)
    /\ \A c \in Caller : call[c].ask.kind = k /\ told[c] # {} => slot = Mark(c)

\* Both at once: every key is honoured once.
OncePerKey == StartsOnce /\ DecisionsAudited

\* No RCA waits or runs for an incident that was resolved or closed.
\* incident_resolution_service.py:271-283.
TerminalIsQuiet == row.status \in {"RESOLVED", "CLOSED"} => ActiveRuns = {}
=============================================================================
