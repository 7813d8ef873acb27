---------------------------- MODULE AlertIntake ----------------------------
(* How alerts become incidents: AlertApplicationService.receive_alert under *)
(* concurrent and repeated requests.  One database transaction takes the    *)
(* advisory locks of the alert's service and of the services connected to   *)
(* it, looks for an active incident that the alert belongs to, and opens an *)
(* incident or attaches the alert to one under its version.  Incidents are  *)
(* named by the request that opened them.                                   *)
EXTENDS Naturals, Sequences, FiniteSets

CONSTANTS
  Sender,            \* requests that post an alert, some of them repeats
  NoSender,          \* nobody
  Alert,             \* the alerts they may post
  Event,             \* external event ids
  Environment,
  Service,
  Edge,              \* edges of the topology: pairs of services
  NodeOrder,         \* the nodes as the topology lists them
  MinimumRank,       \* severity below which an alert opens nothing
  Window,            \* correlation_window
  Skew,              \* clock_skew_tolerance
  CandidateLimit,    \* incidents loaded per service: 50
  IncidentId,        \* the id an incident is given, by its order among all ids
  MaxTime,           \* bound: latest time in an alert or an update
  MaxPosts           \* bound: times a sender posts its alert

ASSUME IntakeAssumption ==
  /\ NoSender \notin Sender
  /\ IsFiniteSet(Sender)
  /\ Edge \subseteq Service \X Service
  /\ NodeOrder \in Seq(Service)
  /\ {MinimumRank, Window, Skew, CandidateLimit, MaxTime, MaxPosts} \subseteq Nat
  /\ Skew <= Window
  /\ IncidentId \in [Sender -> Nat]
  /\ \A i, j \in Sender : IncidentId[i] = IncidentId[j] => i = j
  /\ Alert \subseteq [event : Event, service : Service, environment : Environment,
                      rank : Nat, starts_at : 0..MaxTime]

VARIABLES
  alert,       \* what each sender posts
  incident,    \* incidents table: by the sender that opened it
  recorded,    \* alerts table: the alerts saved, with their incident
  lock,        \* advisory locks: the transaction that holds each service's
  job,         \* each sender's request
  leftOut      \* history: the incidents that the query of its decision left out
intakeVars == <<alert, incident, recorded, lock, job, leftOut>>

NoIncident == [status |-> "none"]
Active == {"OPEN", "ANALYZING"}
IncidentRow ==
  [status : {"OPEN", "ANALYZING", "RESOLVED"}, service : Service,
   environment : Environment, rank : Nat, created_at : 0..MaxTime,
   updated_at : 0..MaxTime, count : Nat, affected : SUBSET Service, version : Nat]

Idle == [step |-> "idle", left |-> {}, known |-> FALSE, target |-> NoSender,
         loaded |-> NoIncident, posts |-> 0]

IntakeInit ==
  /\ alert \in [Sender -> Alert]
  /\ incident = [s \in Sender |-> NoIncident]
  /\ recorded = {}
  /\ lock = [v \in Service |-> NoSender]
  /\ job = [s \in Sender |-> Idle]
  /\ leftOut = [s \in Sender |-> {}]
----------------------------------------------------------------------------
\* Services connected to v, the edges taken in both directions.
Connected(v) ==
  LET reach[n \in 0..Cardinality(Service)] ==
        IF n = 0 THEN {v}
        ELSE reach[n - 1] \cup
             {w \in Service : \E u \in reach[n - 1] : <<u, w>> \in Edge \/ <<w, u>> \in Edge}
  IN reach[Cardinality(Service)]

\* The services whose incidents are looked at and that are locked for it: the alert's
\* own and the connected ones, or the own one alone when the topology cannot be had.
Concerned(v, known) ==
  {v} \cup {w \in Connected(v) : known /\ \E n \in 1..Len(NodeOrder) : NodeOrder[n] = w}
\* Locked in this order: the own one first, then as the topology lists them.
Before(v, u, w) ==
  \/ u = v /\ w # v
  \/ /\ v \notin {u, w}
     /\ \E m \in 1..Len(NodeOrder) : /\ NodeOrder[m] = u
                                      /\ \A n \in 1..m : NodeOrder[n] # w

\* What one query for candidates returns: of the active incidents of service v in the
\* time bounds of alert a, the first CandidateLimit by time of update and id.  Neither
\* the environment nor the score is looked at here.
InBounds(a, i) ==
  /\ incident[i].status \in Active
  /\ incident[i].created_at <= a.starts_at + Skew
  /\ a.starts_at <= incident[i].updated_at + Window
Loadable(v, a) == {i \in Sender : InBounds(a, i) /\ incident[i].service = v}
Ahead(i, j) ==
  \/ incident[i].updated_at > incident[j].updated_at
  \/ incident[i].updated_at = incident[j].updated_at /\ IncidentId[i] > IncidentId[j]
Candidates(v, a) ==
  {i \in Loadable(v, a) :
     Cardinality({j \in Loadable(v, a) : Ahead(j, i)}) < CandidateLimit}

\* Which candidates the alert correlates with, and how strongly: the same
\* service before a connected one (equal types and severities add the same
\* small bonus to either, and are left out).
Correlates(a, i, known) ==
  /\ incident[i].environment = a.environment
  /\ incident[i].created_at <= a.starts_at + Window
  /\ a.starts_at <= incident[i].updated_at + Window
  /\ \/ incident[i].service = a.service
     \/ known /\ incident[i].service \in Connected(a.service)
Score(a, i) == IF incident[i].service = a.service THEN 80 ELSE 63
Better(a, i, j) ==
  \/ Score(a, i) > Score(a, j)
  \/ Score(a, i) = Score(a, j) /\ Ahead(i, j)
Matches(a, known) ==
  {i \in UNION {Candidates(v, a) : v \in Concerned(a.service, known)} :
     Correlates(a, i, known)}
BestMatches(a, known) ==
  {i \in Matches(a, known) : \A j \in Matches(a, known) : ~Better(a, j, i)}

\* The row of a new incident, and a row with one more alert attached.
Opened(a) ==
  [status |-> "OPEN", service |-> a.service, environment |-> a.environment,
   rank |-> a.rank, created_at |-> a.starts_at, updated_at |-> a.starts_at,
   count |-> 1, affected |-> {a.service}, version |-> 1]
Larger(m, n) == IF m > n THEN m ELSE n
\* Mutation: the time of the last alert, not of the latest.
AttachedLate(r, a) ==
  [r EXCEPT !.rank = Larger(@, a.rank), !.updated_at = a.starts_at,
            !.count = @ + 1, !.affected = @ \cup {a.service}, !.version = @ + 1]
Attached(r, a) ==
  [r EXCEPT !.rank = Larger(@, a.rank), !.updated_at = Larger(@, a.starts_at),
            !.count = @ + 1, !.affected = @ \cup {a.service}, !.version = @ + 1]
----------------------------------------------------------------------------
Released(s) == [v \in Service |-> IF lock[v] = s THEN NoSender ELSE lock[v]]
Known(s) == \E x \in recorded : x.event = alert[s].event

\* A request ends, its transaction committed or rolled back: the locks go.
EndRequest(s, answer) ==
  /\ job' = [job EXCEPT ![s] = [Idle EXCEPT !.step = answer, !.posts = @ + job[s].posts]]
  /\ lock' = Released(s)

\* A first post, or a repeat by a source that got no answer or an error.
Post(s) ==
  /\ job[s].step \in {"idle", "accepted", "duplicate", "failed"}
  /\ job[s].posts < MaxPosts
  /\ job' = [job EXCEPT ![s].step = "received", ![s].posts = @ + 1]
  /\ UNCHANGED <<alert, incident, recorded, lock, leftOut>>

\* The first look at the alerts table, and the severity threshold.
Receive(s) ==
  /\ job[s].step = "received"
  /\ IF Known(s) THEN EndRequest(s, "duplicate")
     ELSE /\ IF alert[s].rank < MinimumRank
             THEN job' = [job EXCEPT ![s].step = "ignore"]
             ELSE \E known \in BOOLEAN :
                    job' = [job EXCEPT ![s].step = "locking", ![s].known = known,
                              ![s].left = Concerned(alert[s].service, known)]
          /\ UNCHANGED lock
  /\ UNCHANGED <<alert, incident, recorded, leftOut>>

\* pg_advisory_xact_lock of the next service, granted when it is free.
IsNext(s, v) ==
  /\ job[s].step = "locking" /\ v \in job[s].left
  /\ \A u \in job[s].left : ~Before(alert[s].service, u, v)
Acquire(s) ==
  \E v \in Service :
    /\ IsNext(s, v) /\ lock[v] \in {NoSender, s}
    /\ lock' = [lock EXCEPT ![v] = s]
    /\ job' = [job EXCEPT ![s].left = @ \ {v}]
    /\ UNCHANGED <<alert, incident, recorded, leftOut>>

\* Mutation: the wait for an advisory lock has no bound.
NeverTimesOut(s) == FALSE /\ UNCHANGED intakeVars

\* The wait for a lock ends after lock_timeout (ResourceBusyError), or the
\* database breaks a cycle of waits (PersistenceError).
LockTimesOut(s) ==
  /\ \E v \in Service : IsNext(s, v) /\ lock[v] \notin {NoSender, s}
  /\ EndRequest(s, "failed")
  /\ UNCHANGED <<alert, incident, recorded, leftOut>>

\* All locks held: the second look at the alerts table, then the candidates
\* and the decision.
Decide(s) ==
  /\ job[s].step = "locking" /\ job[s].left = {}
  /\ IF Known(s) THEN EndRequest(s, "duplicate") /\ UNCHANGED leftOut
     ELSE LET a == alert[s]
              best == BestMatches(a, job[s].known)
          IN /\ IF best = {} THEN job' = [job EXCEPT ![s].step = "create"]
                ELSE \E i \in best : job' = [job EXCEPT ![s].step = "attach",
                       ![s].target = i, ![s].loaded = incident[i]]
             /\ leftOut' = [leftOut EXCEPT
                              ![s] = Loadable(a.service, a) \ Candidates(a.service, a)]
             /\ UNCHANGED lock
  /\ UNCHANGED <<alert, incident, recorded>>

Saved(s, i) == recorded' = recorded \cup {[event |-> alert[s].event, by |-> s, incident |-> i]}

\* The three ways a request commits.  The unique index on alerts refuses an
\* event that is already there, and the version of the incident row a row
\* that somebody else has written since it was loaded.
CommitIgnored(s) ==
  /\ job[s].step = "ignore" /\ ~Known(s)
  /\ Saved(s, NoSender)
  /\ UNCHANGED incident

CommitOpened(s) ==
  /\ job[s].step = "create" /\ ~Known(s)
  /\ incident' = [incident EXCEPT ![s] = Opened(alert[s])]
  /\ Saved(s, s)

\* Mutation: the incident is saved whatever its version.
AnyRow(s) == TRUE
RowUnchanged(s) == incident[job[s].target].version = job[s].loaded.version

CommitAttached(s) ==
  /\ job[s].step = "attach" /\ ~Known(s)
  /\ RowUnchanged(s)
  /\ incident' = [incident EXCEPT ![job[s].target] = Attached(job[s].loaded, alert[s])]
  /\ Saved(s, job[s].target)

\* The answer of the commit may be lost: the sender hears of an error.
Commit(s) ==
  /\ CommitIgnored(s) \/ CommitOpened(s) \/ CommitAttached(s)
  /\ EndRequest(s, "accepted") \/ EndRequest(s, "failed")
  /\ UNCHANGED <<alert, leftOut>>

\* ConflictError: rolled back, then one look in a new transaction whether a
\* repeat of the same alert was the reason.
Conflict(s) ==
  /\ \/ job[s].step \in {"ignore", "create", "attach"} /\ Known(s)
     \/ job[s].step = "attach" /\ ~RowUnchanged(s)
  /\ job' = [job EXCEPT ![s] = [Idle EXCEPT !.step = "conflict", !.posts = @ + job[s].posts]]
  /\ lock' = Released(s)
  /\ UNCHANGED <<alert, incident, recorded, leftOut>>

Confirm(s) ==
  /\ job[s].step = "conflict"
  /\ EndRequest(s, IF Known(s) THEN "duplicate" ELSE "failed")
  /\ UNCHANGED <<alert, incident, recorded, leftOut>>

\* The process dies or a statement fails: the transaction is rolled back.
Abort(s) ==
  /\ job[s].step \in {"received", "locking", "ignore", "create", "attach", "conflict"}
  /\ EndRequest(s, "failed")
  /\ UNCHANGED <<alert, incident, recorded, leftOut>>

\* What the analysis and the operators do to an incident meanwhile: its
\* status moves on, under the version (IncidentAnalysis has the details).
MoveOn(i) ==
  /\ incident[i].status \in Active
  /\ \E status \in {"ANALYZING", "RESOLVED"} \ {incident[i].status},
        now \in incident[i].updated_at..MaxTime :
       incident' = [incident EXCEPT ![i].status = status, ![i].updated_at = now,
                                    ![i].version = @ + 1]
  /\ UNCHANGED <<alert, recorded, lock, job, leftOut>>

Handle(s) ==
  \/ Receive(s) \/ Acquire(s) \/ LockTimesOut(s) \/ Decide(s)
  \/ Commit(s) \/ Conflict(s) \/ Confirm(s)
IntakeNext == \E s \in Sender : Post(s) \/ Handle(s) \/ Abort(s) \/ MoveOn(s)
IntakeSpec == IntakeInit /\ [][IntakeNext]_intakeVars

\* A handler that is running goes on: its coroutine is scheduled, and a wait
\* for a lock is bounded by lock_timeout.
IntakeFairness == \A s \in Sender : WF_intakeVars(Handle(s))
----------------------------------------------------------------------------
IntakeTypeOK ==
  /\ alert \in [Sender -> Alert]
  /\ incident \in [Sender -> IncidentRow \cup {NoIncident}]
  /\ \A s \in Sender : incident[s] # NoIncident =>
       incident[s].created_at <= incident[s].updated_at
  /\ recorded \subseteq [event : Event, by : Sender,
                         incident : Sender \cup {NoSender}]
  /\ lock \in [Service -> Sender \cup {NoSender}]
  /\ job \in [Sender ->
       [step : {"idle", "received", "locking", "ignore", "create", "attach",
                "conflict", "accepted", "duplicate", "failed"},
        left : SUBSET Service, known : BOOLEAN, target : Sender \cup {NoSender},
        loaded : IncidentRow \cup {NoIncident}, posts : 0..MaxPosts]]
  /\ leftOut \in [Sender -> SUBSET Sender]

\* Alerts of one storm meet in one incident: two active incidents of one
\* service and environment began further apart than the clock tolerance,
\* whatever order their alerts came in and however they raced; unless the query for
\* candidates, when one of them was opened, left the other out.
\* alert_service.py:85-155, incident_lock.py:14-19.
Storm(i, j) ==
  /\ incident[i].status \in Active /\ incident[j].status \in Active
  /\ incident[i].service = incident[j].service
  /\ incident[i].environment = incident[j].environment
  /\ incident[i].created_at <= incident[j].created_at
  /\ incident[j].created_at <= incident[i].created_at + Skew
StormsConverge ==
  \A i, j \in Sender : Storm(i, j) => i = j \/ i \in leftOut[j] \/ j \in leftOut[i]

\* It leaves something out only of a service that has had more incidents than the query
\* returns.  incident_repository.py:188-203.
IncidentsOf(v) == {i \in Sender : incident[i] # NoIncident /\ incident[i].service = v}
OnlyCrowdsAreCut ==
  \A s \in Sender : leftOut[s] # {} => Cardinality(IncidentsOf(alert[s].service)) > CandidateLimit

\* Each event is recorded once, and the aggregate on the incident row is that
\* of the alerts recorded for it: no attach overwrites another one or a
\* status change.  incident_repository.py:268-276, alert_service.py:251-287.
AlertsOf(i) == {x \in recorded : x.incident = i}
AggregatesAlerts ==
  /\ \A x, y \in recorded : x.event = y.event => x = y
  /\ \A i \in Sender : incident[i] # NoIncident =>
       /\ incident[i].count = Cardinality(AlertsOf(i))
       /\ incident[i].affected = {alert[x.by].service : x \in AlertsOf(i)}
       /\ \A x \in AlertsOf(i) : /\ alert[x.by].rank <= incident[i].rank
                                 /\ alert[x.by].starts_at <= incident[i].updated_at
  /\ \A i \in Sender : incident[i] = NoIncident => AlertsOf(i) = {}

\* No attach of an alert takes back what became of the incident meanwhile.
\* incident_repository.py:267-291.
StatusMovesOn ==
  \A i \in Sender :
    /\ incident[i].status = "RESOLVED" => incident'[i] = incident[i]
    /\ incident[i].status = "ANALYZING" => incident'[i].status # "OPEN"

\* All of them at once.
AlertsConverge ==
  [](StormsConverge /\ OnlyCrowdsAreCut /\ AggregatesAlerts) /\ [][StatusMovesOn]_intakeVars

\* Requests that take the locks of two connected services in opposite orders
\* do not wait for each other for ever.  alert_service.py:100-105.
IntakeEnds ==
  \A s \in Sender : job[s].step = "received" ~>
                    job[s].step \in {"accepted", "duplicate", "failed"}
=============================================================================
