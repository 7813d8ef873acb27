--------------------------- MODULE IncidentProofs ---------------------------
(* Proofs about what an incident passes through: alerts that meet in it      *)
(* (AlertIntake), requests for an analysis, a resolution or a closure        *)
(* (IncidentAnalysis), the audit trail of its runs (AuditRetention) and its     *)
(* tickets (TicketSubmission), each for any number of concurrent requests;   *)
(* and what an agent does in an analysis: it calls tools (ToolCalls), ranks   *)
(* causes (RootCauses), keeps to a plan or a budget (Investigation) and has a *)
(* report made (ReportGeneration), whatever tools and models answer.         *)
EXTENDS AlertIntake, IncidentAnalysis, AuditRetention, TicketSubmission, ToolCalls,
        RootCauses, Investigation, ReportGeneration, TLAPS, FiniteSetTheorems, WellFoundedInduction

----------------------------------------------------------------------------
(* Alerts: for any number of senders, services and edges, and any topology,  *)
(* the alerts of a storm meet in one incident unless the limit of the query  *)
(* for candidates cut one off, which takes more incidents of the service     *)
(* than the limit; an incident's row tells of the alerts recorded for it,    *)
(* and no attach takes back what became of the incident meanwhile.           *)

AlertSet == [event : Event, service : Service, environment : Environment,
             rank : Nat, starts_at : 0..MaxTime]
WorkSet ==
  [step : {"idle", "received", "locking", "ignore", "create", "attach",
           "conflict", "accepted", "duplicate", "failed"},
   left : SUBSET Service, known : BOOLEAN, target : Sender \cup {NoSender},
   loaded : IncidentRow \cup {NoIncident}, posts : 0..MaxPosts]

\* The lock of an alert's own service is the first to be taken and is held until the
\* request ends: who is about to open an incident of a service holds its lock.
OwnLock(s) ==
  /\ job[s].step = "locking" => \/ alert[s].service \in job[s].left
                                \/ lock[alert[s].service] = s
  /\ job[s].step = "create" => lock[alert[s].service] = s

\* An incident that is active and began so near to the alert that it is of the same storm.
Near(i, a) ==
  /\ incident[i].status \in Active
  /\ incident[i].service = a.service /\ incident[i].environment = a.environment
  /\ incident[i].created_at <= a.starts_at + Skew
  /\ a.starts_at <= incident[i].created_at + Skew
\* Who is about to open an incident saw all of those that are, but for what the query
\* had left out.
NoneNear(s) == job[s].step = "create" => \A i \in Sender : Near(i, alert[s]) => i \in leftOut[s]

\* What was loaded to attach to was active, and is the row while its version is.
LoadedSound(s) ==
  job[s].step = "attach" =>
    /\ job[s].target \in Sender /\ job[s].loaded \in IncidentRow
    /\ job[s].loaded.status \in Active
    /\ incident[job[s].target] # NoIncident
    /\ job[s].loaded.version <= incident[job[s].target].version
    /\ job[s].loaded.version = incident[job[s].target].version =>
         incident[job[s].target] = job[s].loaded

\* An incident was opened by the recorded alert of its sender.
OpenerRecorded ==
  \A i \in Sender : incident[i] # NoIncident => \E x \in recorded : x.event = alert[i].event

IntakeInv ==
  /\ IntakeTypeOK
  /\ IsFiniteSet(recorded)
  /\ \A s \in Sender : OwnLock(s) /\ NoneNear(s) /\ LoadedSound(s)
  /\ OpenerRecorded
  /\ StormsConverge
  /\ OnlyCrowdsAreCut
  /\ AggregatesAlerts
----------------------------------------------------------------------------
LEMMA IntakeParts ==
  ASSUME IntakeTypeOK
  PROVE  /\ alert \in [Sender -> Alert] /\ incident \in [Sender -> IncidentRow \cup {NoIncident}]
         /\ job \in [Sender -> WorkSet] /\ lock \in [Service -> Sender \cup {NoSender}]
         /\ recorded \subseteq [event : Event, by : Sender, incident : Sender \cup {NoSender}]
         /\ leftOut \in [Sender -> SUBSET Sender]
         /\ \A s \in Sender : alert[s] \in AlertSet /\ job[s] \in WorkSet
<1>1. /\ alert \in [Sender -> Alert] /\ incident \in [Sender -> IncidentRow \cup {NoIncident}]
      /\ job \in [Sender -> WorkSet] /\ lock \in [Service -> Sender \cup {NoSender}]
      /\ recorded \subseteq [event : Event, by : Sender, incident : Sender \cup {NoSender}]
      /\ leftOut \in [Sender -> SUBSET Sender]
  BY DEF IntakeTypeOK, WorkSet
<1>2. Alert \subseteq AlertSet
  BY IntakeAssumption DEF IntakeAssumption, AlertSet
<1> QED BY <1>1, <1>2

\* A row of the table is a row or none; only a row has a status of an incident.
LEMMA Rows ==
  ASSUME IntakeTypeOK, NEW i \in Sender
  PROVE  /\ incident[i] # NoIncident =>
              /\ incident[i] \in IncidentRow
              /\ incident[i].status \in {"OPEN", "ANALYZING", "RESOLVED"}
              /\ incident[i].service \in Service /\ incident[i].environment \in Environment
              /\ incident[i].created_at \in 0..MaxTime /\ incident[i].updated_at \in 0..MaxTime
              /\ incident[i].created_at <= incident[i].updated_at
              /\ incident[i].rank \in Nat /\ incident[i].count \in Nat
              /\ incident[i].version \in Nat /\ incident[i].affected \in SUBSET Service
         /\ incident[i] = NoIncident => incident[i].status = "none"
<1>1. incident[i] \in IncidentRow \cup {NoIncident}
  BY DEF IntakeTypeOK
<1>2. incident[i] # NoIncident => incident[i].created_at <= incident[i].updated_at
  BY DEF IntakeTypeOK
<1>3. ASSUME incident[i] # NoIncident
      PROVE  /\ incident[i] \in IncidentRow
             /\ incident[i].status \in {"OPEN", "ANALYZING", "RESOLVED"}
             /\ incident[i].service \in Service /\ incident[i].environment \in Environment
             /\ incident[i].created_at \in 0..MaxTime /\ incident[i].updated_at \in 0..MaxTime
             /\ incident[i].rank \in Nat /\ incident[i].count \in Nat
             /\ incident[i].version \in Nat /\ incident[i].affected \in SUBSET Service
  <2>1. incident[i] \in IncidentRow
    BY <1>1, <1>3
  <2> QED BY <2>1 DEF IncidentRow
<1>4. incident[i] = NoIncident => incident[i].status = "none"
  BY DEF NoIncident
<1> QED BY <1>2, <1>3, <1>4

LEMMA NoRowIsNone == \A r \in IncidentRow : r # NoIncident /\ r.status # "none"
  BY DEF IncidentRow, NoIncident

LEMMA IntakeNumbers ==
  /\ IsFiniteSet(Sender) /\ IncidentId \in [Sender -> Nat]
  /\ {MinimumRank, Window, Skew, CandidateLimit, MaxTime, MaxPosts} \subseteq Nat
  /\ Skew <= Window /\ NoSender \notin Sender
  BY IntakeAssumption DEF IntakeAssumption

\* What the query leaves out is of a service with more incidents than the limit.
LEMMA CutFromACrowd ==
  ASSUME IntakeTypeOK, NEW v, NEW a, NEW i \in Loadable(v, a) \ Candidates(v, a)
  PROVE  Cardinality(IncidentsOf(v)) > CandidateLimit
<1> DEFINE ahead == {j \in Loadable(v, a) : Ahead(j, i)}
<1>1. \A j \in Loadable(v, a) : j \in IncidentsOf(v) /\ j \in Sender
  BY DEF Loadable, InBounds, Active, NoIncident, IncidentsOf
<1>2. i \notin ahead
  <2>1. i \in Sender /\ incident[i] # NoIncident
    BY <1>1 DEF IncidentsOf
  <2>2. incident[i].updated_at \in Nat /\ IncidentId[i] \in Nat
    BY <2>1, Rows, IntakeNumbers
  <2> QED BY <2>2 DEF Ahead
<1>3. ahead \cup {i} \subseteq IncidentsOf(v)
  BY <1>1
<1>4. ~(Cardinality(ahead) < CandidateLimit)
  BY DEF Candidates
<1> HIDE DEF ahead
<1>5. IsFiniteSet(IncidentsOf(v))
  BY IntakeNumbers, FS_Subset DEF IncidentsOf
<1>6. IsFiniteSet(ahead) /\ IsFiniteSet(ahead \cup {i})
  BY <1>3, <1>5, FS_Subset
<1>7. /\ Cardinality(ahead \cup {i}) = Cardinality(ahead) + 1
      /\ Cardinality(ahead \cup {i}) <= Cardinality(IncidentsOf(v))
  BY <1>2, <1>3, <1>5, <1>6, FS_AddElement, FS_Subset
<1>8. Cardinality(ahead) \in Nat /\ Cardinality(IncidentsOf(v)) \in Nat /\ CandidateLimit \in Nat
  BY <1>5, <1>6, FS_CardinalityType, IntakeNumbers
<1> QED BY <1>4, <1>7, <1>8

\* Of incidents there is always one that none is ahead of.
LEMMA SomeLatest ==
  ASSUME IntakeTypeOK, NEW S \in SUBSET Sender, S # {},
         \A i \in S : incident[i] # NoIncident
  PROVE  \E i \in S : \A j \in S : ~Ahead(j, i)
<1> DEFINE Later(i) == {j \in S : Ahead(j, i)}
           T == {Later(i) : i \in S}
<1>1. \A i \in S : incident[i].updated_at \in Nat /\ IncidentId[i] \in Nat
  BY Rows, IntakeNumbers
<1>2. IsFiniteSet(S)
  BY IntakeNumbers, FS_Subset
<1>3. T \subseteq FiniteSubsetsOf(S) /\ T # {}
  <2>1. ASSUME NEW i \in S PROVE Later(i) \in FiniteSubsetsOf(S)
    BY <1>2, FS_Subset DEF FiniteSubsetsOf
  <2> QED BY <2>1
<1>4. \A i \in S : \A j \in Later(i) : Later(j) \subseteq Later(i) /\ j \notin Later(j)
  BY <1>1 DEF Ahead
<1> HIDE DEF Later
<1>5. IsWellFoundedOn(StrictSubsetOrdering(S), FiniteSubsetsOf(S))
  BY FS_StrictSubsetOrderingWellFounded
<1>6. PICK t \in T : \A u \in T : ~(<<u, t>> \in StrictSubsetOrdering(S))
  BY <1>3, <1>5, WFMin
<1>7. PICK i \in S : t = Later(i)
  BY <1>6
<1>8. ASSUME NEW j \in Later(i) PROVE FALSE
  <2>1. j \in S
    BY DEF Later
  <2>2. Later(j) \in SUBSET S /\ t \in SUBSET S
    BY <1>7 DEF Later
  <2>3. Later(j) \subseteq t /\ Later(j) # t
    BY <1>4, <1>7
  <2> QED BY <1>6, <2>1, <2>2, <2>3 DEF StrictSubsetOrdering
<1> QED BY <1>8 DEF Later

\* So where an incident matches, a best one does.
LEMMA BestIfAny ==
  ASSUME IntakeTypeOK, NEW a, NEW known, Matches(a, known) # {}
  PROVE  BestMatches(a, known) # {}
<1> DEFINE own == {i \in Matches(a, known) : incident[i].service = a.service}
           S == IF own # {} THEN own ELSE Matches(a, known)
<1>1. \A i \in Matches(a, known) : i \in Sender /\ incident[i].status \in Active
  BY DEF Matches, Candidates, Loadable, InBounds
<1>2. S \in SUBSET Sender /\ S # {} /\ S \subseteq Matches(a, known)
  BY <1>1
<1>3. \A i \in S : incident[i] # NoIncident
  BY <1>1, <1>2 DEF NoIncident, Active
<1>4. PICK i \in S : \A j \in S : ~Ahead(j, i)
  BY <1>2, <1>3, SomeLatest
<1>5. ASSUME NEW j \in Matches(a, known) PROVE ~Better(a, j, i)
  <2>1. CASE own # {}
    <3>1. Score(a, i) = 80
      BY <2>1 DEF Score
    <3>2. Score(a, j) = 80 => j \in S
      BY <2>1 DEF Score
    <3>3. Score(a, j) \in {63, 80}
      BY DEF Score
    <3> QED BY <1>4, <3>1, <3>2, <3>3 DEF Better
  <2>2. CASE own = {}
    <3>1. Score(a, i) = 63 /\ Score(a, j) = 63
      BY <1>2, <2>2 DEF Score
    <3> QED BY <1>4, <2>2, <3>1 DEF Better
  <2> QED BY <2>1, <2>2
<1> QED BY <1>2, <1>5 DEF BestMatches

\* Where nothing is found, the query left out every active incident of the storm.
LEMMA NothingFoundNoneNear ==
  ASSUME IntakeTypeOK, NEW s \in Sender, NEW known \in BOOLEAN, BestMatches(alert[s], known) = {},
         NEW i \in Sender, Near(i, alert[s])
  PROVE  i \in Loadable(alert[s].service, alert[s]) \ Candidates(alert[s].service, alert[s])
<1> DEFINE a == alert[s]
<1>1. incident[i] # NoIncident
  BY DEF Near, Active, NoIncident
<1>2. /\ incident[i].created_at \in 0..MaxTime /\ incident[i].updated_at \in 0..MaxTime
      /\ incident[i].created_at <= incident[i].updated_at
  BY <1>1, Rows
<1>3. a.starts_at \in 0..MaxTime /\ a.service \in Service
  BY IntakeParts DEF AlertSet
<1>4. Skew \in Nat /\ Window \in Nat /\ Skew <= Window /\ MaxTime \in Nat
  BY IntakeNumbers
<1>5. /\ incident[i].created_at <= a.starts_at + Skew /\ a.starts_at <= incident[i].created_at + Skew
      /\ incident[i].status \in Active
      /\ incident[i].service = a.service /\ incident[i].environment = a.environment
  BY DEF Near
<1>6. /\ a.starts_at <= incident[i].updated_at + Window
      /\ incident[i].created_at <= a.starts_at + Window
  BY <1>2, <1>3, <1>4, <1>5
<1> HIDE DEF a
<1>7. i \in Loadable(a.service, a)
  BY <1>5, <1>6 DEF Loadable, InBounds
<1>8. a.service \in Concerned(a.service, known)
  BY DEF Concerned
<1>9. Correlates(a, i, known)
  BY <1>5, <1>6 DEF Correlates
<1>10. i \in Candidates(a.service, a) => i \in Matches(a, known)
  BY <1>8, <1>9 DEF Matches
<1> QED BY <1>7, <1>10, BestIfAny DEF a

\* What is found is an active incident.
LEMMA BestIsActive ==
  ASSUME NEW a, NEW known, NEW i \in BestMatches(a, known)
  PROVE  i \in Sender /\ incident[i].status \in Active
  BY DEF BestMatches, Matches, Candidates, Loadable, InBounds
----------------------------------------------------------------------------
(* What the parts of the invariant need of a step.                         *)

LEMMA IntakeTyped ==
  ASSUME alert' \in [Sender -> Alert], incident' \in [Sender -> IncidentRow \cup {NoIncident}],
         \A i \in Sender : incident'[i] # NoIncident =>
           incident'[i].created_at <= incident'[i].updated_at,
         job' \in [Sender -> WorkSet], lock' \in [Service -> Sender \cup {NoSender}],
         recorded' \subseteq [event : Event, by : Sender, incident : Sender \cup {NoSender}],
         leftOut' \in [Sender -> SUBSET Sender]
  PROVE  IntakeTypeOK'
  BY DEF IntakeTypeOK, WorkSet

\* A request that ended stands at the beginning, with its answer and its count of posts.
LEMMA EndedIsWork ==
  ASSUME IntakeTypeOK, NEW s \in Sender,
         NEW answer \in {"accepted", "duplicate", "failed", "conflict"}
  PROVE  LET w == [Idle EXCEPT !.step = answer, !.posts = @ + job[s].posts]
         IN  w \in WorkSet /\ w.step = answer
<1>1. job[s].posts \in 0..MaxPosts /\ MaxPosts \in Nat
  BY IntakeParts, IntakeNumbers DEF WorkSet
<1>2. 0 + job[s].posts = job[s].posts
  BY <1>1
<1>3. Idle \in WorkSet /\ Idle.posts = 0
  BY <1>1 DEF Idle, WorkSet
<1> QED BY <1>1, <1>2, <1>3 DEF WorkSet

LEMMA ReleasedKeeps ==
  ASSUME IntakeTypeOK, NEW s \in Sender
  PROVE  /\ Released(s) \in [Service -> Sender \cup {NoSender}]
         /\ \A v \in Service, t \in Sender \ {s} : lock[v] = t => Released(s)[v] = t
  BY IntakeParts DEF Released

\* Rows stay, or are written under the next version; an incident keeps its service.
RowsGoOn ==
  \A i \in Sender : incident[i] # NoIncident =>
    \/ incident'[i] = incident[i]
    \/ /\ incident'[i] # NoIncident /\ incident'[i].version = incident[i].version + 1
       /\ incident'[i].service = incident[i].service

\* So a service that has had many incidents goes on having had them.
LEMMA CrowdsStay ==
  ASSUME OnlyCrowdsAreCut, RowsGoOn, alert' = alert, leftOut' = leftOut
  PROVE  OnlyCrowdsAreCut'
<1> SUFFICES ASSUME NEW s \in Sender, leftOut[s] # {}
             PROVE  Cardinality(IncidentsOf(alert[s].service)') > CandidateLimit
  BY DEF OnlyCrowdsAreCut, IncidentsOf
<1> DEFINE before == IncidentsOf(alert[s].service)
           after == IncidentsOf(alert[s].service)'
<1>1. before \subseteq after /\ after \subseteq Sender
  BY DEF RowsGoOn, IncidentsOf
<1>2. Cardinality(before) > CandidateLimit
  BY DEF OnlyCrowdsAreCut
<1> HIDE DEF before, after
<1>3. /\ IsFiniteSet(after) /\ IsFiniteSet(before)
      /\ Cardinality(before) <= Cardinality(after)
  BY <1>1, IntakeNumbers, FS_Subset
<1>4. Cardinality(before) \in Nat /\ Cardinality(after) \in Nat /\ CandidateLimit \in Nat
  BY <1>3, FS_CardinalityType, IntakeNumbers
<1>5. Cardinality(after) > CandidateLimit
  BY <1>2, <1>3, <1>4
<1> QED BY <1>5 DEF after

\* Another's step: the locks of this one are kept, and no incident gets near its alert.
LEMMA OthersGoOn ==
  ASSUME IntakeInv, NEW t \in Sender, job'[t] = job[t], alert' = alert, leftOut'[t] = leftOut[t],
         RowsGoOn, \A v \in Service : lock[v] = t => lock'[v] = t,
         job[t].step = "create" => \A i \in Sender : Near(i, alert[t])' => Near(i, alert[t])
  PROVE  (OwnLock(t) /\ NoneNear(t) /\ LoadedSound(t))'
<1>1. OwnLock(t) /\ NoneNear(t) /\ LoadedSound(t) /\ alert[t].service \in Service
  BY IntakeParts DEF IntakeInv, AlertSet
<1>2. OwnLock(t)' /\ NoneNear(t)'
  BY <1>1 DEF OwnLock, NoneNear
<1>3. LoadedSound(t)'
  <2> SUFFICES ASSUME job[t].step = "attach" PROVE LoadedSound(t)'
    BY DEF LoadedSound
  <2> DEFINE i == job[t].target
  <2>1. /\ i \in Sender /\ job[t].loaded \in IncidentRow /\ job[t].loaded.status \in Active
        /\ incident[i] # NoIncident /\ job[t].loaded.version <= incident[i].version
        /\ job[t].loaded.version = incident[i].version => incident[i] = job[t].loaded
    BY <1>1 DEF LoadedSound
  <2>2. job[t].loaded.version \in Nat /\ incident[i].version \in Nat
    BY <2>1, Rows DEF IntakeInv, IncidentRow
  <2> HIDE DEF i
  <2>3. CASE incident'[i] = incident[i]
    BY <2>1, <2>3 DEF LoadedSound, i
  <2>4. CASE incident'[i] # NoIncident /\ incident'[i].version = incident[i].version + 1
    BY <2>1, <2>2, <2>4 DEF LoadedSound, i
  <2> QED BY <2>1, <2>3, <2>4 DEF RowsGoOn
<1> QED BY <1>2, <1>3

\* A step of one request that changes no table; what its query left out is new only
\* where it has no incident yet.
LEMMA DecisionStep ==
  ASSUME IntakeInv, NEW s \in Sender, NEW w \in WorkSet, job' = [job EXCEPT ![s] = w],
         alert' = alert, incident' = incident, recorded' = recorded,
         lock' \in [Service -> Sender \cup {NoSender}],
         leftOut' \in [Sender -> SUBSET Sender], OnlyCrowdsAreCut',
         \A t \in Sender : leftOut'[t] = leftOut[t] \/ (t = s /\ incident[s] = NoIncident),
         \A v \in Service, t \in Sender \ {s} : lock[v] = t => lock'[v] = t,
         w.step = "locking" => alert[s].service \in w.left \/ lock'[alert[s].service] = s,
         w.step = "create" => /\ lock'[alert[s].service] = s
                              /\ \A i \in Sender : Near(i, alert[s]) => i \in leftOut'[s],
         w.step = "attach" => /\ w.target \in Sender /\ w.loaded = incident[w.target]
                              /\ incident[w.target].status \in Active
  PROVE  IntakeInv'
<1>1. job \in [Sender -> WorkSet]
  BY IntakeParts DEF IntakeInv
<1>2. job'[s] = w /\ \A t \in Sender \ {s} : job'[t] = job[t]
  BY <1>1
<1>3. IntakeTypeOK'
  BY <1>1, IntakeParts, IntakeTyped DEF IntakeInv, IntakeTypeOK
<1>4. ASSUME NEW t \in Sender PROVE (OwnLock(t) /\ NoneNear(t) /\ LoadedSound(t))'
  <2>1. CASE t # s
    BY <2>1, <1>2, OthersGoOn DEF RowsGoOn, Near
  <2>2. CASE t = s
    <3>1. OwnLock(s)' /\ NoneNear(s)'
      BY <1>2 DEF OwnLock, NoneNear, Near
    <3>2. LoadedSound(s)'
      <4>1. SUFFICES ASSUME w.step = "attach" PROVE LoadedSound(s)'
        BY <1>2 DEF LoadedSound
      <4>2. incident[w.target] # NoIncident
        BY <4>1 DEF NoIncident, Active
      <4>3. incident[w.target] \in IncidentRow /\ incident[w.target].version \in Nat
        BY <4>1, <4>2, Rows DEF IntakeInv
      <4> QED BY <4>1, <4>2, <4>3, <1>2 DEF LoadedSound
    <3> QED BY <2>2, <3>1, <3>2
  <2> QED BY <2>1, <2>2
<1>5. OpenerRecorded' /\ StormsConverge'
  <2>1. ASSUME NEW i \in Sender, NEW j \in Sender, Storm(i, j)
        PROVE  /\ i = j \/ i \in leftOut[j] \/ j \in leftOut[i]
               /\ incident[i] # NoIncident /\ incident[j] # NoIncident
    BY <2>1 DEF IntakeInv, StormsConverge, Storm, Active, NoIncident
  <2>2. \A i, j \in Sender : Storm(i, j)' => Storm(i, j)
    BY DEF Storm
  <2>3. StormsConverge'
    BY <2>1, <2>2 DEF StormsConverge
  <2> QED BY <2>3 DEF IntakeInv, OpenerRecorded
<1>6. AggregatesAlerts'
  <2>1. \A i : AlertsOf(i)' = AlertsOf(i)
    BY DEF AlertsOf
  <2> QED BY <2>1 DEF IntakeInv, AggregatesAlerts
<1> QED BY <1>3, <1>4, <1>5, <1>6 DEF IntakeInv

\* Before and after the decision.
LEMMA WorkStep ==
  ASSUME IntakeInv, NEW s \in Sender, NEW w \in WorkSet, job' = [job EXCEPT ![s] = w],
         alert' = alert, incident' = incident, recorded' = recorded, leftOut' = leftOut,
         lock' \in [Service -> Sender \cup {NoSender}],
         \A v \in Service, t \in Sender \ {s} : lock[v] = t => lock'[v] = t,
         w.step = "locking" => alert[s].service \in w.left \/ lock'[alert[s].service] = s,
         w.step \notin {"create", "attach"}
  PROVE  IntakeInv'
<1>1. leftOut' \in [Sender -> SUBSET Sender]
  BY IntakeParts DEF IntakeInv
<1>2. OnlyCrowdsAreCut'
  BY CrowdsStay DEF IntakeInv, RowsGoOn
<1> QED BY <1>1, <1>2, DecisionStep

\* A request that ends without a commit.
LEMMA EndStep ==
  ASSUME IntakeInv, NEW s \in Sender,
         NEW answer \in {"accepted", "duplicate", "failed", "conflict"}, EndRequest(s, answer),
         alert' = alert, incident' = incident, recorded' = recorded, leftOut' = leftOut
  PROVE  IntakeInv'
<1> DEFINE w == [Idle EXCEPT !.step = answer, !.posts = @ + job[s].posts]
<1>1. w \in WorkSet /\ w.step = answer
  BY EndedIsWork DEF IntakeInv
<1>2. job' = [job EXCEPT ![s] = w] /\ lock' = Released(s)
  BY DEF EndRequest
<1>3. /\ lock' \in [Service -> Sender \cup {NoSender}]
      /\ \A v \in Service, t \in Sender \ {s} : lock[v] = t => lock'[v] = t
  BY <1>2, ReleasedKeeps DEF IntakeInv
<1> HIDE DEF w
<1>4. answer \notin {"locking", "create", "attach"}
  OBVIOUS
<1> QED BY <1>1, <1>2, <1>3, <1>4, WorkStep
----------------------------------------------------------------------------
(* The steps of a request before its commit.                               *)

LEMMA PostKeeps == ASSUME IntakeInv, NEW s \in Sender, Post(s) PROVE IntakeInv'
<1> DEFINE w == [job[s] EXCEPT !.step = "received", !.posts = job[s].posts + 1]
<1>1. /\ job[s] \in WorkSet /\ job[s].posts \in Nat /\ job[s].posts < MaxPosts /\ MaxPosts \in Nat
  BY IntakeParts, IntakeNumbers DEF IntakeInv, Post, WorkSet
<1>2. w \in WorkSet /\ w.step = "received"
  <2>1. job[s].posts + 1 \in 0..MaxPosts
    BY <1>1
  <2> QED BY <1>1, <2>1 DEF WorkSet
<1>3. job' = [job EXCEPT ![s] = w]
  BY DEF Post
<1>4. /\ alert' = alert /\ incident' = incident /\ recorded' = recorded /\ lock' = lock
      /\ leftOut' = leftOut /\ lock \in [Service -> Sender \cup {NoSender}]
  BY IntakeParts DEF IntakeInv, Post
<1> HIDE DEF w
<1> QED BY <1>2, <1>3, <1>4, WorkStep

LEMMA ConcernedInService ==
  ASSUME NEW v \in Service, NEW known \in BOOLEAN
  PROVE  Concerned(v, known) \subseteq Service /\ v \in Concerned(v, known)
<1>1. NodeOrder \in Seq(Service)
  BY IntakeAssumption DEF IntakeAssumption
<1>2. \A n \in 1..Len(NodeOrder) : NodeOrder[n] \in Service
  BY <1>1
<1> QED BY <1>2 DEF Concerned

LEMMA ReceiveKeeps == ASSUME IntakeInv, NEW s \in Sender, Receive(s) PROVE IntakeInv'
<1>1. alert' = alert /\ incident' = incident /\ recorded' = recorded /\ leftOut' = leftOut
  BY DEF Receive
<1>2. CASE EndRequest(s, "duplicate")
  BY <1>1, <1>2, EndStep
<1>3. /\ job[s] \in WorkSet /\ alert[s].service \in Service
      /\ lock \in [Service -> Sender \cup {NoSender}]
  BY IntakeParts DEF IntakeInv, AlertSet
<1>4. CASE lock' = lock /\ job' = [job EXCEPT ![s].step = "ignore"]
  <2> DEFINE w == [job[s] EXCEPT !.step = "ignore"]
  <2>1. w \in WorkSet /\ w.step = "ignore" /\ job' = [job EXCEPT ![s] = w]
    BY <1>3, <1>4 DEF WorkSet
  <2> HIDE DEF w
  <2> QED BY <1>1, <1>3, <1>4, <2>1, WorkStep
<1>5. ASSUME lock' = lock, NEW known \in BOOLEAN,
             job' = [job EXCEPT ![s].step = "locking", ![s].known = known,
                                ![s].left = Concerned(alert[s].service, known)]
      PROVE  IntakeInv'
  <2> DEFINE set == Concerned(alert[s].service, known)
             w == [job[s] EXCEPT !.step = "locking", !.known = known, !.left = set]
  <2>1. set \in SUBSET Service /\ alert[s].service \in set
    BY <1>3, ConcernedInService
  <2>2. job' = [job EXCEPT ![s] = w]
    BY <1>5
  <2> HIDE DEF set
  <2>3. w \in WorkSet /\ w.step = "locking" /\ w.left = set
    BY <1>3, <2>1 DEF WorkSet
  <2> HIDE DEF w
  <2> QED BY <1>1, <1>3, <1>5, <2>1, <2>2, <2>3, WorkStep
<1> QED BY <1>2, <1>4, <1>5 DEF Receive

\* One more lock; the own service leaves the set only when its lock is taken.
LEMMA AcquireKeeps == ASSUME IntakeInv, NEW s \in Sender, Acquire(s) PROVE IntakeInv'
<1>1. PICK v \in Service : /\ job[s].step = "locking" /\ v \in job[s].left
                           /\ lock[v] \in {NoSender, s}
                           /\ lock' = [lock EXCEPT ![v] = s]
                           /\ job' = [job EXCEPT ![s].left = job[s].left \ {v}]
                           /\ alert' = alert /\ incident' = incident /\ recorded' = recorded
                           /\ leftOut' = leftOut
  BY DEF Acquire, IsNext
<1>2. /\ job[s] \in WorkSet /\ alert[s].service \in Service /\ NoSender \notin Sender
      /\ lock \in [Service -> Sender \cup {NoSender}]
  BY IntakeParts, IntakeNumbers DEF IntakeInv, AlertSet
<1> DEFINE w == [job[s] EXCEPT !.left = job[s].left \ {v}]
<1>3. /\ w \in WorkSet /\ w.step = "locking" /\ w.left = job[s].left \ {v}
      /\ job' = [job EXCEPT ![s] = w]
  BY <1>1, <1>2 DEF WorkSet
<1>4. /\ lock' \in [Service -> Sender \cup {NoSender}] /\ lock'[v] = s
      /\ \A u \in Service \ {v} : lock'[u] = lock[u]
  BY <1>1, <1>2
<1>5. \A u \in Service, t \in Sender \ {s} : lock[u] = t => lock'[u] = t
  BY <1>1, <1>2, <1>4
<1> HIDE DEF w
<1>6. alert[s].service \in w.left \/ lock'[alert[s].service] = s
  BY <1>1, <1>2, <1>3, <1>4 DEF IntakeInv, OwnLock
<1> QED BY <1>1, <1>3, <1>4, <1>5, <1>6, WorkStep

\* The decision is taken with the lock held: to open an incident only if the query
\* left out all that are near.
LEMMA DecideKeeps == ASSUME IntakeInv, NEW s \in Sender, Decide(s) PROVE IntakeInv'
<1>1. /\ alert' = alert /\ incident' = incident /\ recorded' = recorded
      /\ job[s].step = "locking" /\ job[s].left = {}
  BY DEF Decide
<1>2. /\ job[s] \in WorkSet /\ job[s].known \in BOOLEAN /\ IntakeTypeOK
      /\ lock \in [Service -> Sender \cup {NoSender}]
  BY IntakeParts DEF IntakeInv, WorkSet
<1>3. lock[alert[s].service] = s
  BY <1>1 DEF IntakeInv, OwnLock
<1> DEFINE a == alert[s]
           best == BestMatches(a, job[s].known)
           cut == Loadable(a.service, a) \ Candidates(a.service, a)
<1>4. CASE EndRequest(s, "duplicate") /\ leftOut' = leftOut
  BY <1>1, <1>4, EndStep
<1>5. ASSUME ~Known(s), leftOut' = [leftOut EXCEPT ![s] = cut]
      PROVE  /\ leftOut' \in [Sender -> SUBSET Sender] /\ leftOut'[s] = cut
             /\ \A t \in Sender : leftOut'[t] = leftOut[t] \/ (t = s /\ incident[s] = NoIncident)
             /\ OnlyCrowdsAreCut'
  <2>1. incident[s] = NoIncident
    BY <1>5 DEF IntakeInv, OpenerRecorded, Known
  <2>2. cut \in SUBSET Sender
    BY DEF Loadable
  <2>3. \A i \in cut : Cardinality(IncidentsOf(a.service)) > CandidateLimit
    BY <1>2, CutFromACrowd
  <2> HIDE DEF cut
  <2>4. /\ leftOut' \in [Sender -> SUBSET Sender] /\ leftOut'[s] = cut
        /\ \A t \in Sender \ {s} : leftOut'[t] = leftOut[t]
    BY <1>2, <1>5, <2>2, IntakeParts
  <2>5. ASSUME NEW t \in Sender, leftOut'[t] # {}
        PROVE  Cardinality(IncidentsOf(alert[t].service)) > CandidateLimit
    BY <2>3, <2>4, <2>5 DEF IntakeInv, OnlyCrowdsAreCut
  <2>6. \A v : IncidentsOf(v)' = IncidentsOf(v)
    BY <1>1 DEF IncidentsOf
  <2>7. OnlyCrowdsAreCut'
    BY <1>1, <2>5, <2>6 DEF OnlyCrowdsAreCut
  <2> QED BY <2>1, <2>4, <2>7
<1>6. ASSUME lock' = lock, ~Known(s), leftOut' = [leftOut EXCEPT ![s] = cut], best = {},
             job' = [job EXCEPT ![s].step = "create"]
      PROVE  IntakeInv'
  <2> DEFINE w == [job[s] EXCEPT !.step = "create"]
  <2>1. w \in WorkSet /\ w.step = "create" /\ job' = [job EXCEPT ![s] = w]
    BY <1>2, <1>6 DEF WorkSet
  <2>2. \A i \in Sender : Near(i, alert[s]) => i \in cut
    BY <1>2, <1>6, NothingFoundNoneNear
  <2> HIDE DEF w, best, cut
  <2> QED BY <1>1, <1>2, <1>3, <1>6, <1>5, <2>1, <2>2, DecisionStep
<1>7. ASSUME lock' = lock, ~Known(s), leftOut' = [leftOut EXCEPT ![s] = cut], NEW i \in best,
             job' = [job EXCEPT ![s].step = "attach", ![s].target = i, ![s].loaded = incident[i]]
      PROVE  IntakeInv'
  <2>1. i \in Sender /\ incident[i].status \in Active
    BY BestIsActive
  <2>2. incident[i] \in IncidentRow
    BY <1>2, <2>1, Rows DEF Active, NoIncident
  <2> DEFINE w == [job[s] EXCEPT !.step = "attach", !.target = i, !.loaded = incident[i]]
  <2>3. /\ w \in WorkSet /\ w.step = "attach" /\ w.target = i /\ w.loaded = incident[i]
        /\ job' = [job EXCEPT ![s] = w]
    BY <1>2, <1>7, <2>1, <2>2 DEF WorkSet
  <2> HIDE DEF w, best, cut
  <2> QED BY <1>1, <1>2, <1>7, <1>5, <2>1, <2>3, DecisionStep
<1> QED BY <1>4, <1>6, <1>7 DEF Decide

LEMMA RollbackKeeps ==
  ASSUME IntakeInv, NEW s \in Sender,
         LockTimesOut(s) \/ Conflict(s) \/ Confirm(s) \/ Abort(s)
  PROVE  IntakeInv'
<1>1. alert' = alert /\ incident' = incident /\ recorded' = recorded /\ leftOut' = leftOut
  BY DEF LockTimesOut, Conflict, Confirm, Abort
<1>2. CASE LockTimesOut(s) \/ Abort(s)
  BY <1>1, <1>2, EndStep DEF LockTimesOut, Abort
<1>3. CASE Conflict(s)
  BY <1>1, <1>3, EndStep DEF Conflict, EndRequest
<1>4. CASE Confirm(s)
  <2>1. EndRequest(s, "duplicate") \/ EndRequest(s, "failed")
    BY <1>4 DEF Confirm
  <2> QED BY <1>1, <2>1, EndStep
<1> QED BY <1>2, <1>3, <1>4
----------------------------------------------------------------------------
(* Commits.                                                                *)

\* The count of a set that gets a new member.
LEMMA OneMore ==
  ASSUME IsFiniteSet(recorded), NEW x, x \notin recorded, recorded' = recorded \cup {x},
         NEW i
  PROVE  /\ IsFiniteSet(recorded')
         /\ x.incident # i => AlertsOf(i)' = AlertsOf(i)
         /\ x.incident = i => /\ AlertsOf(i)' = AlertsOf(i) \cup {x}
                              /\ Cardinality(AlertsOf(i)') = Cardinality(AlertsOf(i)) + 1
<1>1. IsFiniteSet(recorded')
  BY FS_AddElement
<1>2. x.incident # i => AlertsOf(i)' = AlertsOf(i)
  BY DEF AlertsOf
<1>3. x.incident = i => AlertsOf(i)' = AlertsOf(i) \cup {x}
  BY DEF AlertsOf
<1>4. IsFiniteSet(AlertsOf(i)) /\ x \notin AlertsOf(i)
  BY FS_Subset DEF AlertsOf
<1>5. Cardinality(AlertsOf(i) \cup {x}) = Cardinality(AlertsOf(i)) + 1
  BY <1>4, FS_AddElement
<1> QED BY <1>1, <1>2, <1>3, <1>5

\* Incidents keep where and when they began, and become active only once.
SameStorms ==
  \A i \in Sender :
    \/ incident'[i] = incident[i]
    \/ /\ incident'[i].service = incident[i].service
       /\ incident'[i].environment = incident[i].environment
       /\ incident'[i].created_at = incident[i].created_at
       /\ incident'[i].status \in Active => incident[i].status \in Active

LEMMA StormsKept ==
  ASSUME IntakeInv, SameStorms, leftOut' = leftOut
  PROVE  /\ StormsConverge'
         /\ alert' = alert => \A i, t \in Sender : Near(i, alert[t])' => Near(i, alert[t])
<1>1. ASSUME NEW i \in Sender, NEW j \in Sender, Storm(i, j)' PROVE Storm(i, j)
  BY <1>1 DEF SameStorms, Storm
<1>2. StormsConverge'
  BY <1>1 DEF IntakeInv, StormsConverge
<1>3. ASSUME alert' = alert, NEW i \in Sender, NEW t \in Sender, Near(i, alert[t])'
      PROVE  Near(i, alert[t])
  BY <1>3 DEF SameStorms, Near
<1> QED BY <1>2, <1>3

\* The commit of a request: its alert is recorded and its locks go.
LEMMA CommitStep ==
  ASSUME IntakeInv, NEW s \in Sender, NEW i \in Sender \cup {NoSender},
         recorded' = recorded \cup {[event |-> alert[s].event, by |-> s, incident |-> i]},
         EndRequest(s, "accepted") \/ EndRequest(s, "failed"), alert' = alert, leftOut' = leftOut,
         incident' \in [Sender -> IncidentRow \cup {NoIncident}], RowsGoOn,
         \A j \in Sender : incident'[j] # NoIncident =>
           /\ incident'[j].created_at <= incident'[j].updated_at
           /\ incident[j] = NoIncident => j = s,
         \A t \in Sender \ {s} : job[t].step = "create" =>
           \A j \in Sender : Near(j, alert[t])' => Near(j, alert[t]),
         StormsConverge', AggregatesAlerts'
  PROVE  IntakeInv'
<1> DEFINE x == [event |-> alert[s].event, by |-> s, incident |-> i]
<1>1. PICK w \in WorkSet : /\ job' = [job EXCEPT ![s] = w] /\ lock' = Released(s)
                           /\ w.step \in {"accepted", "failed"}
  BY EndedIsWork DEF IntakeInv, EndRequest
<1>2. /\ job \in [Sender -> WorkSet] /\ alert[s].event \in Event
      /\ recorded \subseteq [event : Event, by : Sender, incident : Sender \cup {NoSender}]
      /\ alert \in [Sender -> Alert] /\ leftOut' \in [Sender -> SUBSET Sender]
  BY IntakeParts DEF IntakeInv, AlertSet
<1>3. x \in [event : Event, by : Sender, incident : Sender \cup {NoSender}] /\ x.event = alert[s].event
  BY <1>2
<1> HIDE DEF x
<1>4. recorded' = recorded \cup {x}
  BY DEF x
<1>5. job'[s] = w /\ \A t \in Sender \ {s} : job'[t] = job[t]
  BY <1>1, <1>2
<1>6. /\ lock' \in [Service -> Sender \cup {NoSender}]
      /\ \A v \in Service, t \in Sender \ {s} : lock[v] = t => lock'[v] = t
  BY <1>1, ReleasedKeeps DEF IntakeInv
<1>7. IntakeTypeOK'
  BY <1>1, <1>2, <1>3, <1>4, <1>6, IntakeTyped
<1>8. IsFiniteSet(recorded')
  BY <1>4, FS_AddElement DEF IntakeInv
<1>9. ASSUME NEW t \in Sender PROVE (OwnLock(t) /\ NoneNear(t) /\ LoadedSound(t))'
  <2>1. CASE t # s
    BY <2>1, <1>5, <1>6, OthersGoOn
  <2>2. CASE t = s
    BY <2>2, <1>1, <1>5 DEF OwnLock, NoneNear, LoadedSound
  <2> QED BY <2>1, <2>2
<1>10. OpenerRecorded'
  BY <1>3, <1>4 DEF IntakeInv, OpenerRecorded
<1>11. OnlyCrowdsAreCut'
  BY CrowdsStay DEF IntakeInv
<1> QED BY <1>7, <1>8, <1>9, <1>10, <1>11 DEF IntakeInv

LEMMA IgnoredKeeps ==
  ASSUME IntakeInv, NEW s \in Sender, Commit(s), CommitIgnored(s) PROVE IntakeInv'
<1> DEFINE x == [event |-> alert[s].event, by |-> s, incident |-> NoSender]
<1>1. /\ recorded' = recorded \cup {x} /\ incident' = incident /\ alert' = alert
      /\ leftOut' = leftOut
      /\ EndRequest(s, "accepted") \/ EndRequest(s, "failed")
      /\ \A y \in recorded : y.event # x.event
  BY DEF Commit, CommitIgnored, Saved, Known
<1>2. x.incident = NoSender /\ x \notin recorded /\ NoSender \notin Sender
  BY <1>1, IntakeNumbers
<1> HIDE DEF x
<1>3. \A i \in Sender : AlertsOf(i)' = AlertsOf(i)
  BY <1>1, <1>2, OneMore DEF IntakeInv
<1>4. AggregatesAlerts'
  BY <1>1, <1>3 DEF IntakeInv, AggregatesAlerts
<1>5. SameStorms /\ RowsGoOn
  BY <1>1 DEF SameStorms, RowsGoOn
<1>6. /\ incident' \in [Sender -> IncidentRow \cup {NoIncident}]
      /\ \A j \in Sender : incident'[j] # NoIncident =>
           incident'[j].created_at <= incident'[j].updated_at
  BY <1>1, IntakeParts, Rows DEF IntakeInv
<1> QED BY <1>1, <1>4, <1>5, <1>6, StormsKept, CommitStep DEF x

\* The new incident is the only one of its storm, but for those that the query left out:
\* nobody else could open one of this service since the decision was taken.
LEMMA OpenedKeeps ==
  ASSUME IntakeInv, NEW s \in Sender, Commit(s), CommitOpened(s) PROVE IntakeInv'
<1> DEFINE x == [event |-> alert[s].event, by |-> s, incident |-> s]
           a == alert[s]
           newRow == Opened(a)
<1>1. /\ recorded' = recorded \cup {x} /\ alert' = alert /\ leftOut' = leftOut
      /\ incident' = [incident EXCEPT ![s] = newRow]
      /\ EndRequest(s, "accepted") \/ EndRequest(s, "failed")
      /\ \A y \in recorded : y.event # x.event
      /\ job[s].step = "create"
  BY DEF Commit, CommitOpened, Saved, Known
<1>2. /\ incident \in [Sender -> IncidentRow \cup {NoIncident}] /\ a \in AlertSet
      /\ a.service \in Service /\ a.starts_at \in 0..MaxTime /\ MaxTime \in Nat /\ Skew \in Nat
      /\ lock \in [Service -> Sender \cup {NoSender}]
  BY IntakeParts, IntakeNumbers DEF IntakeInv, AlertSet
<1>3. incident[s] = NoIncident
  BY <1>1 DEF IntakeInv, OpenerRecorded
<1>4. /\ newRow \in IncidentRow /\ newRow.status = "OPEN" /\ newRow.service = a.service
      /\ newRow.environment = a.environment /\ newRow.created_at = a.starts_at
      /\ newRow.updated_at = a.starts_at /\ newRow.count = 1 /\ newRow.affected = {a.service}
      /\ newRow.rank = a.rank /\ a.rank \in Nat
  BY <1>2 DEF Opened, IncidentRow, AlertSet
<1>5. newRow # NoIncident
  BY <1>4, NoRowIsNone
<1>6. x.incident = s /\ x.by = s /\ x \notin recorded /\ NoSender \notin Sender
  BY <1>1, IntakeNumbers
<1> HIDE DEF newRow, x
<1>7. incident'[s] = newRow /\ \A i \in Sender \ {s} : incident'[i] = incident[i]
  BY <1>1, <1>2
<1>8. incident' \in [Sender -> IncidentRow \cup {NoIncident}]
  BY <1>1, <1>2, <1>4
<1>9. RowsGoOn
  BY <1>3, <1>7 DEF RowsGoOn
<1>10. \A j \in Sender : incident'[j] # NoIncident =>
         /\ incident'[j].created_at <= incident'[j].updated_at
         /\ incident[j] = NoIncident => j = s
  BY <1>2, <1>4, <1>7, Rows DEF IntakeInv
<1>11. lock[a.service] = s /\ \A i \in Sender : Near(i, a) => i \in leftOut[s]
  BY <1>1 DEF IntakeInv, OwnLock, NoneNear
<1>12. ASSUME NEW t \in Sender \ {s}, job[t].step = "create", NEW j \in Sender, Near(j, alert[t])'
       PROVE  Near(j, alert[t])
  <2>1. CASE j = s
    <3>1. alert[t].service = a.service
      BY <1>1, <1>4, <1>7, <1>12, <2>1 DEF Near
    <3>2. lock[alert[t].service] = t
      BY <1>12 DEF IntakeInv, OwnLock
    <3> QED BY <1>11, <3>1, <3>2
  <2>2. CASE j # s
    BY <1>1, <1>7, <1>12, <2>2 DEF Near
  <2> QED BY <2>1, <2>2
<1>13. StormsConverge'
  <2> SUFFICES ASSUME NEW i \in Sender, NEW j \in Sender, Storm(i, j)'
               PROVE  i = j \/ i \in leftOut[j] \/ j \in leftOut[i]
    BY <1>1 DEF StormsConverge
  <2>1. CASE i # s /\ j # s
    BY <1>7, <2>1 DEF IntakeInv, StormsConverge, Storm
  <2>2. CASE i # s /\ j = s
    <3>1. incident[i] # NoIncident
      BY <1>7, <2>2 DEF Storm, Active, NoIncident
    <3>2. incident[i].created_at \in 0..MaxTime
      BY <3>1, Rows DEF IntakeInv
    <3>3. Near(i, a)
      BY <1>2, <1>4, <1>7, <2>2, <3>2 DEF Storm, Near
    <3> QED BY <1>11, <2>2, <3>3
  <2>3. CASE i = s /\ j # s
    <3>1. incident[j] # NoIncident
      BY <1>7, <2>3 DEF Storm, Active, NoIncident
    <3>2. incident[j].created_at \in 0..MaxTime
      BY <3>1, Rows DEF IntakeInv
    <3>3. Near(j, a)
      BY <1>2, <1>4, <1>7, <2>3, <3>2 DEF Storm, Near
    <3> QED BY <1>11, <2>3, <3>3
  <2> QED BY <2>1, <2>2, <2>3
<1>14. AggregatesAlerts'
  <2>1. \A y, z \in recorded' : y.event = z.event => y = z
    BY <1>1 DEF IntakeInv, AggregatesAlerts
  <2>2. AlertsOf(s) = {}
    BY <1>3 DEF IntakeInv, AggregatesAlerts
  <2>3. AlertsOf(s)' = {x} /\ Cardinality(AlertsOf(s)') = 1
    <3>1. AlertsOf(s)' = {x}
      BY <1>1, <1>6, <2>2, OneMore DEF IntakeInv
    <3> QED BY <3>1, FS_Singleton
  <2>4. \A i \in Sender \ {s} : AlertsOf(i)' = AlertsOf(i)
    BY <1>1, <1>6, OneMore DEF IntakeInv
  <2>5. ASSUME NEW i \in Sender \ {s}
        PROVE  /\ incident'[i] # NoIncident =>
                    /\ incident'[i].count = Cardinality(AlertsOf(i)')
                    /\ incident'[i].affected = {alert[y.by].service : y \in AlertsOf(i)'}
                    /\ \A y \in AlertsOf(i)' : /\ alert[y.by].rank <= incident'[i].rank
                                               /\ alert[y.by].starts_at <= incident'[i].updated_at
               /\ incident'[i] = NoIncident => AlertsOf(i)' = {}
    BY <1>7, <2>4 DEF IntakeInv, AggregatesAlerts
  <2>6. /\ incident'[s].count = Cardinality(AlertsOf(s)')
        /\ incident'[s].affected = {alert[y.by].service : y \in AlertsOf(s)'}
        /\ \A y \in AlertsOf(s)' : /\ alert[y.by].rank <= incident'[s].rank
                                   /\ alert[y.by].starts_at <= incident'[s].updated_at
        /\ incident'[s] # NoIncident
    BY <1>2, <1>4, <1>5, <1>6, <1>7, <2>3
  <2> QED BY <1>1, <2>1, <2>5, <2>6 DEF AggregatesAlerts
<1> QED BY <1>1, <1>8, <1>9, <1>10, <1>12, <1>13, <1>14, CommitStep DEF x

\* An alert attached to the row that was loaded: the version says that it is the row still.
LEMMA AttachedRow ==
  ASSUME NEW r \in IncidentRow, NEW a \in AlertSet, r.status \in Active,
         r.created_at <= r.updated_at
  PROVE  LET q == Attached(r, a) IN
         /\ q \in IncidentRow /\ q # NoIncident /\ q.version = r.version + 1
         /\ q.count = r.count + 1 /\ q.affected = r.affected \cup {a.service}
         /\ q.status = r.status /\ q.service = r.service /\ q.environment = r.environment
         /\ q.created_at = r.created_at /\ q.created_at <= q.updated_at
         /\ r.rank <= q.rank /\ a.rank <= q.rank
         /\ r.updated_at <= q.updated_at /\ a.starts_at <= q.updated_at
<1> DEFINE rank == Larger(r.rank, a.rank)
           at == Larger(r.updated_at, a.starts_at)
           n == r.count + 1
           v == r.version + 1
           set == r.affected \cup {a.service}
<1>1. /\ r.rank \in Nat /\ a.rank \in Nat /\ r.updated_at \in 0..MaxTime /\ MaxTime \in Nat
      /\ a.starts_at \in 0..MaxTime /\ r.created_at \in 0..MaxTime /\ r.count \in Nat
      /\ r.version \in Nat /\ a.service \in Service /\ r.affected \in SUBSET Service
  BY IntakeNumbers DEF IncidentRow, AlertSet
<1>2. /\ rank \in Nat /\ r.rank <= rank /\ a.rank <= rank
      /\ at \in 0..MaxTime /\ r.updated_at <= at /\ a.starts_at <= at /\ r.created_at <= at
      /\ n \in Nat /\ v \in Nat /\ set \in SUBSET Service
  BY <1>1 DEF Larger
<1>3. Attached(r, a) = [r EXCEPT !.rank = rank, !.updated_at = at, !.count = n,
                                 !.affected = set, !.version = v]
  BY DEF Attached
<1> HIDE DEF rank, at, n, v, set
<1>4. /\ Attached(r, a) \in IncidentRow
      /\ Attached(r, a).rank = rank /\ Attached(r, a).updated_at = at
      /\ Attached(r, a).count = n /\ Attached(r, a).affected = set
      /\ Attached(r, a).version = v /\ Attached(r, a).status = r.status
      /\ Attached(r, a).service = r.service /\ Attached(r, a).environment = r.environment
      /\ Attached(r, a).created_at = r.created_at
  BY <1>2, <1>3 DEF IncidentRow
<1> QED BY <1>2, <1>4, NoRowIsNone DEF n, v, set

LEMMA AttachedKeeps ==
  ASSUME IntakeInv, NEW s \in Sender, Commit(s), CommitAttached(s) PROVE IntakeInv'
<1>0. PICK k : k = job[s].target
  OBVIOUS
<1> DEFINE x == [event |-> alert[s].event, by |-> s, incident |-> k]
           a == alert[s]
           newRow == Attached(incident[k], a)
<1>1. /\ recorded' = recorded \cup {x} /\ alert' = alert /\ leftOut' = leftOut
      /\ incident' = [incident EXCEPT ![k] = Attached(job[s].loaded, a)]
      /\ EndRequest(s, "accepted") \/ EndRequest(s, "failed")
      /\ \A y \in recorded : y.event # x.event
      /\ job[s].step = "attach" /\ incident[k].version = job[s].loaded.version
  BY <1>0 DEF Commit, CommitAttached, Saved, Known, RowUnchanged
<1>2. k \in Sender /\ incident[k] = job[s].loaded /\ incident[k].status \in Active
  BY <1>0, <1>1 DEF IntakeInv, LoadedSound
<1>3. /\ incident \in [Sender -> IncidentRow \cup {NoIncident}] /\ a \in AlertSet
      /\ incident[k] # NoIncident /\ incident[k] \in IncidentRow
      /\ incident[k].created_at <= incident[k].updated_at
      /\ incident[k].updated_at \in Nat /\ incident[k].rank \in Nat
      /\ incident[k].count \in Nat
  BY <1>2, IntakeParts, Rows, IntakeNumbers DEF IntakeInv, Active, NoIncident
<1>4. /\ newRow \in IncidentRow /\ newRow # NoIncident /\ newRow.version = incident[k].version + 1
      /\ newRow.count = incident[k].count + 1
      /\ newRow.affected = incident[k].affected \cup {a.service}
      /\ newRow.status = incident[k].status /\ newRow.service = incident[k].service
      /\ newRow.environment = incident[k].environment
      /\ newRow.created_at = incident[k].created_at /\ newRow.created_at <= newRow.updated_at
      /\ incident[k].rank <= newRow.rank /\ a.rank <= newRow.rank
      /\ incident[k].updated_at <= newRow.updated_at /\ a.starts_at <= newRow.updated_at
      /\ newRow.rank \in Nat /\ newRow.updated_at \in Nat
  <2>1. \A r \in IncidentRow : r.rank \in Nat /\ r.updated_at \in Nat
    BY IntakeNumbers DEF IncidentRow
  <2> QED BY <1>2, <1>3, <2>1, AttachedRow
<1>5. incident' = [incident EXCEPT ![k] = newRow]
  BY <1>1, <1>2
<1>6. x.incident = k /\ x.by = s /\ x \notin recorded /\ NoSender \notin Sender
  BY <1>1, IntakeNumbers
<1> HIDE DEF newRow, x
<1>7. incident'[k] = newRow /\ \A i \in Sender \ {k} : incident'[i] = incident[i]
  BY <1>2, <1>3, <1>5
<1>8. incident' \in [Sender -> IncidentRow \cup {NoIncident}]
  BY <1>2, <1>3, <1>4, <1>5
<1>9. RowsGoOn /\ SameStorms
  BY <1>4, <1>7 DEF RowsGoOn, SameStorms
<1>10. \A j \in Sender : incident'[j] # NoIncident =>
         /\ incident'[j].created_at <= incident'[j].updated_at
         /\ incident[j] = NoIncident => j = s
  BY <1>3, <1>4, <1>7, Rows DEF IntakeInv
<1>11. StormsConverge' /\ \A i, t \in Sender : Near(i, alert[t])' => Near(i, alert[t])
  BY <1>1, <1>9, StormsKept
<1>12. AggregatesAlerts'
  <2>1. \A y, z \in recorded' : y.event = z.event => y = z
    BY <1>1 DEF IntakeInv, AggregatesAlerts
  <2>2. /\ incident[k].count = Cardinality(AlertsOf(k))
        /\ incident[k].affected = {alert[y.by].service : y \in AlertsOf(k)}
        /\ \A y \in AlertsOf(k) : /\ alert[y.by].rank <= incident[k].rank
                                  /\ alert[y.by].starts_at <= incident[k].updated_at
    BY <1>2, <1>3 DEF IntakeInv, AggregatesAlerts
  <2>3. /\ AlertsOf(k)' = AlertsOf(k) \cup {x}
        /\ Cardinality(AlertsOf(k)') = Cardinality(AlertsOf(k)) + 1
    BY <1>1, <1>6, OneMore DEF IntakeInv
  <2>4. \A i \in Sender \ {k} : AlertsOf(i)' = AlertsOf(i)
    BY <1>1, <1>6, OneMore DEF IntakeInv
  <2>5. ASSUME NEW i \in Sender \ {k}
        PROVE  /\ incident'[i] # NoIncident =>
                    /\ incident'[i].count = Cardinality(AlertsOf(i)')
                    /\ incident'[i].affected = {alert[y.by].service : y \in AlertsOf(i)'}
                    /\ \A y \in AlertsOf(i)' : /\ alert[y.by].rank <= incident'[i].rank
                                               /\ alert[y.by].starts_at <= incident'[i].updated_at
               /\ incident'[i] = NoIncident => AlertsOf(i)' = {}
    BY <1>7, <2>4 DEF IntakeInv, AggregatesAlerts
  <2>6. incident'[k].count = Cardinality(AlertsOf(k)') /\ incident'[k] # NoIncident
    BY <1>4, <1>7, <2>2, <2>3
  <2>7. incident'[k].affected = {alert[y.by].service : y \in AlertsOf(k)'}
    BY <1>4, <1>6, <1>7, <2>2, <2>3
  <2>8. ASSUME NEW y \in AlertsOf(k)'
        PROVE  alert[y.by].rank <= incident'[k].rank /\ alert[y.by].starts_at <= incident'[k].updated_at
    <3>1. CASE y = x
      BY <3>1, <1>4, <1>6, <1>7
    <3>2. CASE y \in AlertsOf(k)
      <4>1. y.by \in Sender
        BY <3>2, IntakeParts DEF IntakeInv, AlertsOf
      <4>2. alert[y.by].rank \in Nat /\ alert[y.by].starts_at \in Nat
        BY <4>1, IntakeParts, IntakeNumbers DEF IntakeInv, AlertSet
      <4> QED BY <1>3, <1>4, <1>7, <2>2, <3>2, <4>2
    <3> QED BY <2>3, <3>1, <3>2
  <2> QED BY <1>1, <2>1, <2>5, <2>6, <2>7, <2>8 DEF AggregatesAlerts
<1> QED BY <1>1, <1>2, <1>8, <1>9, <1>10, <1>11, <1>12, CommitStep DEF x

LEMMA CommitKeeps == ASSUME IntakeInv, NEW s \in Sender, Commit(s) PROVE IntakeInv'
  BY IgnoredKeeps, OpenedKeeps, AttachedKeeps DEF Commit
----------------------------------------------------------------------------
(* What the analysis and the operators do, and the whole.                  *)

LEMMA MoveOnKeeps == ASSUME IntakeInv, NEW i \in Sender, MoveOn(i) PROVE IntakeInv'
<1>1. PICK status \in {"ANALYZING", "RESOLVED"}, now \in incident[i].updated_at..MaxTime :
        incident' = [incident EXCEPT ![i].status = status, ![i].updated_at = now,
                                     ![i].version = incident[i].version + 1]
  BY DEF MoveOn
<1>2. /\ incident[i].status \in Active /\ alert' = alert /\ recorded' = recorded
      /\ lock' = lock /\ job' = job /\ leftOut' = leftOut
  BY DEF MoveOn
<1>3. /\ incident \in [Sender -> IncidentRow \cup {NoIncident}]
      /\ incident[i] # NoIncident /\ incident[i] \in IncidentRow
      /\ incident[i].created_at <= incident[i].updated_at /\ incident[i].version \in Nat
      /\ incident[i].updated_at \in 0..MaxTime /\ incident[i].created_at \in 0..MaxTime
      /\ MaxTime \in Nat
  BY <1>2, IntakeParts, Rows, IntakeNumbers DEF IntakeInv, Active, NoIncident
<1> DEFINE v == incident[i].version + 1
           newRow == [incident[i] EXCEPT !.status = status, !.updated_at = now, !.version = v]
<1>4. v \in Nat /\ now \in 0..MaxTime /\ incident[i].updated_at <= now
  BY <1>3
<1>5. incident' = [incident EXCEPT ![i] = newRow]
  BY <1>1
<1> HIDE DEF v
<1>6. /\ newRow \in IncidentRow /\ newRow.version = v /\ newRow.updated_at = now
      /\ newRow.service = incident[i].service /\ newRow.environment = incident[i].environment
      /\ newRow.created_at = incident[i].created_at /\ newRow.count = incident[i].count
      /\ newRow.affected = incident[i].affected /\ newRow.rank = incident[i].rank
  BY <1>3, <1>4 DEF IncidentRow
<1> HIDE DEF newRow
<1>7. newRow # NoIncident /\ newRow.created_at <= newRow.updated_at
  BY <1>3, <1>4, <1>6, NoRowIsNone
<1>8. incident'[i] = newRow /\ \A j \in Sender \ {i} : incident'[j] = incident[j]
  BY <1>3, <1>5
<1>9. SameStorms /\ RowsGoOn
  BY <1>2, <1>6, <1>7, <1>8 DEF SameStorms, RowsGoOn, v
<1>10. StormsConverge' /\ \A j, t \in Sender : Near(j, alert[t])' => Near(j, alert[t])
  BY <1>2, <1>9, StormsKept
<1>11. IntakeTypeOK'
  <2>1. incident' \in [Sender -> IncidentRow \cup {NoIncident}]
    BY <1>3, <1>5, <1>6
  <2>2. \A j \in Sender : incident'[j] # NoIncident =>
          incident'[j].created_at <= incident'[j].updated_at
    BY <1>7, <1>8, Rows DEF IntakeInv
  <2> QED BY <1>2, <2>1, <2>2, IntakeParts, IntakeTyped DEF IntakeInv
<1>12. \A t \in Sender : (OwnLock(t) /\ NoneNear(t) /\ LoadedSound(t))'
  BY <1>2, <1>9, <1>10, OthersGoOn
<1>13. OpenerRecorded'
  BY <1>2, <1>3, <1>8 DEF IntakeInv, OpenerRecorded
<1>14. \A j \in Sender : AlertsOf(j)' = AlertsOf(j)
  BY <1>2 DEF AlertsOf
<1>15. AggregatesAlerts'
  <2>1. \A y, z \in recorded' : y.event = z.event => y = z
    BY <1>2 DEF IntakeInv, AggregatesAlerts
  <2>2. ASSUME NEW j \in Sender \ {i}
        PROVE  /\ incident'[j] # NoIncident =>
                    /\ incident'[j].count = Cardinality(AlertsOf(j)')
                    /\ incident'[j].affected = {alert[y.by].service : y \in AlertsOf(j)'}
                    /\ \A y \in AlertsOf(j)' : /\ alert[y.by].rank <= incident'[j].rank
                                               /\ alert[y.by].starts_at <= incident'[j].updated_at
               /\ incident'[j] = NoIncident => AlertsOf(j)' = {}
    BY <1>8, <1>14 DEF IntakeInv, AggregatesAlerts
  <2>3. /\ incident'[i] # NoIncident /\ incident'[i].count = Cardinality(AlertsOf(i)')
        /\ incident'[i].affected = {alert[y.by].service : y \in AlertsOf(i)'}
    BY <1>3, <1>6, <1>7, <1>8, <1>14 DEF IntakeInv, AggregatesAlerts
  <2>4. ASSUME NEW y \in AlertsOf(i)'
        PROVE  alert[y.by].rank <= incident'[i].rank /\ alert[y.by].starts_at <= incident'[i].updated_at
    <3>1. /\ y \in AlertsOf(i) /\ alert[y.by].rank <= incident[i].rank
          /\ alert[y.by].starts_at <= incident[i].updated_at
      BY <1>3, <1>14, <2>4 DEF IntakeInv, AggregatesAlerts
    <3>2. y.by \in Sender
      BY <3>1, IntakeParts DEF IntakeInv, AlertsOf
    <3>3. alert[y.by].starts_at \in 0..MaxTime
      BY <3>2, IntakeParts DEF IntakeInv, AlertSet
    <3> QED BY <1>3, <1>4, <1>6, <1>8, <3>1, <3>3
  <2> QED BY <1>2, <2>1, <2>2, <2>3, <2>4 DEF AggregatesAlerts
<1>16. IsFiniteSet(recorded')
  BY <1>2 DEF IntakeInv
<1>17. OnlyCrowdsAreCut'
  BY <1>2, <1>9, CrowdsStay DEF IntakeInv
<1> QED BY <1>10, <1>11, <1>12, <1>13, <1>15, <1>16, <1>17 DEF IntakeInv

LEMMA IntakeStarts == ASSUME IntakeInit PROVE IntakeInv
<1>1. /\ alert \in [Sender -> Alert] /\ recorded = {}
      /\ \A s \in Sender : incident[s] = NoIncident /\ job[s] = Idle /\ leftOut[s] = {}
  BY DEF IntakeInit
<1>2. IntakeTypeOK
  <2>1. /\ Idle.step = "idle" /\ Idle.left = {} /\ Idle.known = FALSE
        /\ Idle.target = NoSender /\ Idle.loaded = NoIncident /\ Idle.posts = 0
    BY DEF Idle
  <2>2. Idle \in WorkSet
    BY IntakeNumbers DEF Idle, WorkSet
  <2> QED BY <1>1, <2>2 DEF IntakeInit, IntakeTypeOK, WorkSet
<1>3. \A i : AlertsOf(i) = {}
  BY <1>1 DEF AlertsOf
<1>4. AggregatesAlerts /\ IsFiniteSet(recorded) /\ OpenerRecorded
  BY <1>1, <1>3, FS_EmptySet DEF AggregatesAlerts, OpenerRecorded
<1>5. StormsConverge /\ OnlyCrowdsAreCut
  BY <1>1 DEF StormsConverge, OnlyCrowdsAreCut, Storm, Active, NoIncident
<1>6. \A s \in Sender : OwnLock(s) /\ NoneNear(s) /\ LoadedSound(s)
  BY <1>1 DEF Idle, OwnLock, NoneNear, LoadedSound
<1> QED BY <1>2, <1>4, <1>5, <1>6 DEF IntakeInv

LEMMA IntakeStays == ASSUME IntakeInv, UNCHANGED intakeVars PROVE IntakeInv'
<1>1. /\ alert' = alert /\ incident' = incident /\ recorded' = recorded
      /\ lock' = lock /\ job' = job /\ leftOut' = leftOut
  BY DEF intakeVars
<1>2. SameStorms /\ RowsGoOn
  BY <1>1 DEF SameStorms, RowsGoOn
<1>3. \A t \in Sender : (OwnLock(t) /\ NoneNear(t) /\ LoadedSound(t))'
  BY <1>1, <1>2, StormsKept, OthersGoOn
<1>4. \A i : AlertsOf(i)' = AlertsOf(i)
  BY <1>1 DEF AlertsOf
<1>5. AggregatesAlerts'
  BY <1>1, <1>4 DEF IntakeInv, AggregatesAlerts
<1> QED BY <1>1, <1>2, <1>3, <1>5, StormsKept, CrowdsStay, IntakeParts, IntakeTyped
        DEF IntakeInv, IntakeTypeOK, OpenerRecorded

LEMMA IntakeStep == ASSUME IntakeInv, [IntakeNext]_intakeVars PROVE IntakeInv'
<1>1. ASSUME NEW s \in Sender, Post(s) \/ Handle(s) \/ Abort(s) \/ MoveOn(s) PROVE IntakeInv'
  BY <1>1, PostKeeps, ReceiveKeeps, AcquireKeeps, DecideKeeps, RollbackKeeps, CommitKeeps,
     MoveOnKeeps DEF Handle
<1> QED BY <1>1, IntakeStays DEF IntakeNext

\* Only active incidents are written to, and never back to OPEN.
LEMMA StatusKept == ASSUME IntakeInv, [IntakeNext]_intakeVars PROVE StatusMovesOn
<1>1. ASSUME incident' = incident PROVE StatusMovesOn
  BY <1>1 DEF StatusMovesOn
<1>2. incident \in [Sender -> IncidentRow \cup {NoIncident}]
  BY IntakeParts DEF IntakeInv
<1>3. ASSUME NEW s \in Sender, CommitOpened(s) PROVE StatusMovesOn
  <2>1. incident[s] = NoIncident
    BY <1>3 DEF IntakeInv, OpenerRecorded, CommitOpened, Known
  <2>2. \A i \in Sender \ {s} : incident'[i] = incident[i]
    BY <1>2, <1>3 DEF CommitOpened
  <2> QED BY <2>1, <2>2 DEF StatusMovesOn, NoIncident
<1>4. ASSUME NEW s \in Sender, CommitAttached(s) PROVE StatusMovesOn
  <2> DEFINE k == job[s].target
             newRow == Attached(job[s].loaded, alert[s])
  <2>1. /\ k \in Sender /\ incident[k] = job[s].loaded /\ incident[k].status \in Active
        /\ incident' = [incident EXCEPT ![k] = newRow]
    BY <1>4 DEF IntakeInv, LoadedSound, CommitAttached, RowUnchanged
  <2>2. incident[k] \in IncidentRow
    BY <2>1, Rows DEF IntakeInv, Active, NoIncident
  <2>3. newRow.status = incident[k].status
    BY <2>1, <2>2 DEF Attached, IncidentRow
  <2> HIDE DEF newRow
  <2>4. incident'[k] = newRow /\ \A i \in Sender \ {k} : incident'[i] = incident[i]
    BY <1>2, <2>1
  <2> QED BY <2>1, <2>3, <2>4 DEF StatusMovesOn, Active
<1>5. ASSUME NEW i \in Sender, MoveOn(i) PROVE StatusMovesOn
  <2>1. PICK status \in {"ANALYZING", "RESOLVED"}, now \in incident[i].updated_at..MaxTime :
          incident' = [incident EXCEPT ![i].status = status, ![i].updated_at = now,
                                       ![i].version = incident[i].version + 1]
    BY <1>5 DEF MoveOn
  <2>2. incident[i].status \in Active /\ incident[i] \in IncidentRow
    BY <1>5, Rows DEF MoveOn, IntakeInv, Active, NoIncident
  <2>3. incident'[i].status = status /\ \A j \in Sender \ {i} : incident'[j] = incident[j]
    BY <1>2, <2>1, <2>2 DEF IncidentRow
  <2> QED BY <2>2, <2>3 DEF StatusMovesOn, Active
<1>6. ASSUME NEW s \in Sender, Handle(s) PROVE StatusMovesOn
  BY <1>1, <1>3, <1>4, <1>6 DEF Handle, Receive, Acquire, LockTimesOut, Decide, Commit,
     CommitIgnored, Conflict, Confirm
<1>7. ASSUME NEW s \in Sender, Post(s) \/ Abort(s) PROVE StatusMovesOn
  BY <1>1, <1>7 DEF Post, Abort
<1> QED BY <1>1, <1>5, <1>6, <1>7 DEF IntakeNext, intakeVars
----------------------------------------------------------------------------
\* The inductive invariant: the lock of an alert's own service is held from before the
\* candidates are read until the commit, and what was loaded is the row as long as the
\* version is the same.  alert_service.py:85-155, incident_repository.py:267-291.
THEOREM IntakeInvariant == IntakeSpec => []IntakeInv
<1>1. IntakeInit => IntakeInv
  BY IntakeStarts
<1>2. IntakeInv /\ [IntakeNext]_intakeVars => IntakeInv'
  BY IntakeStep
<1> QED BY <1>1, <1>2, PTL DEF IntakeSpec

\* Alerts, incidents, locks and requests stay what their types say.
THEOREM IntakeTypes == IntakeSpec => []IntakeTypeOK
<1>1. IntakeInv => IntakeTypeOK
  BY DEF IntakeInv
<1> QED BY <1>1, IntakeInvariant, PTL

\* For any number of requests, any ids and topology, and whatever the limit of the query
\* for candidates: one active incident for a storm, unless the query that decided to open
\* one of two left the other out, which it does only of a service that has had more
\* incidents than the limit; the row of an incident tells of the alerts recorded for it,
\* and its status is never taken back by an alert.
\* alert_service.py:85-155, 251-287, incident_repository.py:188-203, 267-291.
THEOREM AlertsAlwaysConverge == IntakeSpec => AlertsConverge
<1>1. IntakeInv => StormsConverge /\ OnlyCrowdsAreCut /\ AggregatesAlerts
  BY DEF IntakeInv
<1>2. IntakeInv /\ [IntakeNext]_intakeVars => [StatusMovesOn]_intakeVars
  BY StatusKept
<1> QED BY <1>1, <1>2, IntakeInvariant, PTL DEF IntakeSpec, AlertsConverge

----------------------------------------------------------------------------
(* Requests: for any number of them, any keys and contents, every            *)
(* idempotency key is honoured once.  A key starts one run, an incident has  *)
(* one active run, a resolution or a closure is made and audited once, and   *)
(* nobody is told of anything else.                                          *)

Situations == {"OPEN", "ANALYZING", "RESOLVED", "CLOSED"}
MarkSet == [key : Key \cup {"none"}, body : Body \cup {"none"}]
RowSet == [status : Situations, updated_at : 0..MaxReading, version : 1..MaxVersion,
           resolution : MarkSet, closure : MarkSet]
RunSet == [status : InProgress \cup {"none", "SUCCEEDED", "FAILED", "CANCELED"},
           key : Key \cup {"none"}, body : Body \cup {"none"}]
Stages == {"idle", "key", "load", "active", "save", "insert", "conflict"}
CallStanding == [step : Stages, version : 0..MaxVersion, status : Situations]
CallSet == [ask : Ask, at : CallStanding]
SlotOf(k) == IF k = "resolve" THEN row.resolution ELSE row.closure

\* A run is the one its request asked for; keys and activity are exclusive.
RunsSound ==
  /\ \A c \in Caller : runs[c] # NoRun =>
       /\ runs[c].status # "none"
       /\ runs[c].key = call[c].ask.key /\ runs[c].body = call[c].ask.body
  /\ \A c, d \in Caller : runs[c] # NoRun /\ runs[c].key = runs[d].key => c = d
  /\ \A c, d \in ActiveRuns : c = d
\* Who asked for an RCA is told of runs under that key and for that content.
ToldSound ==
  \A c \in Caller : call[c].ask.kind = "start" =>
    \A r \in told[c] : /\ r \in Caller /\ runs[r].key = call[c].ask.key
                       /\ runs[r].body = call[c].ask.body
\* What a request has loaded is older than the row, or what the row says.
PlacesSound ==
  \A c \in Caller : /\ call[c].at.version <= row.version
                    /\ call[c].at.version = row.version => call[c].at.status = row.status
\* The slots follow the status; each was filled by the one request that is audited.
SlotsSound ==
  /\ row.status \in {"OPEN", "ANALYZING"} => row.resolution = NoKey
  /\ row.status # "CLOSED" => row.closure = NoKey
AuditSound ==
  \A k \in {"resolve", "close"} :
    /\ SlotOf(k) = NoKey => audit[k] = {}
    /\ SlotOf(k) # NoKey => \E c \in Caller : audit[k] = {c}
    /\ \A c \in Caller : call[c].ask.kind = k /\ told[c] # {} => SlotOf(k) = Mark(c)

AnalysisInv ==
  AnalysisTypeOK /\ RunsSound /\ ToldSound /\ PlacesSound /\ SlotsSound /\ AuditSound
----------------------------------------------------------------------------
LEMMA AnalysisParts ==
  ASSUME AnalysisTypeOK
  PROVE  /\ row \in RowSet /\ runs \in [Caller -> RunSet] /\ call \in [Caller -> CallSet]
         /\ told \in [Caller -> SUBSET (Caller \cup {"resolve", "close"})]
         /\ audit \in [{"resolve", "close"} -> SUBSET Caller]
         /\ row.version \in Nat /\ row.updated_at \in 0..MaxReading
         /\ \A c \in Caller : /\ call[c] \in CallSet /\ call[c].ask \in Ask /\ call[c].at \in CallStanding
                              /\ runs[c] \in RunSet
<1>1. /\ row \in RowSet /\ runs \in [Caller -> RunSet] /\ call \in [Caller -> CallSet]
      /\ told \in [Caller -> SUBSET (Caller \cup {"resolve", "close"})]
      /\ audit \in [{"resolve", "close"} -> SUBSET Caller]
  BY DEF AnalysisTypeOK, RowSet, Situations, MarkSet, RunSet, CallSet, CallStanding, Stages
<1>2. row.version \in Nat /\ row.updated_at \in 0..MaxReading
  BY <1>1 DEF RowSet
<1>3. ASSUME NEW c \in Caller
      PROVE  call[c] \in CallSet /\ call[c].ask \in Ask /\ call[c].at \in CallStanding /\ runs[c] \in RunSet
  BY <1>1 DEF CallSet
<1> QED BY <1>1, <1>2, <1>3

\* What a request asks under is a key, never "none": no mark is an empty slot.
LEMMA MarksAreKeys ==
  ASSUME AnalysisTypeOK, NEW c \in Caller
  PROVE  /\ call[c].ask.kind \in Kinds
         /\ call[c].ask.key \in Key /\ call[c].ask.body \in Body
         /\ call[c].ask.key # "none" /\ Mark(c) # NoKey /\ Mark(c) \in MarkSet
<1>1. call[c].ask \in Ask
  BY AnalysisParts
<1>2. call[c].ask.kind \in Kinds /\ call[c].ask.key \in Key /\ call[c].ask.body \in Body
  BY <1>1 DEF Ask
<1>3. call[c].ask.key # "none"
  BY <1>2, AnalysisAssumption DEF AnalysisAssumption
<1>4. Mark(c).key = call[c].ask.key /\ NoKey.key = "none" /\ Mark(c) \in MarkSet
  BY <1>2 DEF Mark, NoKey, MarkSet
<1> QED BY <1>2, <1>3, <1>4

\* At most one member is at most one in number.
LEMMA OneAtMost ==
  ASSUME NEW S, \A a, b \in S : a = b
  PROVE  Cardinality(S) <= 1
<1>1. Cardinality({}) = 0
  BY FS_EmptySet
<1>2. CASE S = {}
  BY <1>1, <1>2
<1>3. ASSUME NEW a \in S PROVE Cardinality(S) <= 1
  <2>1. S = {a}
    OBVIOUS
  <2> QED BY <2>1, FS_Singleton
<1> QED BY <1>2, <1>3

\* The invariant says at least what is promised.
LEMMA AnalysisInvSuffices == ASSUME AnalysisInv PROVE OncePerKey
<1>1. StartsOnce
  <2>1. Cardinality(ActiveRuns) <= 1
    BY OneAtMost DEF AnalysisInv, RunsSound
  <2> QED BY <2>1 DEF AnalysisInv, RunsSound, ToldSound, StartsOnce
<1>2. ASSUME NEW k \in {"resolve", "close"}
      PROVE  /\ Cardinality(audit[k]) = IF SlotOf(k) = NoKey THEN 0 ELSE 1
             /\ \A c \in Caller : call[c].ask.kind = k /\ told[c] # {} => SlotOf(k) = Mark(c)
  <2>1. /\ SlotOf(k) = NoKey => audit[k] = {}
        /\ SlotOf(k) # NoKey => \E c \in Caller : audit[k] = {c}
        /\ \A c \in Caller : call[c].ask.kind = k /\ told[c] # {} => SlotOf(k) = Mark(c)
    BY DEF AnalysisInv, AuditSound
  <2>2. CASE SlotOf(k) = NoKey
    BY <2>1, <2>2, FS_EmptySet
  <2>3. CASE SlotOf(k) # NoKey
    <3>1. PICK c \in Caller : audit[k] = {c}
      BY <2>1, <2>3
    <3> QED BY <2>1, <2>3, <3>1, FS_Singleton
  <2> QED BY <2>2, <2>3
<1>3. DecisionsAudited
  BY <1>2 DEF DecisionsAudited, SlotOf
<1> QED BY <1>1, <1>3 DEF OncePerKey

LEMMA AnalysisStarts == ASSUME AnalysisInit PROVE AnalysisInv
<1>1. /\ row \in RowSet /\ row.status = "OPEN" /\ row.version = 1
      /\ row.resolution = NoKey /\ row.closure = NoKey
  BY AnalysisAssumption DEF AnalysisInit, RowSet, Situations, MarkSet, NoKey, AnalysisAssumption
<1>2. \A c \in Caller : runs[c] = NoRun /\ runs[c] \in RunSet /\ told[c] = {}
  BY DEF AnalysisInit, NoRun, RunSet
<1>3. Waiting \in CallStanding /\ Waiting.version = 0
  BY AnalysisAssumption DEF Waiting, CallStanding, Stages, Situations, AnalysisAssumption
<1>4. ASSUME NEW c \in Caller PROVE call[c] \in CallSet /\ call[c].at = Waiting
  <2>1. PICK a \in Ask : call[c] = [ask |-> a, at |-> Waiting]
    BY DEF AnalysisInit
  <2> QED BY <2>1, <1>3 DEF CallSet
<1>5. AnalysisTypeOK
  <2>1. call \in [Caller -> CallSet]
    BY <1>4 DEF AnalysisInit
  <2>2. runs \in [Caller -> RunSet] /\ audit \in [{"resolve", "close"} -> SUBSET Caller]
        /\ told \in [Caller -> SUBSET (Caller \cup {"resolve", "close"})]
    BY <1>2 DEF AnalysisInit
  <2> QED BY <1>1, <2>1, <2>2
          DEF AnalysisTypeOK, RowSet, Situations, MarkSet, RunSet, CallSet, CallStanding, Stages
<1>6. RunsSound /\ ToldSound
  <2>1. ActiveRuns = {}
    BY <1>2 DEF ActiveRuns, NoRun, InProgress
  <2> QED BY <1>2, <2>1 DEF RunsSound, ToldSound
<1>7. PlacesSound /\ SlotsSound
  BY <1>1, <1>3, <1>4 DEF PlacesSound, SlotsSound
<1>8. AuditSound
  BY <1>1, <1>2 DEF AuditSound, SlotOf, AnalysisInit
<1> QED BY <1>5, <1>6, <1>7, <1>8 DEF AnalysisInv
----------------------------------------------------------------------------
(* What the parts need of a step.                                          *)

\* The requests move: each keeps what it asks, and stands where it stood, at the
\* beginning, or at what the row says now.
CallStep ==
  /\ call' \in [Caller -> CallSet]
  /\ \A d \in Caller :
       /\ call'[d].ask = call[d].ask
       /\ \/ /\ call'[d].at.version = call[d].at.version
             /\ call'[d].at.status = call[d].at.status
          \/ call'[d].at.version = 0
          \/ call'[d].at.version = row.version /\ call'[d].at.status = row.status

LEMMA GotoIsCallStep ==
  ASSUME AnalysisTypeOK, NEW c \in Caller, NEW step \in Stages, Goto(c, step)
  PROVE  CallStep
<1>1. call \in [Caller -> CallSet] /\ call[c] \in CallSet /\ call[c].at \in CallStanding
  BY AnalysisParts
<1> DEFINE new == [call[c] EXCEPT !.at = [call[c].at EXCEPT !.step = step]]
<1>2. /\ new \in CallSet /\ new.ask = call[c].ask
      /\ new.at.version = call[c].at.version /\ new.at.status = call[c].at.status
  BY <1>1 DEF CallSet, CallStanding
<1>3. call' = [call EXCEPT ![c] = new]
  BY DEF Goto
<1> HIDE DEF new
<1> QED BY <1>1, <1>2, <1>3 DEF CallStep

LEMMA WaitingIsCallStep ==
  ASSUME AnalysisTypeOK, NEW c \in Caller, call' = [call EXCEPT ![c].at = Waiting]
  PROVE  CallStep
<1>1. call \in [Caller -> CallSet] /\ call[c] \in CallSet
  BY AnalysisParts
<1>2. Waiting \in CallStanding /\ Waiting.version = 0
  BY AnalysisAssumption DEF Waiting, CallStanding, Stages, Situations, AnalysisAssumption
<1> DEFINE new == [call[c] EXCEPT !.at = Waiting]
<1>3. new \in CallSet /\ new.ask = call[c].ask /\ new.at.version = 0
  BY <1>1, <1>2 DEF CallSet
<1>4. call' = [call EXCEPT ![c] = new]
  OBVIOUS
<1> HIDE DEF new
<1> QED BY <1>1, <1>3, <1>4 DEF CallStep

LEMMA LoadedIsCallStep ==
  ASSUME AnalysisTypeOK, NEW c \in Caller, Loaded(c)
  PROVE  CallStep
<1>1. call \in [Caller -> CallSet] /\ call[c] \in CallSet /\ row \in RowSet
  BY AnalysisParts
<1> DEFINE there == [step |-> "active", version |-> row.version, status |-> row.status]
           new == [call[c] EXCEPT !.at = there]
<1>2. there \in CallStanding /\ there.version = row.version /\ there.status = row.status
  BY <1>1, AnalysisAssumption DEF RowSet, CallStanding, Stages, AnalysisAssumption
<1> HIDE DEF there
<1>3. new \in CallSet /\ new.ask = call[c].ask /\ new.at = there
  BY <1>1, <1>2 DEF CallSet
<1>4. call' = [call EXCEPT ![c] = new]
  BY DEF Loaded, there
<1> HIDE DEF new
<1> QED BY <1>1, <1>2, <1>3, <1>4 DEF CallStep

\* Versions only grow, so what was loaded before a change is told from the row by it.
LEMMA PlacesKept ==
  ASSUME AnalysisInv, CallStep, row' \in RowSet, row' = row \/ row'.version = row.version + 1
  PROVE  PlacesSound'
<1> SUFFICES ASSUME NEW c \in Caller
             PROVE  /\ call'[c].at.version <= row'.version
                    /\ call'[c].at.version = row'.version => call'[c].at.status = row'.status
  BY DEF PlacesSound
<1>1. /\ call[c].at.version <= row.version
      /\ call[c].at.version = row.version => call[c].at.status = row.status
      /\ call[c].at.version \in Nat /\ row.version \in Nat \ {0} /\ row'.version \in Nat
  <2>1. call[c].at \in CallStanding /\ row \in RowSet
    BY AnalysisParts DEF AnalysisInv
  <2>2. call[c].at.version \in Nat /\ row.version \in Nat \ {0} /\ row'.version \in Nat
    BY <2>1 DEF CallStanding, RowSet
  <2> QED BY <2>2 DEF AnalysisInv, PlacesSound
<1>2. CASE call'[c].at.version = call[c].at.version /\ call'[c].at.status = call[c].at.status
  BY <1>1, <1>2
<1>3. CASE call'[c].at.version = 0
  BY <1>1, <1>3
<1>4. CASE call'[c].at.version = row.version /\ call'[c].at.status = row.status
  BY <1>1, <1>4
<1> QED BY <1>2, <1>3, <1>4 DEF CallStep

LEMMA TypesKept ==
  ASSUME row' \in RowSet, runs' \in [Caller -> RunSet], call' \in [Caller -> CallSet],
         told' \in [Caller -> SUBSET (Caller \cup {"resolve", "close"})],
         audit' \in [{"resolve", "close"} -> SUBSET Caller]
  PROVE  AnalysisTypeOK'
  BY DEF AnalysisTypeOK, RowSet, Situations, MarkSet, RunSet, CallSet, CallStanding, Stages

\* Marks are of what is asked.
LEMMA MarksKept ==
  ASSUME CallStep, NEW c \in Caller
  PROVE  Mark(c)' = Mark(c)
  BY DEF CallStep, Mark

LEMMA RunsKept == ASSUME AnalysisInv, CallStep, runs' = runs PROVE RunsSound'
<1>1. ActiveRuns' = ActiveRuns
  BY DEF ActiveRuns
<1> QED BY <1>1 DEF AnalysisInv, RunsSound, CallStep

\* A step that answers nothing and decides nothing: the request moves, that is all.
LEMMA QuietStep ==
  ASSUME AnalysisInv, CallStep, row' = row, runs' = runs, audit' = audit, told' = told
  PROVE  AnalysisInv'
<1>1. AnalysisTypeOK' /\ RunsSound' /\ PlacesSound'
  BY AnalysisParts, TypesKept, RunsKept, PlacesKept DEF AnalysisInv, CallStep
<1>2. ToldSound'
  BY DEF AnalysisInv, ToldSound, CallStep
<1>3. SlotsSound'
  BY DEF AnalysisInv, SlotsSound
<1>4. AuditSound'
  <2>1. \A k : SlotOf(k)' = SlotOf(k)
    BY DEF SlotOf
  <2> QED BY <2>1, MarksKept DEF AnalysisInv, AuditSound, CallStep
<1> QED BY <1>1, <1>2, <1>3, <1>4 DEF AnalysisInv

\* An answer from what the rows say already.
LEMMA AnswerStep ==
  ASSUME AnalysisInv, NEW c \in Caller, NEW what \in Caller \cup {"resolve", "close"},
         Answer(c, what), row' = row, runs' = runs, audit' = audit,
         call[c].ask.kind = "start" =>
           /\ what \in Caller
           /\ runs[what].key = call[c].ask.key /\ runs[what].body = call[c].ask.body,
         \A k \in {"resolve", "close"} : call[c].ask.kind = k => SlotOf(k) = Mark(c)
  PROVE  AnalysisInv'
<1>1. CallStep
  BY WaitingIsCallStep DEF AnalysisInv, Answer
<1>2. /\ told \in [Caller -> SUBSET (Caller \cup {"resolve", "close"})]
      /\ told' = [told EXCEPT ![c] = told[c] \cup {what}]
  BY AnalysisParts DEF AnalysisInv, Answer
<1>3. told'[c] = told[c] \cup {what} /\ \A d \in Caller \ {c} : told'[d] = told[d]
  BY <1>2
<1>4. AnalysisTypeOK' /\ RunsSound' /\ PlacesSound'
  <2>1. told' \in [Caller -> SUBSET (Caller \cup {"resolve", "close"})]
    BY <1>2
  <2> QED BY <1>1, <2>1, AnalysisParts, TypesKept, RunsKept, PlacesKept DEF AnalysisInv, CallStep
<1>5. ToldSound'
  BY <1>1, <1>3 DEF AnalysisInv, ToldSound, CallStep
<1>6. SlotsSound'
  BY DEF AnalysisInv, SlotsSound
<1>7. AuditSound'
  <2>1. \A k : SlotOf(k)' = SlotOf(k)
    BY DEF SlotOf
  <2>2. ASSUME NEW k \in {"resolve", "close"}, NEW d \in Caller, call[d].ask.kind = k, told'[d] # {}
        PROVE  SlotOf(k) = Mark(d)
    BY <2>2, <1>3 DEF AnalysisInv, AuditSound
  <2> QED BY <1>1, <2>1, <2>2, MarksKept DEF AnalysisInv, AuditSound, CallStep
<1> QED BY <1>4, <1>5, <1>6, <1>7 DEF AnalysisInv
----------------------------------------------------------------------------
(* Starting an RCA.                                                        *)

\* The insert of a run: the unique indexes let it in only if its key is new and no run
\* is active, whatever was looked up before.
LEMMA InsertStep ==
  ASSUME AnalysisInv, NEW c \in Caller, call[c].ask.kind = "start", Insertable(c),
         runs' = [runs EXCEPT ![c] = NewRun(c)], Committed(c, c), audit' = audit,
         row' \in RowSet, row' = row \/ row'.version = row.version + 1,
         row'.resolution = row.resolution, row'.closure = row.closure,
         \/ row'.status = row.status
         \/ {row.status, row'.status} \subseteq {"OPEN", "ANALYZING"}
  PROVE  AnalysisInv'
<1>1. /\ CallStep
      /\ told' = told \/ told' = [told EXCEPT ![c] = told[c] \cup {c}]
  BY WaitingIsCallStep DEF AnalysisInv, Committed, Answer, Refuse
<1>2. /\ runs \in [Caller -> RunSet] /\ told \in [Caller -> SUBSET (Caller \cup {"resolve", "close"})]
      /\ audit \in [{"resolve", "close"} -> SUBSET Caller]
      /\ call[c].ask.key \in Key /\ call[c].ask.body \in Body /\ call[c].ask.key # "none"
  BY AnalysisParts, MarksAreKeys DEF AnalysisInv
<1>3. /\ NewRun(c) \in RunSet /\ NewRun(c).status = "PENDING"
      /\ NewRun(c).key = call[c].ask.key /\ NewRun(c).body = call[c].ask.body
  BY <1>2 DEF NewRun, RunSet, InProgress
<1>4. runs'[c] = NewRun(c) /\ \A d \in Caller \ {c} : runs'[d] = runs[d]
  BY <1>2
<1>5. \A d \in Caller : runs[d].key # call[c].ask.key
  BY DEF Insertable, UniqueKey, RunsUnder
<1>6. \A d \in Caller : runs[d].status \notin InProgress
  BY DEF Insertable, ActiveRuns
<1>7. AnalysisTypeOK' /\ PlacesSound'
  <2>1. runs' \in [Caller -> RunSet]
    BY <1>2, <1>3
  <2>2. told' \in [Caller -> SUBSET (Caller \cup {"resolve", "close"})]
    BY <1>1, <1>2
  <2> QED BY <1>1, <1>2, <2>1, <2>2, TypesKept, PlacesKept DEF CallStep
<1>8. RunsSound'
  <2>1. \A d \in Caller : runs'[d] # NoRun =>
          /\ runs'[d].status # "none"
          /\ runs'[d].key = call'[d].ask.key /\ runs'[d].body = call'[d].ask.body
    BY <1>1, <1>3, <1>4 DEF AnalysisInv, RunsSound, CallStep
  <2>2. ASSUME NEW d \in Caller, NEW e \in Caller, runs'[d] # NoRun, runs'[d].key = runs'[e].key
        PROVE  d = e
    BY <2>2, <1>3, <1>4, <1>5 DEF AnalysisInv, RunsSound
  <2>3. \A d \in ActiveRuns' : d = c
    BY <1>4, <1>6 DEF ActiveRuns
  <2> QED BY <2>1, <2>2, <2>3 DEF RunsSound
<1>9. ToldSound'
  <2> SUFFICES ASSUME NEW d \in Caller, call'[d].ask.kind = "start", NEW r \in told'[d]
               PROVE  /\ r \in Caller /\ runs'[r].key = call'[d].ask.key
                      /\ runs'[r].body = call'[d].ask.body
    BY DEF ToldSound
  <2>1. call'[d].ask = call[d].ask
    BY <1>1 DEF CallStep
  <2>2. CASE r \in told[d]
    <3>1. r \in Caller /\ runs[r].key = call[d].ask.key /\ runs[r].body = call[d].ask.body
      BY <2>1, <2>2 DEF AnalysisInv, ToldSound
    <3>2. r # c
      <4>1. SUFFICES ASSUME r = c PROVE FALSE
        OBVIOUS
      <4>2. runs[c] # NoRun
        BY <3>1, <4>1, MarksAreKeys DEF AnalysisInv, NoRun
      <4>3. runs[c].key = call[c].ask.key
        BY <4>2 DEF AnalysisInv, RunsSound
      <4> QED BY <4>3, <1>5
    <3> QED BY <2>1, <3>1, <3>2, <1>4
  <2>3. CASE r \notin told[d]
    <3>1. r = c /\ d = c
      BY <2>3, <1>1, <1>2
    <3> QED BY <2>1, <3>1, <1>3, <1>4
  <2> QED BY <2>2, <2>3
<1>10. SlotsSound'
  BY DEF AnalysisInv, SlotsSound
<1>11. AuditSound'
  <2>1. \A k : SlotOf(k)' = SlotOf(k)
    BY DEF SlotOf
  <2>2. \A k \in {"resolve", "close"} : \A d \in Caller : call[d].ask.kind = k => told'[d] = told[d]
    BY <1>1, <1>2
  <2> QED BY <1>1, <2>1, <2>2, MarksKept DEF AnalysisInv, AuditSound, CallStep
<1> QED BY <1>7, <1>8, <1>9, <1>10, <1>11 DEF AnalysisInv

LEMMA ReplayStep ==
  ASSUME AnalysisInv, NEW c \in Caller, call[c].ask.kind = "start", row' = row, runs' = runs,
         audit' = audit,
         NEW r \in RunsUnder(call[c].ask.key), Replay(c, r)
  PROVE  AnalysisInv'
<1>1. r \in Caller /\ runs[r].key = call[c].ask.key
  BY DEF RunsUnder
<1>2. CASE Answer(c, r) /\ runs[r].body = call[c].ask.body
  BY <1>1, <1>2, AnswerStep
<1>3. CASE Refuse(c)
  BY <1>3, WaitingIsCallStep, QuietStep DEF AnalysisInv, Refuse
<1> QED BY <1>2, <1>3 DEF Replay

LEMMA StartKeeps ==
  ASSUME AnalysisInv, NEW c \in Caller,
         \/ StartLooksUpKey(c) \/ StartLoads(c) \/ ChecksActive(c) \/ StartCommits(c)
         \/ StartSavesUnchanged(c) \/ StartInserts(c) \/ StartConflicts(c) \/ StartRecovers(c)
  PROVE  AnalysisInv'
<1>0. AnalysisTypeOK /\ row \in RowSet
  BY AnalysisParts DEF AnalysisInv
<1>1. CASE StartLooksUpKey(c)
  <2>0. call[c].ask.kind = "start" /\ row' = row /\ runs' = runs /\ audit' = audit
    BY <1>1 DEF StartLooksUpKey, At
  <2>1. CASE Goto(c, "load") /\ told' = told
    BY <1>0, <2>0, <2>1, GotoIsCallStep, QuietStep DEF Stages
  <2>2. CASE \E r \in RunsUnder(call[c].ask.key) : Replay(c, r)
    BY <2>0, <2>2, ReplayStep
  <2> QED BY <1>1, <2>1, <2>2 DEF StartLooksUpKey
<1>2. CASE StartLoads(c)
  BY <1>0, <1>2, LoadedIsCallStep, QuietStep DEF StartLoads
<1>3. CASE ChecksActive(c)
  <2>1. PICK s \in Stages : Goto(c, s)
    BY <1>3 DEF ChecksActive, Stages
  <2> QED BY <1>0, <1>3, <2>1, GotoIsCallStep, QuietStep DEF ChecksActive
<1>4. CASE StartCommits(c)
  <2>1. /\ call[c].ask.kind = "start" /\ call[c].at.status = "OPEN" /\ Fresh(c) /\ Insertable(c)
        /\ runs' = [runs EXCEPT ![c] = NewRun(c)] /\ Committed(c, c) /\ audit' = audit
        /\ row.version < MaxVersion
    BY <1>4 DEF StartCommits, At
  <2>2. PICK now \in row.updated_at..MaxReading :
          row' = [row EXCEPT !.status = "ANALYZING", !.updated_at = now, !.version = row.version + 1]
    BY <1>4 DEF StartCommits
  <2>3. row.status = "OPEN"
    BY <2>1 DEF AnalysisInv, PlacesSound, Fresh
  <2>4. now \in 0..MaxReading /\ row.version + 1 \in 1..MaxVersion
    BY <1>0, <2>1, AnalysisAssumption DEF RowSet, AnalysisAssumption
  <2>5. /\ row' \in RowSet /\ row'.version = row.version + 1 /\ row'.status = "ANALYZING"
        /\ row'.resolution = row.resolution /\ row'.closure = row.closure
    BY <1>0, <2>2, <2>4 DEF RowSet, Situations
  <2> QED BY <2>1, <2>3, <2>5, InsertStep
<1>5. CASE StartSavesUnchanged(c)
  BY <1>0, <1>5, GotoIsCallStep, QuietStep DEF StartSavesUnchanged, Stages
<1>6. CASE StartInserts(c)
  <2>1. /\ call[c].ask.kind = "start" /\ Insertable(c) /\ row' = row /\ audit' = audit
        /\ runs' = [runs EXCEPT ![c] = NewRun(c)] /\ Committed(c, c)
    BY <1>6 DEF StartInserts, At
  <2> QED BY <1>0, <2>1, InsertStep
<1>7. CASE StartConflicts(c)
  BY <1>0, <1>7, GotoIsCallStep, QuietStep DEF StartConflicts, Stages
<1>8. CASE StartRecovers(c)
  <2>0. call[c].ask.kind = "start" /\ row' = row /\ runs' = runs /\ audit' = audit
    BY <1>8 DEF StartRecovers, At
  <2>1. CASE Refuse(c)
    BY <1>0, <2>0, <2>1, WaitingIsCallStep, QuietStep DEF Refuse
  <2>2. CASE \E r \in RunsUnder(call[c].ask.key) : Replay(c, r)
    BY <2>0, <2>2, ReplayStep
  <2> QED BY <1>8, <2>1, <2>2 DEF StartRecovers
<1> QED BY <1>1, <1>2, <1>3, <1>4, <1>5, <1>6, <1>7, <1>8
----------------------------------------------------------------------------
(* Resolving and closing.                                                  *)

LEMMA SlotIsSlotOf ==
  ASSUME NEW c \in Caller, call[c].ask.kind \in {"resolve", "close"}
  PROVE  Slot(c) = SlotOf(call[c].ask.kind)
  BY DEF Slot, SlotOf

LEMMA ReplayDecisionStep ==
  ASSUME AnalysisInv, NEW c \in Caller, call[c].ask.kind \in {"resolve", "close"},
         ReplayDecision(c), row' = row, runs' = runs, audit' = audit
  PROVE  AnalysisInv'
<1>1. CASE Slot(c) = Mark(c) /\ Answer(c, call[c].ask.kind)
  BY <1>1, SlotIsSlotOf, AnswerStep
<1>2. CASE Refuse(c)
  BY <1>2, WaitingIsCallStep, QuietStep DEF AnalysisInv, Refuse
<1> QED BY <1>1, <1>2 DEF ReplayDecision

\* The save under the version: what was loaded is what the row says, so its slot is
\* still empty, nothing is audited yet, and nobody was told.
LEMMA DecisionCommitKeeps ==
  ASSUME AnalysisInv, NEW c \in Caller, DecisionCommits(c)
  PROVE  AnalysisInv'
<1>0. PICK k \in {"resolve", "close"} : k = call[c].ask.kind
  BY DEF DecisionCommits, At
<1>1. /\ k \in {"resolve", "close"} /\ Decidable(c) /\ Fresh(c) /\ row.version < MaxVersion
      /\ audit' = [audit EXCEPT ![k] = audit[k] \cup {c}] /\ Committed(c, k) /\ runs' = runs
  BY <1>0 DEF DecisionCommits, At, MaySave
<1>2. PICK now \in row.updated_at..MaxReading : row' = Decided(c, now)
  BY DEF DecisionCommits
<1>3. /\ row \in RowSet /\ runs \in [Caller -> RunSet] /\ AnalysisTypeOK
      /\ told \in [Caller -> SUBSET (Caller \cup {"resolve", "close"})]
      /\ audit \in [{"resolve", "close"} -> SUBSET Caller]
      /\ Mark(c) \in MarkSet /\ Mark(c) # NoKey
  BY AnalysisParts, MarksAreKeys DEF AnalysisInv
<1>4. /\ CallStep
      /\ told' = told \/ told' = [told EXCEPT ![c] = told[c] \cup {k}]
  BY <1>1, <1>3, WaitingIsCallStep DEF Committed, Answer, Refuse
<1>5. row.status = call[c].at.status
  BY <1>1 DEF AnalysisInv, PlacesSound, Fresh
<1>6. /\ SlotOf(k) = NoKey
      /\ k = "resolve" => row.status \in {"OPEN", "ANALYZING"}
      /\ k = "close" => row.status = "RESOLVED"
  <2>1. /\ k = "resolve" => row.status \in {"OPEN", "ANALYZING"}
        /\ k = "close" => row.status = "RESOLVED"
    BY <1>0, <1>1, <1>5 DEF Decidable
  <2> QED BY <1>1, <2>1 DEF AnalysisInv, SlotsSound, SlotOf
<1>7. now \in 0..MaxReading /\ row.version + 1 \in 1..MaxVersion
  BY <1>1, <1>3, AnalysisAssumption DEF RowSet, AnalysisAssumption
<1>8. /\ row' \in RowSet /\ row'.version = row.version + 1
      /\ k = "resolve" => /\ row'.status = "RESOLVED" /\ row'.resolution = Mark(c)
                          /\ row'.closure = row.closure
      /\ k = "close" => /\ row'.status = "CLOSED" /\ row'.closure = Mark(c)
                        /\ row'.resolution = row.resolution
  <2>1. CASE k = "resolve"
    <3>1. row' = [row EXCEPT !.status = "RESOLVED", !.updated_at = now, !.version = row.version + 1,
                             !.resolution = Mark(c)]
      BY <1>0, <1>2, <2>1 DEF Decided
    <3> QED BY <1>3, <1>7, <2>1, <3>1 DEF RowSet, Situations
  <2>2. CASE k = "close"
    <3>1. row' = [row EXCEPT !.status = "CLOSED", !.updated_at = now, !.version = row.version + 1,
                             !.closure = Mark(c)]
      BY <1>0, <1>2, <2>2 DEF Decided
    <3> QED BY <1>3, <1>7, <2>2, <3>1 DEF RowSet, Situations
  <2> QED BY <1>1, <2>1, <2>2
<1>9. /\ SlotOf(k)' = Mark(c)
      /\ \A o \in {"resolve", "close"} \ {k} : SlotOf(o)' = SlotOf(o)
  BY <1>1, <1>8 DEF SlotOf
<1>10. AnalysisTypeOK' /\ RunsSound' /\ PlacesSound'
  <2>1. told' \in [Caller -> SUBSET (Caller \cup {"resolve", "close"})]
    BY <1>1, <1>3, <1>4
  <2>2. audit' \in [{"resolve", "close"} -> SUBSET Caller]
    BY <1>1, <1>3
  <2> QED BY <1>1, <1>3, <1>4, <1>8, <2>1, <2>2, TypesKept, RunsKept, PlacesKept DEF CallStep
<1>11. ToldSound'
  <2>1. \A d \in Caller : call[d].ask.kind = "start" => told'[d] = told[d]
    BY <1>0, <1>3, <1>4
  <2> QED BY <1>1, <1>4, <2>1 DEF AnalysisInv, ToldSound, CallStep
<1>12. SlotsSound'
  BY <1>1, <1>6, <1>8 DEF AnalysisInv, SlotsSound
<1>13. AuditSound'
  <2> SUFFICES ASSUME NEW o \in {"resolve", "close"}
               PROVE  /\ SlotOf(o)' = NoKey => audit'[o] = {}
                      /\ SlotOf(o)' # NoKey => \E d \in Caller : audit'[o] = {d}
                      /\ \A d \in Caller : call'[d].ask.kind = o /\ told'[d] # {} =>
                           SlotOf(o)' = Mark(d)'
    BY DEF AuditSound
  <2>1. CASE o = k
    <3>1. audit[k] = {} /\ \A d \in Caller : call[d].ask.kind = k => told[d] = {}
      BY <1>1, <1>3, <1>6, MarksAreKeys DEF AnalysisInv, AuditSound
    <3>2. audit'[k] = {c}
      BY <1>1, <1>3, <3>1
    <3>3. ASSUME NEW d \in Caller, call'[d].ask.kind = k, told'[d] # {} PROVE d = c
      BY <1>0, <3>1, <3>3, <1>3, <1>4 DEF CallStep
    <3>4. SlotOf(o)' = Mark(c)
      BY <2>1, <1>9 DEF SlotOf
    <3>5. Mark(c)' = Mark(c)
      BY <1>4, MarksKept
    <3> QED BY <2>1, <3>2, <3>3, <3>4, <3>5, <1>3
  <2>2. CASE o # k
    <3>1. audit'[o] = audit[o]
      BY <1>1, <1>3, <2>2
    <3>2. \A d \in Caller : call[d].ask.kind = o => told'[d] = told[d]
      BY <1>0, <1>3, <1>4, <2>2
    <3> QED BY <2>2, <3>1, <3>2, <1>4, <1>9, MarksKept DEF AnalysisInv, AuditSound, CallStep
  <2> QED BY <2>1, <2>2
<1> QED BY <1>10, <1>11, <1>12, <1>13 DEF AnalysisInv

LEMMA DecisionKeeps ==
  ASSUME AnalysisInv, NEW c \in Caller,
         \/ DecisionLoads(c) \/ DecisionCommits(c) \/ DecisionConflicts(c) \/ DecisionRecovers(c)
  PROVE  AnalysisInv'
<1>0. AnalysisTypeOK
  BY DEF AnalysisInv
<1>1. CASE DecisionLoads(c)
  <2>0. call[c].ask.kind \in {"resolve", "close"} /\ row' = row /\ runs' = runs /\ audit' = audit
    BY <1>1 DEF DecisionLoads, At
  <2>1. CASE ReplayDecision(c)
    BY <2>0, <2>1, ReplayDecisionStep
  <2>2. CASE Goto(c, "conflict") /\ told' = told
    BY <1>0, <2>0, <2>2, GotoIsCallStep, QuietStep DEF Stages
  <2>3. CASE Loaded(c) /\ told' = told
    BY <1>0, <2>0, <2>3, LoadedIsCallStep, QuietStep
  <2> QED BY <1>1, <2>1, <2>2, <2>3 DEF DecisionLoads
<1>2. CASE DecisionCommits(c)
  BY <1>2, DecisionCommitKeeps
<1>3. CASE DecisionConflicts(c)
  BY <1>0, <1>3, GotoIsCallStep, QuietStep DEF DecisionConflicts, Stages
<1>4. CASE DecisionRecovers(c)
  <2>0. call[c].ask.kind \in {"resolve", "close"} /\ row' = row /\ runs' = runs /\ audit' = audit
    BY <1>4 DEF DecisionRecovers, At
  <2>1. CASE ReplayDecision(c)
    BY <2>0, <2>1, ReplayDecisionStep
  <2>2. CASE Refuse(c)
    BY <1>0, <2>0, <2>2, WaitingIsCallStep, QuietStep DEF Refuse
  <2> QED BY <1>4, <2>1, <2>2 DEF DecisionRecovers
<1> QED BY <1>1, <1>2, <1>3, <1>4
----------------------------------------------------------------------------
(* Alerts that attach, runs that move on, and all that breaks off.          *)

LEMMA AttachKeeps == ASSUME AnalysisInv, Attach PROVE AnalysisInv'
<1>1. /\ row \in RowSet /\ row.version < MaxVersion
      /\ runs' = runs /\ call' = call /\ audit' = audit /\ told' = told
  BY AnalysisParts DEF AnalysisInv, Attach
<1>2. PICK now \in row.updated_at..MaxReading :
        row' = [row EXCEPT !.updated_at = now, !.version = row.version + 1]
  BY DEF Attach
<1>3. now \in 0..MaxReading /\ row.version + 1 \in 1..MaxVersion
  BY <1>1, AnalysisAssumption DEF RowSet, AnalysisAssumption
<1>4. /\ row' \in RowSet /\ row'.version = row.version + 1 /\ row'.status = row.status
      /\ row'.resolution = row.resolution /\ row'.closure = row.closure
  BY <1>1, <1>2, <1>3 DEF RowSet
<1>5. CallStep
  BY <1>1, AnalysisParts DEF AnalysisInv, CallStep
<1>6. AnalysisTypeOK' /\ RunsSound' /\ PlacesSound'
  BY <1>1, <1>4, <1>5, AnalysisParts, TypesKept, RunsKept, PlacesKept DEF AnalysisInv
<1>7. ToldSound' /\ SlotsSound'
  BY <1>1, <1>4 DEF AnalysisInv, ToldSound, SlotsSound
<1>8. AuditSound'
  <2>1. \A k : SlotOf(k)' = SlotOf(k)
    BY <1>4 DEF SlotOf
  <2> QED BY <1>1, <1>5, <2>1, MarksKept DEF AnalysisInv, AuditSound
<1> QED BY <1>6, <1>7, <1>8 DEF AnalysisInv

LEMMA RunMovesKeeps ==
  ASSUME AnalysisInv, NEW r \in Caller, RunMoves(r) PROVE AnalysisInv'
<1>1. /\ row' = row /\ call' = call /\ audit' = audit /\ told' = told
      /\ runs[r].status \in InProgress
  BY DEF RunMoves, InProgress
<1>2. PICK s \in {"RUNNING", "SUCCEEDED", "FAILED", "CANCELED"} :
        runs' = [runs EXCEPT ![r].status = s]
  BY DEF RunMoves
<1>3. runs \in [Caller -> RunSet] /\ runs[r] \in RunSet
  BY AnalysisParts DEF AnalysisInv
<1> DEFINE new == [runs[r] EXCEPT !.status = s]
<1>4. /\ new \in RunSet /\ new.status = s /\ new.key = runs[r].key /\ new.body = runs[r].body
  BY <1>3 DEF RunSet, InProgress
<1>5. runs'[r] = new /\ \A d \in Caller \ {r} : runs'[d] = runs[d]
  BY <1>2, <1>3
<1>6. runs' \in [Caller -> RunSet]
  BY <1>2, <1>3, <1>4
<1> HIDE DEF new
<1>7. \A d \in Caller : runs'[d].key = runs[d].key /\ runs'[d].body = runs[d].body
  BY <1>4, <1>5
<1>8. \A d \in Caller : runs'[d] # NoRun => runs[d] # NoRun
  BY <1>1, <1>5 DEF NoRun, InProgress
<1>9. CallStep
  BY <1>1, AnalysisParts DEF AnalysisInv, CallStep
<1>10. AnalysisTypeOK' /\ PlacesSound'
  BY <1>1, <1>6, <1>9, AnalysisParts, TypesKept, PlacesKept DEF AnalysisInv
<1>11. RunsSound'
  <2>1. \A d \in Caller : runs'[d] # NoRun =>
          /\ runs'[d].status # "none"
          /\ runs'[d].key = call'[d].ask.key /\ runs'[d].body = call'[d].ask.body
    BY <1>1, <1>4, <1>5, <1>7, <1>8 DEF AnalysisInv, RunsSound
  <2>2. \A d, e \in Caller : runs'[d] # NoRun /\ runs'[d].key = runs'[e].key => d = e
    BY <1>7, <1>8 DEF AnalysisInv, RunsSound
  <2>3. ActiveRuns' \subseteq ActiveRuns
    BY <1>1, <1>5 DEF ActiveRuns
  <2> QED BY <2>1, <2>2, <2>3 DEF AnalysisInv, RunsSound
<1>12. ToldSound' /\ SlotsSound'
  BY <1>1, <1>7 DEF AnalysisInv, ToldSound, SlotsSound
<1>13. AuditSound'
  <2>1. \A k : SlotOf(k)' = SlotOf(k)
    BY <1>1 DEF SlotOf
  <2> QED BY <1>1, <1>9, <2>1, MarksKept DEF AnalysisInv, AuditSound
<1> QED BY <1>10, <1>11, <1>12, <1>13 DEF AnalysisInv

LEMMA AnalysisStays == ASSUME AnalysisInv, UNCHANGED analysisVars PROVE AnalysisInv'
<1>1. row' = row /\ runs' = runs /\ call' = call /\ audit' = audit /\ told' = told
  BY DEF analysisVars
<1>2. CallStep
  BY <1>1, AnalysisParts DEF AnalysisInv, CallStep
<1> QED BY <1>1, <1>2, QuietStep

LEMMA RequestKeeps ==
  ASSUME AnalysisInv, NEW c \in Caller, Call(c) \/ Handler(c) \/ Fails(c) PROVE AnalysisInv'
<1>0. AnalysisTypeOK
  BY DEF AnalysisInv
<1>1. CASE Call(c)
  <2>1. PICK s \in Stages : Goto(c, s)
    BY <1>1 DEF Call, Stages
  <2> QED BY <1>0, <1>1, <2>1, GotoIsCallStep, QuietStep DEF Call
<1>2. CASE Handler(c)
  BY <1>2, StartKeeps, DecisionKeeps DEF Handler
<1>3. CASE Fails(c)
  BY <1>0, <1>3, WaitingIsCallStep, QuietStep DEF Fails, Refuse
<1> QED BY <1>1, <1>2, <1>3

\* The invariant holds in every state that can be reached.
THEOREM AnalysisInvariant == AnalysisSpec => []AnalysisInv
<1>1. AnalysisInit => AnalysisInv
  BY AnalysisStarts
<1>2. ASSUME AnalysisInv, [AnalysisNext]_analysisVars PROVE AnalysisInv'
  BY <1>2, AttachKeeps, RunMovesKeeps, RequestKeeps, AnalysisStays DEF AnalysisNext
<1> QED BY <1>1, <1>2, PTL DEF AnalysisSpec

\* The incident, its runs, the requests and the answers keep their types.
THEOREM AnalysisTypes == AnalysisSpec => []AnalysisTypeOK
<1>1. AnalysisInv => AnalysisTypeOK
  BY DEF AnalysisInv
<1> QED BY <1>1, AnalysisInvariant, PTL

\* Every key is honoured once: one run per key and one active run per incident, one
\* resolution and one closure, each audited once, and each caller is told of what was
\* done for its own key and content only, through races, lost answers and repeats.
THEOREM KeysAreHonouredOnce == AnalysisSpec => []OncePerKey
<1>1. AnalysisInv => OncePerKey
  BY AnalysisInvSuffices
<1> QED BY <1>1, AnalysisInvariant, PTL

----------------------------------------------------------------------------
(* Audit trails: whatever the number of runs, purgers and readers, the trail *)
(* of a run is whole until it is marked as purged, and what a reader of a    *)
(* finished run is shown is whole or marked as purged, although the purge    *)
(* may commit between any two of its statements.                             *)

AuditTrails == [report : BOOLEAN, evidence : BOOLEAN, invocations : BOOLEAN]
RunStatuses == Ended \cup {"RUNNING"}
Steps == {"idle", "report", "evidence", "compare", "invocations", "refresh", "write",
          "answered", "refused"}
ReaderPlace == [step : Steps, first : RunStatuses, status : RunStatuses, purged : BOOLEAN, seen : AuditTrails]
OnlyReport == [report |-> TRUE, evidence |-> FALSE, invocations |-> FALSE]

\* A row and its children: the end is in the past, the trail is what the end wrote
\* less what the purge took, and a purge is due.
RowSound(r) ==
  /\ audited[r].status = "RUNNING" => ~audited[r].purged
  /\ audited[r].status # "RUNNING" => audited[r].ended_at \in 0..day
  /\ audited[r].purged => /\ audited[r].ended_at + RetentionPeriod < day
                          /\ ~trail[r].evidence /\ ~trail[r].invocations
  /\ audited[r].status = "SUCCEEDED" =>
       trail[r] = IF audited[r].purged THEN OnlyReport ELSE WholeTrail
RowsSound == \A r \in AuditedRun : RowSound(r)

\* What a purger holds it may purge, however long it holds it, and it alone.
BatchesSound ==
  /\ \A p \in Purger : \A r \in batch[p] : Purgeable(r)
  /\ \A p, q \in Purger : p # q => batch[p] \cap batch[q] = {}

\* A reader on its way, against the row it reads: what it read stays true of the end of
\* the run; of the trail it has seen all there was, unless the purge came meanwhile,
\* which then the row says.
Faithful(u, at, file) ==
  /\ at.first \in Ended => file.status = at.first
  /\ at.step = "report" => at.seen = NoTrail
  /\ u = "export" /\ at.step = "answered" => at.seen.evidence
  /\ u = "result" /\ at.first = "SUCCEEDED" =>
       /\ at.step \in {"evidence", "invocations", "refresh"} => at.seen.report
       /\ at.step \in {"invocations", "refresh"} => file.purged \/ at.seen.evidence
       /\ at.step = "refresh" => file.purged \/ at.seen.invocations
       /\ at.step = "answered" => at.seen = IF at.purged THEN OnlyReport ELSE WholeTrail
ReaderSound(x) == Faithful(reading[x].purpose, reading[x].at, audited[Run(x)])
ReadersSound == \A x \in Reader : ReaderSound(x)

RetentionInv == RetentionTypeOK /\ RowsSound /\ BatchesSound /\ ReadersSound
----------------------------------------------------------------------------
\* The type of one row, one trail, one reader.
LEMMA RetentionParts ==
  ASSUME RetentionTypeOK
  PROVE  /\ day \in 0..MaxDay
         /\ \A r \in AuditedRun : audited[r] \in RunState /\ trail[r] \in AuditTrails
         /\ \A x \in Reader : /\ reading[x] \in [purpose : Purpose, run : AuditedRun, at : ReaderPlace]
                              /\ reading[x].at \in ReaderPlace /\ Run(x) \in AuditedRun
                              /\ reading[x].purpose \in Purpose
  BY DEF RetentionTypeOK, AuditTrails, ReaderPlace, RunStatuses, Steps, Run

\* Trails are told apart by their fields.
LEMMA TrailIsItsFields ==
  ASSUME NEW t \in AuditTrails, NEW v \in AuditTrails, t.report = v.report, t.evidence = v.evidence,
         t.invocations = v.invocations
  PROVE  t = v
  BY DEF AuditTrails

LEMMA KnownTrails ==
  /\ NoTrail \in AuditTrails /\ WholeTrail \in AuditTrails /\ OnlyReport \in AuditTrails
  /\ \A b \in BOOLEAN :
       LET t == [NoTrail EXCEPT !.report = b]
       IN  t \in AuditTrails /\ t.report = b /\ t.evidence = FALSE /\ t.invocations = FALSE
  /\ [NoTrail EXCEPT !.report = TRUE] = OnlyReport
<1>1. NoTrail \in AuditTrails /\ WholeTrail \in AuditTrails /\ OnlyReport \in AuditTrails
  BY DEF NoTrail, WholeTrail, OnlyReport, AuditTrails
<1>2. ASSUME NEW b \in BOOLEAN
      PROVE  LET t == [NoTrail EXCEPT !.report = b]
             IN  t \in AuditTrails /\ t.report = b /\ t.evidence = FALSE /\ t.invocations = FALSE
  BY <1>1 DEF NoTrail, AuditTrails
<1>3. OnlyReport.report = TRUE /\ OnlyReport.evidence = FALSE /\ OnlyReport.invocations = FALSE
  BY DEF OnlyReport
<1>4. [NoTrail EXCEPT !.report = TRUE] = OnlyReport
  BY <1>1, <1>2, <1>3, TrailIsItsFields
<1> QED BY <1>1, <1>2, <1>4

\* The invariant says at least what is promised.
LEMMA RetentionInvSuffices == ASSUME RetentionInv PROVE TrailsAreWhole
<1>1. TrailsWholeUntilPurged
  BY DEF RetentionInv, RowsSound, RowSound, BatchesSound, TrailsWholeUntilPurged
<1>2. ASSUME NEW x \in Reader, reading[x].at.step = "answered"
      PROVE  /\ reading[x].purpose = "export" => reading[x].at.seen.evidence
             /\ reading[x].purpose = "result" /\ reading[x].at.first = "SUCCEEDED" =>
                  reading[x].at.seen = IF reading[x].at.purged THEN [NoTrail EXCEPT !.report = TRUE]
                                                               ELSE WholeTrail
  <2>1. [NoTrail EXCEPT !.report = TRUE] = OnlyReport
    BY KnownTrails
  <2>2. Faithful(reading[x].purpose, reading[x].at, audited[Run(x)])
    BY DEF RetentionInv, ReadersSound, ReaderSound
  <2> QED BY <1>2, <2>1, <2>2 DEF Faithful
<1> QED BY <1>1, <1>2 DEF TrailsAreWhole, ReadersSeeWholeTrails

LEMMA RetentionStarts == ASSUME RetentionInit PROVE RetentionInv
<1>0. 0 \in 0..MaxDay /\ -1 \in -1..MaxDay
  BY RetentionAssumption DEF RetentionAssumption
<1>1. RetentionTypeOK
  <2>1. audited \in [AuditedRun -> RunState] /\ trail \in [AuditedRun -> AuditTrails]
        /\ batch \in [Purger -> SUBSET AuditedRun] /\ day \in 0..MaxDay
    BY <1>0, KnownTrails DEF RetentionInit, RunState, Unended
  <2>2. Idling \in ReaderPlace
    BY KnownTrails DEF Idling, ReaderPlace, Steps, RunStatuses
  <2>3. reading \in [Reader -> [purpose : Purpose, run : AuditedRun, at : ReaderPlace]]
    BY <2>2 DEF RetentionInit
  <2> QED BY <2>1, <2>3 DEF RetentionTypeOK, ReaderPlace, Steps, RunStatuses, AuditTrails
<1>2. RowsSound /\ BatchesSound
  BY DEF RetentionInit, RowsSound, RowSound, BatchesSound
<1>3. ASSUME NEW x \in Reader PROVE ReaderSound(x)
  <2>1. reading[x].at = Idling
    BY DEF RetentionInit
  <2> QED BY <2>1 DEF ReaderSound, Faithful, Idling, Ended
<1> QED BY <1>1, <1>2, <1>3 DEF RetentionInv, ReadersSound
----------------------------------------------------------------------------
\* Readers that stand still stay faithful while ends are final and purges stay.
LEMMA RowsMoveOn ==
  ASSUME RetentionInv, reading' = reading, RetentionTypeOK',
         \A r \in AuditedRun : /\ audited[r].status \in Ended => audited'[r].status = audited[r].status
                               /\ audited[r].purged => audited'[r].purged
  PROVE  ReadersSound'
<1> SUFFICES ASSUME NEW x \in Reader PROVE ReaderSound(x)'
  BY DEF ReadersSound
<1>1. Faithful(reading[x].purpose, reading[x].at, audited[Run(x)]) /\ Run(x) \in AuditedRun
  BY RetentionParts DEF RetentionInv, ReadersSound, ReaderSound
<1>2. /\ audited[Run(x)].status \in Ended => audited'[Run(x)].status = audited[Run(x)].status
      /\ audited[Run(x)].purged => audited'[Run(x)].purged
  BY <1>1
<1>3. Faithful(reading[x].purpose, reading[x].at, audited'[Run(x)])
  BY <1>1, <1>2 DEF Faithful, Ended
<1> QED BY <1>3 DEF ReaderSound, Run

LEMMA NightKeepsRetention == ASSUME RetentionInv, Midnight PROVE RetentionInv'
<1>1. day \in 0..MaxDay /\ day' \in 0..MaxDay /\ day' = day + 1
      /\ \A r \in AuditedRun : audited[r].ended_at \in -1..MaxDay
  BY RetentionParts, RetentionAssumption
     DEF RetentionInv, Midnight, RetentionAssumption, RunState
<1>2. RetentionTypeOK'
  BY <1>1 DEF RetentionInv, Midnight, RetentionTypeOK
<1>3. RowsSound'
  BY <1>1, RetentionAssumption
     DEF RetentionInv, Midnight, RowsSound, RowSound, RetentionAssumption
<1>4. BatchesSound'
  <2>1. ASSUME NEW r \in AuditedRun, Purgeable(r) PROVE Purgeable(r)'
    BY <2>1, <1>1, RetentionAssumption DEF Midnight, Purgeable, Cutoff, RetentionAssumption
  <2> QED BY <2>1 DEF RetentionInv, RetentionTypeOK, Midnight, BatchesSound
<1>5. ReadersSound'
  BY <1>2, RowsMoveOn DEF Midnight
<1> QED BY <1>2, <1>3, <1>4, <1>5 DEF RetentionInv

\* The end of a run and its trail are one step; a run without an end is in no batch.
LEMMA FinishKeepsRetention ==
  ASSUME RetentionInv, NEW r \in AuditedRun, Finish(r) PROVE RetentionInv'
<1>1. PICK s \in Ended :
        /\ audited' = [audited EXCEPT ![r] = [@ EXCEPT !.status = s, !.ended_at = day]]
        /\ trail' = [trail EXCEPT ![r] = CASE s = "SUCCEEDED" -> WholeTrail
                                           [] s = "FAILED" -> [WholeTrail EXCEPT !.report = FALSE]
                                           [] s = "CANCELED" -> NoTrail]
  BY DEF Finish
<1>2. /\ audited \in [AuditedRun -> RunState] /\ trail \in [AuditedRun -> AuditTrails]
      /\ day \in 0..MaxDay
      /\ audited[r] \in RunState /\ ~audited[r].purged /\ audited[r].status = "RUNNING"
  BY DEF RetentionInv, RetentionTypeOK, AuditTrails, Finish, RowsSound, RowSound
<1> DEFINE file == [audited[r] EXCEPT !.status = s, !.ended_at = day]
           records == CASE s = "SUCCEEDED" -> WholeTrail
                        [] s = "FAILED" -> [WholeTrail EXCEPT !.report = FALSE]
                        [] s = "CANCELED" -> NoTrail
<1>3. /\ file \in RunState /\ file.status = s /\ file.ended_at = day /\ ~file.purged
      /\ records \in AuditTrails /\ (s = "SUCCEEDED" => records = WholeTrail)
  <2>1. file \in RunState /\ file.status = s /\ file.ended_at = day /\ ~file.purged
    <3>1. day \in -1..MaxDay /\ s \in Ended \cup {"RUNNING"}
      BY <1>2, RetentionAssumption DEF RetentionAssumption
    <3> QED BY <1>2, <3>1 DEF RunState
  <2>2. records \in AuditTrails /\ (s = "SUCCEEDED" => records = WholeTrail)
    BY DEF Ended, WholeTrail, NoTrail, AuditTrails
  <2> QED BY <2>1, <2>2
<1>4. audited'[r] = file /\ trail'[r] = records
      /\ \A q \in AuditedRun \ {r} : audited'[q] = audited[q] /\ trail'[q] = trail[q]
  BY <1>1, <1>2
<1>5. audited' \in [AuditedRun -> RunState] /\ trail' \in [AuditedRun -> AuditTrails]
  BY <1>1, <1>2, <1>3
<1> HIDE DEF file, records
<1>6. day' = day /\ batch' = batch /\ reading' = reading
  BY DEF Finish
<1>7. RetentionTypeOK'
  BY <1>5, <1>6 DEF RetentionInv, RetentionTypeOK, AuditTrails
<1>8. ASSUME NEW q \in AuditedRun PROVE RowSound(q)'
  <2>1. CASE q = r
    BY <2>1, <1>2, <1>3, <1>4, <1>6 DEF RowSound, Ended
  <2>2. CASE q # r
    BY <2>2, <1>4, <1>6 DEF RetentionInv, RowsSound, RowSound
  <2> QED BY <2>1, <2>2
<1>9. BatchesSound'
  <2>1. ASSUME NEW p \in Purger, NEW q \in batch[p] PROVE Purgeable(q)'
    <3>1. Purgeable(q) /\ q \in AuditedRun
      BY DEF RetentionInv, RetentionTypeOK, BatchesSound
    <3>2. q # r
      BY <3>1, <1>2 DEF Purgeable, Ended
    <3> QED BY <3>1, <3>2, <1>4, <1>6 DEF Purgeable, Cutoff
  <2> QED BY <2>1, <1>6 DEF RetentionInv, BatchesSound
<1>10. ReadersSound'
  <2>1. \A q \in AuditedRun :
          /\ audited[q].status \in Ended => audited'[q].status = audited[q].status
          /\ audited[q].purged => audited'[q].purged
    BY <1>2, <1>4 DEF Ended
  <2> QED BY <2>1, <1>6, <1>7, RowsMoveOn
<1> QED BY <1>7, <1>8, <1>9, <1>10 DEF RetentionInv, RowsSound
----------------------------------------------------------------------------
\* SKIP LOCKED: a new batch has nothing of another's, and only what may go.
LEMMA SelectKeepsRetention ==
  ASSUME RetentionInv, NEW p \in Purger, SelectForUpdate(p) PROVE RetentionInv'
<1>1. PICK b \in SUBSET Free : batch' = [batch EXCEPT ![p] = b]
  BY DEF SelectForUpdate
<1>2. day' = day /\ audited' = audited /\ trail' = trail /\ reading' = reading
  BY DEF SelectForUpdate
<1>3. batch \in [Purger -> SUBSET AuditedRun] /\ b \subseteq AuditedRun
  BY DEF RetentionInv, RetentionTypeOK, Free
<1>4. batch'[p] = b /\ \A q \in Purger \ {p} : batch'[q] = batch[q]
  BY <1>1, <1>3
<1>5. RetentionTypeOK'
  BY <1>1, <1>2, <1>3 DEF RetentionInv, RetentionTypeOK
<1>6. RowsSound'
  BY <1>2 DEF RetentionInv, RowsSound, RowSound
<1>7. BatchesSound'
  <2>1. \A r \in b : Purgeable(r) /\ \A q \in Purger : r \notin batch[q]
    BY <1>1 DEF Free
  <2>2. \A r : Purgeable(r)' <=> Purgeable(r)
    BY <1>2 DEF Purgeable, Cutoff
  <2>3. ASSUME NEW q \in Purger, NEW r \in batch'[q] PROVE Purgeable(r)'
    BY <1>4, <2>1, <2>2 DEF RetentionInv, BatchesSound
  <2>4. ASSUME NEW q \in Purger, NEW o \in Purger, q # o PROVE batch'[q] \cap batch'[o] = {}
    BY <2>4, <1>4, <2>1 DEF RetentionInv, BatchesSound
  <2> QED BY <2>3, <2>4 DEF BatchesSound
<1>8. ReadersSound'
  BY <1>2, <1>5, RowsMoveOn
<1> QED BY <1>5, <1>6, <1>7, <1>8 DEF RetentionInv

\* The marks, the two deletes and the locks go in one step.
LEMMA PurgeKeepsRetention ==
  ASSUME RetentionInv, NEW p \in Purger, PurgeCommits(p) PROVE RetentionInv'
<1>1. /\ audited' = [r \in AuditedRun |->
                       IF r \in batch[p] THEN [audited[r] EXCEPT !.purged = TRUE] ELSE audited[r]]
      /\ trail' = [r \in AuditedRun |-> IF r \in batch[p] THEN Stripped(trail[r]) ELSE trail[r]]
      /\ batch' = [batch EXCEPT ![p] = {}]
      /\ day' = day /\ reading' = reading
  BY DEF PurgeCommits
<1>2. /\ batch \in [Purger -> SUBSET AuditedRun] /\ day \in 0..MaxDay
      /\ \A r \in AuditedRun : audited[r] \in RunState /\ trail[r] \in AuditTrails
  BY RetentionParts DEF RetentionInv, RetentionTypeOK
<1>3. ASSUME NEW r \in AuditedRun, r \in batch[p]
      PROVE  /\ audited'[r] \in RunState /\ audited'[r].purged
             /\ audited'[r].status = audited[r].status /\ audited'[r].ended_at = audited[r].ended_at
  BY <1>1, <1>2, <1>3 DEF RunState
<1>4. ASSUME NEW r \in AuditedRun, r \in batch[p]
      PROVE  /\ trail'[r] \in AuditTrails /\ trail'[r].report = trail[r].report
             /\ ~trail'[r].evidence /\ ~trail'[r].invocations
             /\ trail[r] = WholeTrail => trail'[r] = OnlyReport
  <2>1. trail'[r] = Stripped(trail[r]) /\ trail[r] \in AuditTrails
    BY <1>1, <1>2, <1>4
  <2>2. /\ Stripped(trail[r]) \in AuditTrails /\ Stripped(trail[r]).report = trail[r].report
        /\ Stripped(trail[r]).evidence = FALSE /\ Stripped(trail[r]).invocations = FALSE
    BY <2>1 DEF Stripped, AuditTrails
  <2>3. /\ WholeTrail.report = TRUE /\ OnlyReport.report = TRUE
        /\ OnlyReport.evidence = FALSE /\ OnlyReport.invocations = FALSE
    BY DEF WholeTrail, OnlyReport
  <2>4. trail[r] = WholeTrail => Stripped(trail[r]) = OnlyReport
    BY <2>2, <2>3, KnownTrails, TrailIsItsFields
  <2> QED BY <2>1, <2>2, <2>4
<1>5. \A r \in AuditedRun \ batch[p] : audited'[r] = audited[r] /\ trail'[r] = trail[r]
  BY <1>1
<1>6. batch'[p] = {} /\ \A q \in Purger \ {p} : batch'[q] = batch[q]
  BY <1>1, <1>2
<1>7. RetentionTypeOK'
  <2>1. audited' \in [AuditedRun -> RunState] /\ trail' \in [AuditedRun -> AuditTrails]
    <3>1. \A r \in AuditedRun : audited'[r] \in RunState /\ trail'[r] \in AuditTrails
      BY <1>2, <1>3, <1>4, <1>5
    <3> QED BY <3>1, <1>1
  <2>2. batch' \in [Purger -> SUBSET AuditedRun]
    BY <1>1, <1>2
  <2> QED BY <2>1, <2>2, <1>1 DEF RetentionInv, RetentionTypeOK, AuditTrails
<1>8. ASSUME NEW r \in AuditedRun PROVE RowSound(r)'
  <2>1. CASE r \in batch[p]
    <3>1. Purgeable(r) /\ RowSound(r)
      BY <2>1 DEF RetentionInv, BatchesSound, RowsSound
    <3>2. audited[r].ended_at + RetentionPeriod < day
      BY <3>1, <1>2, RetentionAssumption DEF Purgeable, Cutoff, RetentionAssumption, RunState
    <3>3. audited[r].status = "SUCCEEDED" => trail[r] = WholeTrail
      BY <3>1 DEF RowSound, Purgeable
    <3> QED BY <2>1, <3>1, <3>2, <3>3, <1>1, <1>3, <1>4 DEF RowSound, Purgeable, Ended
  <2>2. CASE r \notin batch[p]
    BY <2>2, <1>1, <1>5 DEF RetentionInv, RowsSound, RowSound
  <2> QED BY <2>1, <2>2
<1>9. BatchesSound'
  <2>1. ASSUME NEW q \in Purger, NEW r \in batch'[q] PROVE Purgeable(r)'
    <3>1. q # p /\ r \in batch[q] /\ r \notin batch[p] /\ r \in AuditedRun
      BY <1>2, <1>6 DEF RetentionInv, BatchesSound
    <3>2. Purgeable(r)
      BY <3>1 DEF RetentionInv, BatchesSound
    <3> QED BY <3>1, <3>2, <1>1, <1>5 DEF Purgeable, Cutoff
  <2>2. ASSUME NEW q \in Purger, NEW o \in Purger, q # o PROVE batch'[q] \cap batch'[o] = {}
    BY <2>2, <1>6 DEF RetentionInv, BatchesSound
  <2> QED BY <2>1, <2>2 DEF BatchesSound
<1>10. ReadersSound'
  BY <1>1, <1>3, <1>5, <1>7, RowsMoveOn
<1> QED BY <1>7, <1>8, <1>9, <1>10 DEF RetentionInv, RowsSound

LEMMA PurgeFailureKeepsRetention ==
  ASSUME RetentionInv, NEW p \in Purger, PurgeFails(p) PROVE RetentionInv'
<1>1. /\ batch' = [batch EXCEPT ![p] = {}] /\ batch \in [Purger -> SUBSET AuditedRun]
      /\ day' = day /\ audited' = audited /\ trail' = trail /\ reading' = reading
  BY DEF PurgeFails, RetentionInv, RetentionTypeOK
<1>2. batch'[p] = {} /\ \A q \in Purger \ {p} : batch'[q] = batch[q]
  BY <1>1
<1>3. RetentionTypeOK'
  BY <1>1 DEF RetentionInv, RetentionTypeOK
<1>4. RowsSound'
  BY <1>1 DEF RetentionInv, RowsSound, RowSound
<1>5. BatchesSound'
  <2>1. \A r : Purgeable(r)' <=> Purgeable(r)
    BY <1>1 DEF Purgeable, Cutoff
  <2> QED BY <2>1, <1>2 DEF RetentionInv, BatchesSound
<1>6. ReadersSound'
  BY <1>1, <1>3, RowsMoveOn
<1> QED BY <1>3, <1>4, <1>5, <1>6 DEF RetentionInv
----------------------------------------------------------------------------
\* A reader's step changes that reader's place only; if the new place is faithful to
\* the row, everything is as before.
LEMMA ReaderMoves ==
  ASSUME RetentionInv, NEW x \in Reader, NEW at \in ReaderPlace, Move(x, at),
         Faithful(reading[x].purpose, at, audited[Run(x)])
  PROVE  RetentionInv'
<1>1. /\ reading' = [reading EXCEPT ![x].at = at]
      /\ day' = day /\ audited' = audited /\ trail' = trail /\ batch' = batch
  BY DEF Move
<1>2. /\ reading \in [Reader -> [purpose : Purpose, run : AuditedRun, at : ReaderPlace]]
      /\ reading[x] \in [purpose : Purpose, run : AuditedRun, at : ReaderPlace]
  BY DEF RetentionInv, RetentionTypeOK, ReaderPlace, Steps, RunStatuses, AuditTrails
<1> DEFINE new == [reading[x] EXCEPT !.at = at]
<1>3. /\ new \in [purpose : Purpose, run : AuditedRun, at : ReaderPlace]
      /\ new.at = at /\ new.purpose = reading[x].purpose /\ new.run = reading[x].run
  BY <1>2
<1>4. reading'[x] = new /\ \A y \in Reader \ {x} : reading'[y] = reading[y]
  BY <1>1, <1>2
<1>5. reading' \in [Reader -> [purpose : Purpose, run : AuditedRun, at : ReaderPlace]]
  BY <1>1, <1>2, <1>3
<1> HIDE DEF new
<1>6. RetentionTypeOK'
  BY <1>1, <1>5 DEF RetentionInv, RetentionTypeOK, ReaderPlace, Steps, RunStatuses, AuditTrails
<1>7. RowsSound'
  BY <1>1 DEF RetentionInv, RowsSound, RowSound
<1>8. BatchesSound'
  <2>1. \A r : Purgeable(r)' <=> Purgeable(r)
    BY <1>1 DEF Purgeable, Cutoff
  <2> QED BY <2>1, <1>1 DEF RetentionInv, BatchesSound
<1>9. ASSUME NEW y \in Reader PROVE ReaderSound(y)'
  <2>1. CASE y = x
    BY <2>1, <1>1, <1>3, <1>4 DEF ReaderSound, Run
  <2>2. CASE y # x
    BY <2>2, <1>1, <1>4 DEF RetentionInv, ReadersSound, ReaderSound, Run
  <2> QED BY <2>1, <2>2
<1> QED BY <1>6, <1>7, <1>8, <1>9 DEF RetentionInv, ReadersSound

\* Each statement of a reader: it notes what the row or the trail says at that moment.
LEMMA LookKeepsRetention ==
  ASSUME RetentionInv, NEW x \in Reader, Look(x) PROVE RetentionInv'
<1> DEFINE u == reading[x].purpose
           old == reading[x].at
           file == audited[Run(x)]
           left == trail[Run(x)]
<1>1. /\ u \in Purpose /\ old \in ReaderPlace /\ file \in RunState /\ left \in AuditTrails
      /\ old.seen \in AuditTrails /\ file.status \in RunStatuses /\ file.purged \in BOOLEAN
      /\ Run(x) \in AuditedRun
  BY RetentionParts DEF RetentionInv, ReaderPlace, RunState, RunStatuses
<1>2. Faithful(u, old, file)
  BY DEF RetentionInv, ReadersSound, ReaderSound
<1>3. file.status = "SUCCEEDED" => left = IF file.purged THEN OnlyReport ELSE WholeTrail
  BY <1>1 DEF RetentionInv, RowsSound, RowSound
<1>4. CASE LookAtRun(x)
  <2> DEFINE step == IF u = "result" \/ (file.status = "SUCCEEDED" /\ ~file.purged)
                     THEN "report" ELSE "refused"
             new == [Idling EXCEPT !.first = file.status, !.purged = file.purged,
                                   !.status = file.status, !.step = step]
  <2>1. Move(x, new)
    BY <1>4 DEF LookAtRun
  <2>2. step \in {"report", "refused"}
    OBVIOUS
  <2>3. /\ new \in ReaderPlace /\ new.first = file.status /\ new.step = step /\ new.seen = NoTrail
    BY <1>1, <2>2 DEF ReaderPlace, Idling, NoTrail, AuditTrails, Steps
  <2>4. Faithful(u, new, file)
    BY <2>2, <2>3 DEF Faithful
  <2> HIDE DEF new, step
  <2> QED BY <2>1, <2>3, <2>4, ReaderMoves
<1>5. CASE LookAtReport(x)
  <2> DEFINE step == CASE u = "use" -> IF left.report THEN "write" ELSE "refused"
                       [] u = "export" -> IF left.report THEN "evidence" ELSE "refused"
                       [] u = "result" -> IF old.purged THEN "answered" ELSE "evidence"
             new == [old EXCEPT !.seen.report = left.report, !.step = step]
  <2>1. Move(x, new) /\ old.step = "report"
    BY <1>5 DEF LookAtReport
  <2>2. /\ step \in {"write", "evidence", "answered", "refused"}
        /\ step = "answered" => u = "result" /\ old.purged
    BY <1>1 DEF Purpose
  <2>3. /\ new \in ReaderPlace /\ new.first = old.first /\ new.step = step /\ new.purged = old.purged
        /\ new.seen = [old.seen EXCEPT !.report = left.report]
    BY <1>1, <2>2 DEF ReaderPlace, AuditTrails, Steps
  <2>4. old.seen = NoTrail
    BY <1>2, <2>1 DEF Faithful
  <2>5. file.status = "SUCCEEDED" => new.seen = OnlyReport
    <3>1. SUFFICES ASSUME file.status = "SUCCEEDED" PROVE new.seen = OnlyReport
      OBVIOUS
    <3>2. left.report = TRUE
      BY <1>3, <3>1 DEF OnlyReport, WholeTrail
    <3> QED BY <2>3, <2>4, <3>2, KnownTrails
  <2> HIDE DEF new, step
  <2>6. Faithful(u, new, file)
    BY <1>2, <2>2, <2>3, <2>5 DEF Faithful, Ended, OnlyReport
  <2> QED BY <2>1, <2>3, <2>6, ReaderMoves
<1>6. CASE LookAtEvidence(x)
  <2> DEFINE step == IF u = "export" THEN "compare" ELSE "invocations"
             new == [old EXCEPT !.seen.evidence = left.evidence, !.step = step]
  <2>1. Move(x, new) /\ old.step = "evidence"
    BY <1>6 DEF LookAtEvidence
  <2>2. step \in {"compare", "invocations"}
    OBVIOUS
  <2>3. /\ new \in ReaderPlace /\ new.first = old.first /\ new.step = step
        /\ new.seen.report = old.seen.report /\ new.seen.evidence = left.evidence
    BY <1>1, <2>2 DEF ReaderPlace, AuditTrails, Steps
  <2>4. file.status = "SUCCEEDED" => file.purged \/ left.evidence
    BY <1>3 DEF WholeTrail
  <2> HIDE DEF new, step
  <2>5. Faithful(u, new, file)
    BY <1>2, <2>1, <2>2, <2>3, <2>4 DEF Faithful, Ended
  <2> QED BY <2>1, <2>3, <2>5, ReaderMoves
<1>7. CASE CompareEvidence(x)
  <2> DEFINE step == IF old.seen.evidence THEN "answered" ELSE "refused"
             new == [old EXCEPT !.step = step]
  <2>1. Move(x, new) /\ old.step = "compare" /\ u = "export"
    BY <1>7 DEF CompareEvidence, Reads
  <2>2. step \in {"answered", "refused"} /\ (step = "answered" => old.seen.evidence)
    OBVIOUS
  <2>3. new \in ReaderPlace /\ new.first = old.first /\ new.step = step /\ new.seen = old.seen
    BY <1>1, <2>2 DEF ReaderPlace, Steps
  <2> HIDE DEF new, step
  <2>4. Faithful(u, new, file)
    BY <1>2, <2>1, <2>2, <2>3 DEF Faithful
  <2> QED BY <2>1, <2>3, <2>4, ReaderMoves
<1>8. CASE LookAtInvocations(x)
  <2> DEFINE new == [old EXCEPT !.seen.invocations = left.invocations, !.step = "refresh"]
  <2>1. Move(x, new) /\ old.step = "invocations" /\ u = "result"
    BY <1>8 DEF LookAtInvocations, Reads
  <2>2. /\ new \in ReaderPlace /\ new.first = old.first /\ new.step = "refresh"
        /\ new.seen.report = old.seen.report /\ new.seen.evidence = old.seen.evidence
        /\ new.seen.invocations = left.invocations
    BY <1>1 DEF ReaderPlace, AuditTrails, Steps
  <2>3. file.status = "SUCCEEDED" => file.purged \/ left.invocations
    BY <1>3 DEF WholeTrail
  <2> HIDE DEF new
  <2>4. Faithful(u, new, file)
    BY <1>2, <2>1, <2>2, <2>3 DEF Faithful, Ended
  <2> QED BY <2>1, <2>2, <2>4, ReaderMoves
<1>9. CASE RefreshRun(x)
  <2> DEFINE shown == IF file.purged THEN [NoTrail EXCEPT !.report = old.seen.report]
                                     ELSE old.seen
             new == [old EXCEPT !.step = "answered", !.status = file.status,
                                !.purged = file.purged, !.seen = shown]
  <2>1. Move(x, new) /\ old.step = "refresh" /\ u = "result"
    BY <1>9 DEF RefreshRun, Refreshed, Reads
  <2>2. shown \in AuditTrails
    BY <1>1 DEF NoTrail, AuditTrails
  <2>3. /\ new \in ReaderPlace /\ new.first = old.first /\ new.step = "answered"
        /\ new.purged = file.purged /\ new.seen = shown
    BY <1>1, <2>2 DEF ReaderPlace, Steps
  <2>4. old.first = "SUCCEEDED" => shown = IF file.purged THEN OnlyReport ELSE WholeTrail
    <3>1. SUFFICES ASSUME old.first = "SUCCEEDED"
                   PROVE  shown = IF file.purged THEN OnlyReport ELSE WholeTrail
      OBVIOUS
    <3>2. /\ old.seen.report
          /\ file.purged \/ old.seen.evidence
          /\ file.purged \/ old.seen.invocations
      BY <1>2, <2>1, <3>1 DEF Faithful
    <3>3. CASE file.purged
      <4>1. old.seen.report = TRUE
        BY <1>1, <3>2 DEF AuditTrails
      <4> QED BY <3>3, <4>1, KnownTrails
    <3>4. CASE ~file.purged
      BY <1>1, <3>2, <3>4 DEF WholeTrail, AuditTrails
    <3> QED BY <3>3, <3>4
  <2> HIDE DEF new, shown
  <2>5. Faithful(u, new, file)
    BY <1>2, <2>1, <2>3, <2>4 DEF Faithful
  <2> QED BY <2>1, <2>3, <2>5, ReaderMoves
<1>10. CASE WriteUse(x)
  <2> DEFINE new == [old EXCEPT !.step = "answered"]
  <2>1. Move(x, new) /\ u = "use"
    BY <1>10 DEF WriteUse, Reads
  <2>2. new \in ReaderPlace /\ new.first = old.first /\ new.step = "answered"
    BY <1>1 DEF ReaderPlace, Steps
  <2> HIDE DEF new
  <2>3. Faithful(u, new, file)
    BY <1>2, <2>1, <2>2 DEF Faithful
  <2> QED BY <2>1, <2>2, <2>3, ReaderMoves
<1> QED BY <1>4, <1>5, <1>6, <1>7, <1>8, <1>9, <1>10 DEF Look
----------------------------------------------------------------------------
LEMMA RetentionStays == ASSUME RetentionInv, UNCHANGED retentionVars PROVE RetentionInv'
<1>1. day' = day /\ audited' = audited /\ trail' = trail /\ batch' = batch /\ reading' = reading
  BY DEF retentionVars
<1>2. RetentionTypeOK' /\ RowsSound'
  BY <1>1 DEF RetentionInv, RetentionTypeOK, RowsSound, RowSound
<1>3. BatchesSound'
  <2>1. \A r : Purgeable(r)' <=> Purgeable(r)
    BY <1>1 DEF Purgeable, Cutoff
  <2> QED BY <2>1, <1>1 DEF RetentionInv, BatchesSound
<1>4. ReadersSound'
  BY <1>1 DEF RetentionInv, ReadersSound, ReaderSound, Run
<1> QED BY <1>2, <1>3, <1>4 DEF RetentionInv

\* The invariant holds in every state that can be reached.
THEOREM RetentionInvariant == RetentionSpec => []RetentionInv
<1>1. RetentionInit => RetentionInv
  BY RetentionStarts
<1>2. ASSUME RetentionInv, [RetentionNext]_retentionVars PROVE RetentionInv'
  BY <1>2, NightKeepsRetention, FinishKeepsRetention, SelectKeepsRetention, PurgeKeepsRetention,
     PurgeFailureKeepsRetention, LookKeepsRetention, RetentionStays DEF RetentionNext, Purge
<1> QED BY <1>1, <1>2, PTL DEF RetentionSpec

\* Rows, trails, batches and readers keep their types.
THEOREM RetentionTypes == RetentionSpec => []RetentionTypeOK
<1>1. RetentionInv => RetentionTypeOK
  BY DEF RetentionInv
<1> QED BY <1>1, RetentionInvariant, PTL

\* The audit trail is never half there: until its run is marked as purged it is whole,
\* afterwards evidence and invocations are gone together, no earlier than the retention
\* period allows; and a reader whose statements a purge overtakes is shown no half of it.
THEOREM TrailsStayWhole == RetentionSpec => []TrailsAreWhole
<1>1. RetentionInv => TrailsAreWhole
  BY RetentionInvSuffices
<1> QED BY <1>1, RetentionInvariant, PTL
----------------------------------------------------------------------------
(* Tickets: for any number of requests, targets and consumers, what a caller *)
(* was told is recorded, a ticket is opened for an approved draft and once   *)
(* where the target honours the key, no message is acknowledged early, and   *)
(* the services implement TicketLedger.  An approval is final, so what a     *)
(* request or a consumer has read of it still holds when it acts             *)
(* (Warranted, Working); that is what carries the rest from read to commit.  *)

\* What the rows of the draft and of the submissions say together.
RowsFit ==
  /\ draft.status = "none" => draft.created = NoAsk
  /\ draft.status \in {"none", "DRAFT"} => draft.decided = NoAsk
  /\ \A t \in Target :
       /\ submission[t].status = "none" => submission[t].asked = NoAsk
       /\ submission[t].status # "none" =>
            /\ draft.status = "APPROVED"
            /\ submission[t].asked \in Inquiry /\ submission[t].asked.expected = 2
       /\ submission[t].status \in {"none", "REQUESTED"} => submission[t].result.ticket = NoTicket

\* A request about to submit has seen the approval.
Warranted ==
  \A q \in Requester :
    request[q].step = "save" /\ Asked(q).kind = "submit" =>
      draft.status = "APPROVED" /\ Asked(q).expected = 2

\* What a consumer holds fits the row of its submission.
WorkFits(w) ==
  w.step # "idle" =>
    /\ w.target \in Target /\ submission[w.target].status # "none" /\ w.step # "dead"
    /\ w.step = "record" =>
         /\ w.outcome.status \in {"SUBMITTED", "FAILED"}
         /\ w.outcome.status = "SUBMITTED" => w.outcome.ticket \in tickets[w.target]
         /\ w.outcome.status = "FAILED" => w.outcome.ticket = NoTicket
    /\ w.step = "ack" => submission[w.target].status \in {"SUBMITTED", "FAILED"}
Working == \A c \in Submitter : WorkFits(handling[c])

\* Tickets carry the key of their submission.
TicketsFit ==
  \A t \in Target : \A k \in tickets[t] : k.key = t /\ submission[t].status # "none"

\* The inductive invariant.
TInv == TicketTypeOK /\ RowsFit /\ Warranted /\ Working /\ TicketsFit /\ TicketsAreAccounted
----------------------------------------------------------------------------
(* Types, and what each part of the invariant reads.                       *)

\* What somebody is told, and the two halves of DoneIsRecorded.
RequestSteps == {"idle", "key", "load", "save", "conflict", "done", "refused"}
DoneFits == \A q \in Requester : request[q].step = "done" => SameRequest(Asked(q))
KeysAreOwn ==
  \A s, t \in Target : submission[s].status # "none" /\ submission[t].status # "none"
                       /\ submission[s].asked.key = submission[t].asked.key => s = t

\* What a gateway answered, and what a consumer is doing.
TicketOutcome == [status : {"none", "SUBMITTED", "FAILED"}, ticket : Ticket \cup {NoTicket},
            by : WorkerName \cup {"none"}]
Handling == [step : {"idle", "call", "record", "ack", "dead"},
             target : Target \cup {"none"}, outcome : TicketOutcome]
DraftRow == [status : {"none", "DRAFT"} \cup Choice, created : Inquiry \cup {NoAsk},
             decided : Inquiry \cup {NoAsk}]

\* An inquiry is a record of its kind; no inquiry is none.
LEMMA InquiriesAsk ==
  /\ NoAsk \notin Inquiry
  /\ \A a \in Inquiry : /\ a.kind \in {"create", "decide", "submit"}
                        /\ a.choice \in {"APPROVED", "REJECTED"} /\ a.target \in Target
BY TicketAssumption DEF TicketAssumption, NoAsk, Choice

\* The parts of the invariant and of the types, one by one.
LEMMA Parts ==
  /\ TicketTypeOK <=>
       /\ draft \in DraftRow /\ submission \in [Target -> Row]
       /\ request \in [Requester -> [ask : Inquiry, step : RequestSteps]]
       /\ handling \in [Submitter -> Handling]
       /\ tickets \in [Target -> SUBSET Ticket]
       /\ settled \in [acked : SUBSET Target, dead : SUBSET Target]
  /\ DoneIsRecorded <=> DoneFits /\ KeysAreOwn
BY DEF TicketTypeOK, DraftRow, RequestSteps, Handling, TicketOutcome, DoneIsRecorded, DoneFits, KeysAreOwn

\* A consumer at rest has no work.
LEMMA NoWorkFits == NoWork \in Handling /\ WorkFits(NoWork)
BY DEF NoWork, NoResult, Handling, TicketOutcome, WorkFits

----------------------------------------------------------------------------
(* Requests.                                                               *)

\* A request that takes a turn, and changes nothing else, may be told that it
\* is done if it is recorded, and may go on to submit if it is warranted.
LEMMA TurnKeeps ==
  ASSUME TInv, NEW q \in Requester, NEW step \in RequestSteps, Turn(q, step),
         UNCHANGED <<draft, submission, handling, tickets, settled>>,
         step = "done" => SameRequest(Asked(q)),
         step = "save" /\ Asked(q).kind = "submit" =>
           draft.status = "APPROVED" /\ Asked(q).expected = 2
  PROVE  TInv'
<1>1. request \in [Requester -> [ask : Inquiry, step : RequestSteps]]
  BY Parts DEF TInv
<1>2. /\ request' \in [Requester -> [ask : Inquiry, step : RequestSteps]]
      /\ Asked(q)' = Asked(q) /\ request'[q].step = step
      /\ \A r \in Requester \ {q} : request'[r] = request[r]
  BY <1>1 DEF Turn, Asked
<1>3. \A a : SameRequest(a)' <=> SameRequest(a)
  BY DEF SameRequest, Recorded, DraftAsks, DecisionAsks, SubmissionAsks
<1>4. TicketTypeOK'
  BY <1>2, Parts DEF TInv, TicketTypeOK, RequestSteps
<1>5. DoneFits' /\ KeysAreOwn'
  <2>1. DoneFits'
    BY <1>2, <1>3, Parts DEF TInv, TicketsAreAccounted, DoneFits, Asked
  <2>2. KeysAreOwn'
    BY Parts DEF TInv, TicketsAreAccounted, KeysAreOwn
  <2> QED BY <2>1, <2>2
<1>6. DoneIsRecorded'
  BY <1>5 DEF DoneIsRecorded, DoneFits, KeysAreOwn
<1>7. Warranted'
  BY <1>2 DEF TInv, Warranted, Asked
<1>8. RowsFit' /\ TicketsFit'
  BY DEF TInv, RowsFit, TicketsFit
<1>9. Working'
  BY DEF TInv, Working, WorkFits
<1>10. TicketsAreWarranted' /\ AcknowledgedIsFinal'
  BY DEF TInv, TicketsAreAccounted, TicketsAreWarranted, AcknowledgedIsFinal
<1> QED BY <1>4, <1>6, <1>7, <1>8, <1>9, <1>10 DEF TInv, TicketsAreAccounted

\* What a submission leaves in the rows.
LEMMA StoredRow ==
  ASSUME submission \in [Target -> Row], NEW a \in Inquiry, StoresSubmission(a)
  PROVE  /\ submission' \in [Target -> Row] /\ draft' = draft
         /\ submission'[a.target].status = "REQUESTED" /\ submission'[a.target].asked = a
         /\ submission'[a.target].result = submission[a.target].result
         /\ \A t \in Target \ {a.target} : submission'[t] = submission[t]
<1>1. a.target \in Target
  BY InquiriesAsk
<1>2. submission' = [submission EXCEPT ![a.target] =
                       [submission[a.target] EXCEPT !.status = "REQUESTED", !.asked = a]]
  BY <1>1 DEF StoresSubmission
<1> DEFINE r == [submission[a.target] EXCEPT !.status = "REQUESTED", !.asked = a]
<1>3. /\ r \in Row /\ r.status = "REQUESTED" /\ r.asked = a
      /\ r.result = submission[a.target].result
  BY <1>1 DEF Row
<1>4. submission' = [submission EXCEPT ![a.target] = r]
  BY <1>2
<1> HIDE DEF r
<1> QED BY <1>1, <1>3, <1>4 DEF StoresSubmission

\* What a request that is stored leaves in the rows: what it asked, beside
\* everything that was recorded before.
SavedFits(a) ==
  /\ draft' \in DraftRow /\ submission' \in [Target -> Row] /\ RowsFit' /\ KeysAreOwn'
  /\ SameRequest(a)' /\ \A b \in Inquiry : SameRequest(b) => SameRequest(b)'
  /\ draft.status = "APPROVED" => draft' = draft
  /\ \A t \in Target : submission[t].status # "none" => submission'[t] = submission[t]

\* A draft is created where there is none.
LEMMA CreatedFits ==
  ASSUME TInv, NEW a \in Inquiry, a.kind = "create", Storable(a), StoresDraft(a)
  PROVE  SavedFits(a)
<1>1. draft \in DraftRow /\ draft.status = "none" /\ draft.created = NoAsk /\ draft.decided = NoAsk
      /\ submission \in [Target -> Row] /\ submission' = submission
  BY Parts DEF TInv, RowsFit, Storable, StoresDraft
<1>2. draft'.status = "DRAFT" /\ draft'.created = a /\ draft'.decided = NoAsk /\ draft' \in DraftRow
  BY <1>1 DEF StoresDraft, DraftRow
<1>3. \A t \in Target : submission[t].status = "none"
  BY <1>1 DEF TInv, RowsFit
<1>4. RowsFit' /\ KeysAreOwn'
  BY <1>1, <1>2, <1>3 DEF RowsFit, TInv, KeysAreOwn
<1>5. SameRequest(a)'
  BY <1>2, InquiriesAsk DEF SameRequest, Recorded, DraftAsks
<1>6. ASSUME NEW b \in Inquiry, SameRequest(b) PROVE SameRequest(b)'
  <2>1. b.kind # "create" /\ b.kind # "decide"
    BY <1>1, <1>6 DEF SameRequest, Recorded, DraftAsks, DecisionAsks
  <2>2. b.kind = "submit"
    BY <2>1, InquiriesAsk
  <2> QED BY <1>1, <1>6, <2>2 DEF SameRequest, Recorded, SubmissionAsks
<1> QED BY <1>1, <1>2, <1>4, <1>5, <1>6 DEF SavedFits

\* A draft is decided while it is one.
LEMMA DecidedFits ==
  ASSUME TInv, NEW a \in Inquiry, a.kind = "decide", Storable(a), StoresDecision(a)
  PROVE  SavedFits(a)
<1>1. draft \in DraftRow /\ draft.status = "DRAFT" /\ draft.decided = NoAsk
      /\ submission \in [Target -> Row] /\ submission' = submission
  BY Parts DEF TInv, RowsFit, Storable, StoresDecision
<1>2. /\ draft'.status = a.choice /\ draft'.created = draft.created /\ draft'.decided = a
      /\ draft' \in DraftRow /\ a.choice \in {"APPROVED", "REJECTED"}
  BY <1>1, InquiriesAsk DEF StoresDecision, DraftRow, Choice
<1>3. \A t \in Target : submission[t].status = "none"
  BY <1>1 DEF TInv, RowsFit
<1>4. RowsFit' /\ KeysAreOwn'
  BY <1>1, <1>2, <1>3 DEF RowsFit, TInv, KeysAreOwn
<1>5. SameRequest(a)'
  BY <1>2, InquiriesAsk DEF SameRequest, Recorded, DecisionAsks
<1>6. ASSUME NEW b \in Inquiry, SameRequest(b) PROVE SameRequest(b)'
  <2>1. CASE b.kind = "create"
    BY <1>2, <1>6, <2>1 DEF SameRequest, Recorded, DraftAsks
  <2>2. CASE b.kind = "decide"
    BY <1>1, <1>6, <2>2 DEF SameRequest, Recorded, DecisionAsks
  <2>3. CASE b.kind = "submit"
    BY <1>1, <1>6, <2>3 DEF SameRequest, Recorded, SubmissionAsks
  <2> QED BY <2>1, <2>2, <2>3, InquiriesAsk
<1> QED BY <1>1, <1>2, <1>4, <1>5, <1>6 DEF SavedFits

\* A submission is stored once for a target, under a key of its own.
LEMMA SubmittedFits ==
  ASSUME TInv, NEW a \in Inquiry, a.kind = "submit", Storable(a), StoresSubmission(a),
         draft.status = "APPROVED", a.expected = 2
  PROVE  SavedFits(a)
<1>1. /\ draft \in DraftRow /\ submission \in [Target -> Row] /\ a.target \in Target
      /\ submission[a.target].status = "none" /\ ~KeyUsed(a)
  BY Parts, InquiriesAsk DEF TInv, Storable
<1>2. /\ submission' \in [Target -> Row] /\ draft' = draft
      /\ submission'[a.target].status = "REQUESTED" /\ submission'[a.target].asked = a
      /\ submission'[a.target].result = submission[a.target].result
      /\ \A t \in Target \ {a.target} : submission'[t] = submission[t]
  BY <1>1, StoredRow
<1>3. RowsFit'
  <2>1. submission[a.target].result.ticket = NoTicket
    BY <1>1 DEF TInv, RowsFit
  <2>2. ASSUME NEW t \in Target
        PROVE  /\ submission'[t].status = "none" => submission'[t].asked = NoAsk
               /\ submission'[t].status # "none" =>
                    submission'[t].asked \in Inquiry /\ submission'[t].asked.expected = 2
               /\ submission'[t].status \in {"none", "REQUESTED"} =>
                    submission'[t].result.ticket = NoTicket
    BY <1>1, <1>2, <2>1 DEF TInv, RowsFit
  <2> QED BY <1>2, <2>2 DEF TInv, RowsFit
<1>4. KeysAreOwn'
  <2>1. ASSUME NEW t \in Target, t # a.target, submission[t].status # "none"
        PROVE  submission[t].asked.key # a.key
    <3>1. submission[t].asked # NoAsk
      BY <2>1, InquiriesAsk DEF TInv, RowsFit
    <3> QED BY <1>1, <3>1 DEF KeyUsed, Recorded, SubmissionAsks
  <2>2. KeysAreOwn
    BY Parts DEF TInv, TicketsAreAccounted
  <2> QED BY <1>2, <2>1, <2>2 DEF KeysAreOwn
<1>5. SameRequest(a)'
  BY <1>1, <1>2, InquiriesAsk DEF SameRequest, Recorded, SubmissionAsks
<1>6. ASSUME NEW b \in Inquiry, SameRequest(b) PROVE SameRequest(b)'
  <2>1. CASE b.kind \in {"create", "decide"}
    BY <1>2, <1>6, <2>1 DEF SameRequest, Recorded, DraftAsks, DecisionAsks
  <2>2. CASE b.kind = "submit"
    <3>1. PICK t \in Target : b = submission[t].asked
      BY <1>6, <2>2 DEF SameRequest, Recorded, SubmissionAsks
    <3>2. t # a.target
      BY <1>1, <3>1, InquiriesAsk DEF TInv, RowsFit
    <3> QED BY <1>2, <2>2, <3>1, <3>2, InquiriesAsk DEF SameRequest, Recorded, SubmissionAsks
  <2> QED BY <2>1, <2>2, InquiriesAsk
<1> QED BY <1>1, <1>2, <1>3, <1>4, <1>5, <1>6 DEF SavedFits

\* A request that is stored keeps the invariant, told of it or not.
LEMMA SavesKeeps ==
  ASSUME TInv, NEW q \in Requester, Saves(q)
  PROVE  TInv'
<1>1. request \in [Requester -> [ask : Inquiry, step : RequestSteps]] /\ request[q].step = "save"
  BY Parts DEF TInv, Saves
<1>2. PICK a \in Inquiry : a = Asked(q)
  BY <1>1 DEF Asked
<1>3. PICK step \in {"done", "refused"} : Turn(q, step)
  BY DEF Saves
<1>4. /\ request' \in [Requester -> [ask : Inquiry, step : RequestSteps]]
      /\ Asked(q)' = Asked(q) /\ request'[q].step = step
      /\ \A r \in Requester \ {q} : request'[r] = request[r]
  BY <1>1, <1>3 DEF Turn, Asked, RequestSteps
<1>5. SavedFits(a)
  <2>1. Storable(a) /\ Stored(a)
    BY <1>2 DEF Saves
  <2>2. a.kind = "submit" => draft.status = "APPROVED" /\ a.expected = 2
    BY <1>1, <1>2 DEF TInv, Warranted
  <2> QED BY <2>1, <2>2, CreatedFits, DecidedFits, SubmittedFits DEF Stored
<1>6. handling' = handling /\ tickets' = tickets /\ settled' = settled
  BY DEF Saves
<1>7. TicketTypeOK'
  BY <1>4, <1>5, <1>6, Parts DEF SavedFits, TInv, TicketTypeOK, DraftRow, RequestSteps
<1>8. DoneIsRecorded'
  <2>1. ASSUME NEW r \in Requester, request'[r].step = "done"
        PROVE  \E b \in Inquiry : b = Asked(r)' /\ SameRequest(b)'
    <3>1. CASE r = q
      BY <1>2, <1>4, <1>5, <3>1 DEF SavedFits
    <3>2. CASE r # q
      <4>1. PICK b \in Inquiry : b = Asked(r) /\ SameRequest(b)
        BY <1>1, <1>4, <2>1, <3>2, Parts DEF TInv, TicketsAreAccounted, DoneFits, Asked
      <4> QED BY <1>4, <1>5, <3>2, <4>1 DEF SavedFits, Asked
    <3> QED BY <3>1, <3>2
  <2>2. DoneFits'
    BY <2>1 DEF DoneFits
  <2> QED BY <1>5, <2>2 DEF SavedFits, DoneIsRecorded, DoneFits, KeysAreOwn
<1>9. Warranted'
  BY <1>4, <1>5, <1>2 DEF SavedFits, TInv, Warranted, Asked
<1>10. submission \in [Target -> Row] /\ tickets \in [Target -> SUBSET Ticket]
  BY Parts DEF TInv
<1>11. Working' /\ TicketsFit' /\ RowsFit'
  <2>1. ASSUME NEW c \in Submitter PROVE WorkFits(handling[c])'
    BY <1>5, <1>6 DEF SavedFits, TInv, Working, WorkFits
  <2>2. Working'
    BY <1>6, <2>1 DEF Working
  <2>3. TicketsFit'
    BY <1>5, <1>6 DEF SavedFits, TInv, TicketsFit
  <2> QED BY <1>5, <2>2, <2>3 DEF SavedFits
<1>12. TicketsAreWarranted' /\ AcknowledgedIsFinal'
  <2>1. ASSUME NEW t \in Target
        PROVE  /\ tickets'[t] # {} => draft'.status = "APPROVED" /\ submission'[t].status # "none"
               /\ submission'[t].status = "SUBMITTED" => submission'[t].result.ticket \in tickets'[t]
               /\ t \in Deduplicating => Cardinality(tickets'[t]) <= 1
    <3>1. CASE submission[t].status # "none"
      BY <1>5, <1>6, <3>1 DEF SavedFits, TInv, RowsFit, TicketsAreAccounted, TicketsAreWarranted
    <3>2. CASE submission[t].status = "none"
      <4>1. tickets'[t] = {}
        BY <1>6, <3>2 DEF TInv, TicketsAreAccounted, TicketsAreWarranted
      <4>2. submission'[t].status # "SUBMITTED"
        <5>1. submission'[t] = submission[t] \/ submission'[t].status = "REQUESTED"
          <6>1. Stored(a)
            BY <1>2 DEF Saves
          <6> QED BY <1>10, <6>1, StoredRow
                  DEF Stored, StoresDraft, StoresDecision
        <5> QED BY <3>2, <5>1
      <4> QED BY <4>1, <4>2, FS_EmptySet
    <3> QED BY <3>1, <3>2
  <2>2. TicketsAreWarranted'
    BY <2>1 DEF TicketsAreWarranted
  <2>3. AcknowledgedIsFinal'
    <3>1. settled.acked \subseteq Target
      BY Parts DEF TInv
    <3> QED BY <1>5, <1>6, <3>1 DEF SavedFits, TInv, TicketsAreAccounted, AcknowledgedIsFinal
  <2> QED BY <2>2, <2>3
<1> QED BY <1>7, <1>8, <1>9, <1>11, <1>12 DEF TInv, TicketsAreAccounted

\* Every step of a request keeps the invariant.
LEMMA ServeKeeps ==
  ASSUME TInv, NEW q \in Requester, Serve(q)
  PROVE  TInv'
<1>1. CASE Inquire(q)
  BY <1>1, TurnKeeps DEF Inquire, RequestSteps
<1>2. CASE LooksUpKey(q)
  <2>1. PICK step \in RequestSteps :
          step = IF SameRequest(Asked(q)) THEN "done"
                 ELSE IF KeyUsed(Asked(q)) THEN "refused" ELSE "load"
    BY DEF RequestSteps
  <2> QED BY <1>2, <2>1, TurnKeeps DEF LooksUpKey
<1>3. CASE Loads(q)
  <2>1. PICK a \in Inquiry : a = Asked(q)
    BY Parts DEF TInv, Asked
  <2>2. PICK step \in RequestSteps :
          step = CASE Missing(a) -> "refused"
                   [] ~Missing(a) /\ Unsuited(a) -> "conflict"
                   [] ~Missing(a) /\ ~Unsuited(a) -> IF MayDecide(a) THEN "save" ELSE "refused"
    BY DEF RequestSteps
  <2>3. Turn(q, step) /\ UNCHANGED <<draft, submission, handling, tickets, settled>>
    BY <1>3, <2>1, <2>2 DEF Loads
  <2>4. step = "save" /\ a.kind = "submit" => draft.status = "APPROVED" /\ a.expected = 2
    BY <2>2 DEF Unsuited, Version
  <2>5. step # "done"
    BY <2>2
  <2> QED BY <2>1, <2>3, <2>4, <2>5, TurnKeeps
<1>4. CASE Saves(q)
  BY <1>4, SavesKeeps
<1>5. CASE Conflicts(q)
  BY <1>5, TurnKeeps DEF Conflicts, RequestSteps
<1>6. CASE Recovers(q)
  <2>1. PICK step \in RequestSteps : step = IF SameRequest(Asked(q)) THEN "done" ELSE "refused"
    BY DEF RequestSteps
  <2> QED BY <1>6, <2>1, TurnKeeps DEF Recovers
<1>7. CASE Breaks(q)
  BY <1>7, TurnKeeps DEF Breaks, RequestSteps
<1> QED BY <1>1, <1>2, <1>3, <1>4, <1>5, <1>6, <1>7 DEF Serve

----------------------------------------------------------------------------
(* Consumers.                                                              *)

\* A consumer whose new work fits the rows, and that changes nothing else.
LEMMA WorkKeeps ==
  ASSUME TInv, NEW c \in Submitter, NEW w \in Handling, Work(c, w), WorkFits(w),
         UNCHANGED <<draft, submission, request, tickets, settled>>
  PROVE  TInv'
<1>1. handling' \in [Submitter -> Handling] /\ handling'[c] = w
      /\ \A d \in Submitter \ {c} : handling'[d] = handling[d]
  BY Parts DEF TInv, Work
<1>2. TicketTypeOK'
  BY <1>1, Parts DEF TInv, TicketTypeOK, Handling, TicketOutcome
<1>3. Working'
  <2>1. ASSUME NEW v, WorkFits(v) PROVE WorkFits(v)'
    BY <2>1 DEF WorkFits
  <2>2. ASSUME NEW d \in Submitter PROVE \E v : v = handling'[d] /\ WorkFits(v)
    BY <1>1 DEF TInv, Working
  <2> QED BY <2>1, <2>2 DEF Working, WorkFits
<1>4. RowsFit' /\ TicketsFit'
  BY DEF TInv, RowsFit, TicketsFit
<1>5. Warranted'
  BY DEF TInv, Warranted, Asked
<1>6. DoneIsRecorded'
  BY DEF TInv, TicketsAreAccounted, DoneIsRecorded, Asked, SameRequest, Recorded, DraftAsks,
         DecisionAsks, SubmissionAsks
<1>7. TicketsAreWarranted' /\ AcknowledgedIsFinal'
  BY DEF TInv, TicketsAreAccounted, TicketsAreWarranted, AcknowledgedIsFinal
<1> QED BY <1>2, <1>3, <1>4, <1>5, <1>6, <1>7 DEF TInv, TicketsAreAccounted

\* What a consumer is given fits: an approval is final, and so is the version
\* that was submitted.
LEMMA TakeKeeps ==
  ASSUME TInv, NEW c \in Submitter, NEW t \in Target, Take(c, t)
  PROVE  TInv'
<1>1. submission \in [Target -> Row] /\ submission[t].status # "none"
  BY Parts DEF TInv, Take
<1>2. Fitting(t)
  BY <1>1 DEF TInv, RowsFit, Fitting, Version
<1>3. PICK step \in {"call", "ack"} :
        step = IF submission[t].status = "REQUESTED" THEN "call" ELSE "ack"
  OBVIOUS
<1>4. PICK w : w = [NoWork EXCEPT !.target = t, !.step = step]
  OBVIOUS
<1>5. w \in Handling /\ w.target = t /\ w.step = step
  BY <1>4, NoWorkFits DEF Handling
<1>6. step = "ack" => submission[t].status \in {"SUBMITTED", "FAILED"}
  BY <1>1, <1>3 DEF Row
<1>7. WorkFits(w)
  BY <1>1, <1>5, <1>6 DEF WorkFits
<1>8. Work(c, w) /\ UNCHANGED <<draft, submission, request, tickets, settled>>
  BY <1>2, <1>3, <1>4 DEF Take
<1> QED BY <1>5, <1>7, <1>8, WorkKeeps

\* What a consumer is at work on.
LEMMA AtWork ==
  ASSUME TInv, NEW c \in Submitter, ~Holds(c, "idle")
  PROVE  /\ handling[c] \in Handling /\ Aim(c) \in Target /\ submission[Aim(c)].status # "none"
         /\ handling[c].step # "dead" /\ WorkFits(handling[c])
BY Parts DEF TInv, Working, WorkFits, Holds, Aim

\* A final refusal names no ticket.
LEMMA RefuseKeeps ==
  ASSUME TInv, NEW c \in Submitter, RefuseTicket(c)
  PROVE  TInv'
<1>1. handling[c] \in Handling /\ Aim(c) \in Target /\ submission[Aim(c)].status # "none"
  BY AtWork DEF RefuseTicket, Holds
<1>2. PICK o : o = [status |-> "FAILED", ticket |-> NoTicket, by |-> WorkerOf[c]]
  OBVIOUS
<1>3. o \in TicketOutcome /\ o.status = "FAILED" /\ o.ticket = NoTicket
  BY <1>2, TicketAssumption DEF TicketAssumption, TicketOutcome
<1>4. PICK w : w = [handling[c] EXCEPT !.step = "record", !.outcome = o]
  OBVIOUS
<1>5. w \in Handling /\ w.step = "record" /\ w.outcome = o /\ w.target = Aim(c)
  BY <1>1, <1>3, <1>4 DEF Handling, Aim
<1>6. WorkFits(w)
  BY <1>1, <1>3, <1>5 DEF WorkFits
<1>7. Work(c, w) /\ UNCHANGED <<draft, submission, request, tickets, settled>>
  BY <1>2, <1>4 DEF RefuseTicket
<1> QED BY <1>5, <1>6, <1>7, WorkKeeps

\* A result that is there already is final.
LEMMA ThereKeeps ==
  ASSUME TInv, NEW c \in Submitter, ResultIsThere(c)
  PROVE  TInv'
<1>1. handling[c] \in Handling /\ Aim(c) \in Target /\ submission[Aim(c)].status # "none"
  BY AtWork DEF ResultIsThere, Holds
<1>2. submission[Aim(c)].status \in {"SUBMITTED", "FAILED"}
  <2>1. submission[Aim(c)] \in Row
    BY <1>1, Parts DEF TInv
  <2> QED BY <1>1, <2>1 DEF ResultIsThere, StillRequested, Row
<1>3. PICK w : w = [handling[c] EXCEPT !.step = "ack"]
  OBVIOUS
<1>4. w \in Handling /\ w.step = "ack" /\ w.target = Aim(c)
  BY <1>1, <1>3 DEF Handling, Aim
<1>5. WorkFits(w)
  BY <1>1, <1>2, <1>4 DEF WorkFits
<1>6. /\ Work(c, w) \/ Work(c, NoWork)
      /\ UNCHANGED <<draft, submission, request, tickets, settled>>
  BY <1>3 DEF ResultIsThere
<1> QED BY <1>4, <1>5, <1>6, WorkKeeps, NoWorkFits

\* What a target answers names a ticket of it.
LEMMA AnswerFits ==
  ASSUME TInv, NEW c \in Submitter, Holds(c, "call"), NEW k \in Ticket, Answers(c, k)
  PROVE  \E w \in Handling : /\ Work(c, w) /\ w.step = "record" /\ w.target = Aim(c)
                             /\ w.outcome.status = "SUBMITTED" /\ w.outcome.ticket = k
<1>1. handling[c] \in Handling
  BY AtWork DEF Holds
<1>2. PICK o : o = [status |-> "SUBMITTED", ticket |-> k, by |-> WorkerOf[c]]
  OBVIOUS
<1>3. o \in TicketOutcome /\ o.status = "SUBMITTED" /\ o.ticket = k
  BY <1>2, TicketAssumption DEF TicketAssumption, TicketOutcome
<1>4. PICK w : w = [handling[c] EXCEPT !.step = "record", !.outcome = o]
  OBVIOUS
<1>5. w \in Handling /\ w.step = "record" /\ w.target = Aim(c) /\ w.outcome = o
  BY <1>1, <1>3, <1>4 DEF Handling, Aim
<1>6. Work(c, w)
  BY <1>2, <1>4 DEF Answers
<1> QED BY <1>3, <1>5, <1>6

\* A target that honours the key holds none of it when it opens one.
LEMMA OpenKeeps ==
  ASSUME TInv, NEW c \in Submitter, OpenTicket(c)
  PROVE  TInv'
<1>1. /\ handling[c] \in Handling /\ Aim(c) \in Target /\ submission[Aim(c)].status # "none"
      /\ Holds(c, "call") /\ UNCHANGED <<draft, submission, request, settled>>
      /\ tickets \in [Target -> SUBSET Ticket]
  BY AtWork, Parts DEF OpenTicket, Holds, TInv
<1>2. CASE /\ Aim(c) \in Deduplicating /\ OwnTickets(c) # {}
  <2>1. PICK k \in OwnTickets(c) : (Answers(c, k) \/ Work(c, NoWork)) /\ UNCHANGED tickets
    BY <1>2 DEF OpenTicket
  <2>2. k \in Ticket /\ k \in tickets[Aim(c)]
    BY <1>1 DEF OwnTickets
  <2>3. ASSUME NEW w \in Handling, Work(c, w), w.step = "record", w.target = Aim(c),
               w.outcome.status = "SUBMITTED", w.outcome.ticket = k
        PROVE  TInv'
    <3>1. WorkFits(w)
      BY <1>1, <2>2, <2>3 DEF WorkFits
    <3> QED BY <1>1, <2>1, <2>3, <3>1, WorkKeeps
  <2>4. CASE Work(c, NoWork)
    BY <1>1, <2>1, <2>4, WorkKeeps, NoWorkFits
  <2> QED BY <1>1, <2>1, <2>2, <2>3, <2>4, AnswerFits
<1>3. ASSUME ~(Aim(c) \in Deduplicating /\ OwnTickets(c) # {}) PROVE TInv'
  <2>0. PICK t \in Target : t = Aim(c)
    BY <1>1
  <2>1. PICK k : /\ k \in Ticket /\ k.key = t
                 /\ tickets' = [tickets EXCEPT ![t] = @ \cup {k}]
                 /\ Answers(c, k) \/ Work(c, NoWork)
    <3>1. PICK n \in Serial :
            /\ tickets' = [tickets EXCEPT ![Aim(c)] = @ \cup {[key |-> GatewayKey(c), serial |-> n]}]
            /\ Answers(c, [key |-> GatewayKey(c), serial |-> n]) \/ Work(c, NoWork)
      BY <1>3 DEF OpenTicket
    <3>2. PICK k : k = [key |-> t, serial |-> n]
      OBVIOUS
    <3>3. k \in Ticket /\ k.key = t
      BY <3>2 DEF Ticket
    <3>4. k = [key |-> GatewayKey(c), serial |-> n]
      BY <2>0, <3>2 DEF GatewayKey
    <3> QED BY <2>0, <3>1, <3>3, <3>4
  <2>2. /\ tickets' \in [Target -> SUBSET Ticket] /\ tickets'[t] = tickets[t] \cup {k}
        /\ \A u \in Target \ {t} : tickets'[u] = tickets[u]
    BY <1>1, <2>1
  <2>3. PICK w \in Handling :
          /\ Work(c, w) /\ w.step \in {"idle", "record"}
          /\ w.step = "record" => /\ w.target = t /\ w.outcome.status = "SUBMITTED"
                                  /\ w.outcome.ticket = k
    BY <1>1, <2>0, <2>1, AnswerFits, NoWorkFits DEF NoWork
  <2>4. /\ handling' \in [Submitter -> Handling] /\ handling'[c] = w
        /\ \A d \in Submitter \ {c} : handling'[d] = handling[d]
    BY <2>3, Parts DEF TInv, Work
  <2>5. TicketTypeOK'
    BY <1>1, <2>2, <2>4, Parts DEF TInv, TicketTypeOK, Handling, TicketOutcome
  <2>6. Working'
    <3>1. ASSUME NEW d \in Submitter, d # c PROVE WorkFits(handling[d])'
      <4>1. \A u \in Target : tickets[u] \subseteq tickets'[u]
        BY <2>2
      <4> QED BY <1>1, <2>4, <3>1, <4>1 DEF TInv, Working, WorkFits
    <3>2. WorkFits(handling[c])'
      BY <1>1, <2>0, <2>2, <2>3, <2>4 DEF WorkFits
    <3> QED BY <3>1, <3>2 DEF Working
  <2>7. TicketsFit'
    BY <1>1, <2>0, <2>1, <2>2 DEF TInv, TicketsFit
  <2>8. RowsFit' /\ Warranted' /\ AcknowledgedIsFinal'
    BY <1>1 DEF TInv, TicketsAreAccounted, RowsFit, Warranted, Asked, AcknowledgedIsFinal
  <2>9. DoneIsRecorded'
    BY <1>1 DEF TInv, TicketsAreAccounted, DoneIsRecorded, Asked, SameRequest, Recorded, DraftAsks,
                DecisionAsks, SubmissionAsks
  <2>10. TicketsAreWarranted'
    <3>1. t \in Deduplicating => Cardinality(tickets'[t]) <= 1
      <4>1. t \in Deduplicating => tickets[t] = {}
        BY <1>3, <2>0 DEF TInv, TicketsFit, OwnTickets, GatewayKey
      <4>2. t \in Deduplicating => tickets'[t] = {k}
        BY <2>2, <4>1
      <4>3. Cardinality({k}) = 1
        BY FS_Singleton
      <4> QED BY <4>2, <4>3
    <3>2. draft.status = "APPROVED"
      BY <1>1 DEF TInv, RowsFit
    <3> QED BY <1>1, <2>0, <2>2, <3>1, <3>2 DEF TInv, TicketsAreAccounted, TicketsAreWarranted
  <2> QED BY <2>5, <2>6, <2>7, <2>8, <2>9, <2>10 DEF TInv, TicketsAreAccounted
<1> QED BY <1>2, <1>3

\* What a result leaves in the row of its submission.
LEMMA RecordedRow ==
  ASSUME TInv, NEW c \in Submitter, RecordResult(c)
  PROVE  /\ Aim(c) \in Target /\ submission' \in [Target -> Row]
         /\ submission[Aim(c)].status = "REQUESTED"
         /\ submission'[Aim(c)].status = handling[c].outcome.status
         /\ submission'[Aim(c)].result = handling[c].outcome
         /\ handling[c].outcome \in TicketOutcome
         /\ \A t \in Target : submission'[t].asked = submission[t].asked
         /\ \A t \in Target \ {Aim(c)} : submission'[t] = submission[t]
<1>1. /\ handling[c] \in Handling /\ WorkFits(handling[c]) /\ handling[c].step = "record"
      /\ submission \in [Target -> Row]
  BY AtWork, Parts DEF RecordResult, Holds, TInv
<1>2. PICK t \in Target : t = Aim(c)
  BY <1>1 DEF WorkFits, Aim
<1>3. PICK o \in TicketOutcome : o = handling[c].outcome
  BY <1>1 DEF Handling
<1> DEFINE r == [submission[t] EXCEPT !.status = o.status, !.result = o]
<1>4. r \in Row /\ r.status = o.status /\ r.result = o /\ r.asked = submission[t].asked
  <2>1. submission[t] \in Row
    BY <1>1
  <2>2. o.status \in {"SUBMITTED", "FAILED"}
    BY <1>1, <1>3 DEF WorkFits
  <2> QED BY <1>3, <2>1, <2>2 DEF Row, TicketOutcome
<1>5. submission' = [submission EXCEPT ![t] = r]
  BY <1>2, <1>3 DEF RecordResult
<1>6. submission[t].status = "REQUESTED"
  BY <1>2 DEF RecordResult, StillRequested
<1> HIDE DEF r
<1> QED BY <1>1, <1>2, <1>3, <1>4, <1>5, <1>6

\* A result is recorded once, and names the ticket that was opened.
LEMMA RecordKeeps ==
  ASSUME TInv, NEW c \in Submitter, RecordResult(c)
  PROVE  TInv'
<1>1. PICK t \in Target : t = Aim(c)
  BY RecordedRow
<1>2. PICK o \in TicketOutcome : o = handling[c].outcome
  BY RecordedRow
<1>3. /\ submission' \in [Target -> Row] /\ submission[t].status = "REQUESTED"
      /\ submission'[t].status = o.status /\ submission'[t].result = o
      /\ \A s \in Target : submission'[s].asked = submission[s].asked
      /\ \A s \in Target \ {t} : submission'[s] = submission[s]
  BY <1>1, <1>2, RecordedRow
<1>4. /\ o.status \in {"SUBMITTED", "FAILED"}
      /\ o.status = "SUBMITTED" => o.ticket \in tickets[t]
      /\ UNCHANGED <<draft, request, tickets, settled>> /\ handling[c] \in Handling
  BY <1>1, <1>2, AtWork DEF RecordResult, Holds, WorkFits, Aim
<1>5. PICK w \in Handling : Work(c, w) /\ (w.step = "ack" => w.target = t) /\ w.step \in {"idle", "ack"}
  <2>1. PICK v : v = [handling[c] EXCEPT !.step = "ack"]
    OBVIOUS
  <2>2. v \in Handling /\ v.step = "ack" /\ v.target = t
    BY <1>1, <1>4, <2>1 DEF Handling, Aim
  <2>3. Work(c, v) \/ Work(c, NoWork)
    BY <2>1 DEF RecordResult
  <2>4. NoWork \in Handling /\ NoWork.step = "idle"
    BY NoWorkFits DEF NoWork
  <2>5. CASE Work(c, v)
    BY <2>2, <2>5
  <2>6. CASE Work(c, NoWork)
    BY <2>4, <2>6
  <2> QED BY <2>3, <2>5, <2>6
<1>6. /\ handling' \in [Submitter -> Handling] /\ handling'[c] = w
      /\ \A d \in Submitter \ {c} : handling'[d] = handling[d]
  BY <1>5, Parts DEF TInv, Work
<1>7. TicketTypeOK'
  BY <1>3, <1>4, <1>6, Parts DEF TInv, TicketTypeOK, Handling, TicketOutcome
<1>8. Working'
  <2>1. ASSUME NEW d \in Submitter, d # c PROVE WorkFits(handling[d])'
    BY <1>3, <1>4, <1>6, <2>1 DEF TInv, Working, WorkFits
  <2>2. WorkFits(handling[c])'
    BY <1>3, <1>4, <1>5, <1>6 DEF WorkFits
  <2> QED BY <2>1, <2>2 DEF Working
<1>9. TicketsFit'
  BY <1>3, <1>4 DEF TInv, TicketsFit
<1>10. RowsFit'
  <2>1. /\ draft.status = "APPROVED" /\ submission[t].asked \in Inquiry
        /\ submission[t].asked.expected = 2
    BY <1>3 DEF TInv, RowsFit
  <2> QED BY <1>3, <1>4, <2>1 DEF TInv, RowsFit
<1>11. Warranted'
  BY <1>4 DEF TInv, Warranted, Asked
<1>12. DoneIsRecorded'
  <2>1. DoneFits /\ KeysAreOwn
    BY Parts DEF TInv, TicketsAreAccounted
  <2>2. SubmissionAsks' = SubmissionAsks
    BY <1>3 DEF SubmissionAsks
  <2>3. DoneFits'
    BY <1>4, <2>1, <2>2 DEF DoneFits, Asked, SameRequest, Recorded, DraftAsks, DecisionAsks
  <2>4. KeysAreOwn'
    BY <1>3, <2>1 DEF KeysAreOwn
  <2> QED BY <2>3, <2>4 DEF DoneIsRecorded, DoneFits, KeysAreOwn
<1>13. TicketsAreWarranted'
  <2>1. ASSUME NEW s \in Target
        PROVE  /\ tickets[s] # {} => draft.status = "APPROVED" /\ submission'[s].status # "none"
               /\ submission'[s].status = "SUBMITTED" => submission'[s].result.ticket \in tickets[s]
               /\ s \in Deduplicating => Cardinality(tickets[s]) <= 1
    BY <1>3, <1>4 DEF TInv, TicketsAreAccounted, TicketsAreWarranted
  <2> QED BY <1>4, <2>1 DEF TicketsAreWarranted
<1>14. AcknowledgedIsFinal'
  <2>1. settled.acked \subseteq Target
    BY Parts DEF TInv
  <2> QED BY <1>3, <1>4, <2>1 DEF TInv, TicketsAreAccounted, AcknowledgedIsFinal
<1> QED BY <1>7, <1>8, <1>9, <1>10, <1>11, <1>12, <1>13, <1>14 DEF TInv, TicketsAreAccounted

\* A message is acknowledged when its submission is final.
LEMMA AcknowledgeKeeps ==
  ASSUME TInv, NEW c \in Submitter, Acknowledge(c)
  PROVE  TInv'
<1>1. PICK t \in Target : t = Aim(c)
  BY AtWork DEF Acknowledge, Holds
<1>2. submission[t].status \in {"SUBMITTED", "FAILED"}
  BY <1>1, AtWork DEF Acknowledge, Holds, WorkFits, Aim
<1>3. settled \in [acked : SUBSET Target, dead : SUBSET Target]
  BY Parts DEF TInv
<1>4. /\ settled' \in [acked : SUBSET Target, dead : SUBSET Target]
      /\ settled'.acked = settled.acked \cup {t} /\ settled'.dead = settled.dead
  BY <1>1, <1>3 DEF Acknowledge
<1>5. UNCHANGED <<draft, submission, request, tickets>> /\ Work(c, NoWork)
  BY DEF Acknowledge
<1>6. /\ handling' \in [Submitter -> Handling] /\ handling'[c] = NoWork
      /\ \A d \in Submitter \ {c} : handling'[d] = handling[d]
  BY <1>5, NoWorkFits, Parts DEF TInv, Work
<1>7. TicketTypeOK'
  BY <1>4, <1>5, <1>6, Parts DEF TInv, TicketTypeOK, Handling, TicketOutcome
<1>8. Working'
  BY <1>5, <1>6 DEF TInv, Working, WorkFits, NoWork
<1>9. RowsFit' /\ TicketsFit' /\ TicketsAreWarranted'
  BY <1>5 DEF TInv, TicketsAreAccounted, RowsFit, TicketsFit, TicketsAreWarranted
<1>10. Warranted'
  BY <1>5 DEF TInv, Warranted, Asked
<1>11. DoneIsRecorded'
  BY <1>5 DEF TInv, TicketsAreAccounted, DoneIsRecorded, Asked, SameRequest, Recorded, DraftAsks,
              DecisionAsks, SubmissionAsks
<1>12. AcknowledgedIsFinal'
  BY <1>2, <1>4, <1>5 DEF TInv, TicketsAreAccounted, AcknowledgedIsFinal
<1> QED BY <1>7, <1>8, <1>9, <1>10, <1>11, <1>12 DEF TInv, TicketsAreAccounted

\* Every step of a consumer keeps the invariant.
LEMMA ConsumeKeeps ==
  ASSUME TInv, NEW c \in Submitter, Consume(c)
  PROVE  TInv'
<1>1. CASE \E t \in Target : Take(c, t)
  BY <1>1, TakeKeeps
<1>2. CASE OpenTicket(c) \/ RefuseTicket(c) \/ RecordResult(c) \/ ResultIsThere(c)
  BY <1>2, OpenKeeps, RefuseKeeps, RecordKeeps, ThereKeeps
<1>3. CASE Acknowledge(c)
  BY <1>3, AcknowledgeKeeps
<1>4. CASE DeadLetter(c)
  BY <1>4, AtWork DEF DeadLetter, Holds
<1>5. CASE Drop(c)
  BY <1>5, WorkKeeps, NoWorkFits DEF Drop
<1> QED BY <1>1, <1>2, <1>3, <1>4, <1>5 DEF Consume

\* Nothing is wrong at the start, with a draft approved before or without.
LEMMA StartFits == TicketInit => TInv
<1> SUFFICES ASSUME TicketInit PROVE TInv
  OBVIOUS
<1>1. /\ draft \in DraftRow /\ draft.status \in {"none", "APPROVED"}
      /\ draft.status = "none" => draft.created = NoAsk /\ draft.decided = NoAsk
  BY DEF TicketInit, NoDraft, ApprovedBefore, DraftRow, Choice
<1>2. /\ \A t \in Target : submission[t] = NoSubmission /\ tickets[t] = {}
      /\ \A q \in Requester : request[q].step = "idle"
      /\ \A c \in Submitter : handling[c] = NoWork
      /\ settled = [acked |-> {}, dead |-> {}]
  BY DEF TicketInit
<1>3. NoSubmission \in Row /\ NoSubmission.status = "none" /\ NoSubmission.asked = NoAsk
      /\ NoSubmission.result.ticket = NoTicket
  BY DEF NoSubmission, NoResult, Row
<1>4. TicketTypeOK
  <2>1. submission \in [Target -> Row] /\ handling \in [Submitter -> Handling]
    BY <1>3, NoWorkFits DEF TicketInit
  <2>2. request \in [Requester -> [ask : Inquiry, step : RequestSteps]]
    BY DEF TicketInit, RequestSteps
  <2>3. /\ tickets \in [Target -> SUBSET Ticket]
        /\ settled \in [acked : SUBSET Target, dead : SUBSET Target]
    BY DEF TicketInit
  <2> QED BY <1>1, <2>1, <2>2, <2>3, Parts
<1>5. RowsFit /\ Warranted /\ Working /\ TicketsFit
  BY <1>1, <1>2, <1>3, NoWorkFits DEF RowsFit, Warranted, Working, TicketsFit
<1>6. DoneIsRecorded
  BY <1>2, <1>3 DEF DoneIsRecorded
<1>7. TicketsAreWarranted /\ AcknowledgedIsFinal
  <2>1. Cardinality({}) = 0
    BY FS_EmptySet
  <2>2. ASSUME NEW t \in Target
        PROVE  tickets[t] = {} /\ submission[t].status = "none" /\ Cardinality(tickets[t]) <= 1
    <3>1. tickets[t] = {} /\ submission[t].status = "none"
      BY <1>2, <1>3
    <3>2. Cardinality(tickets[t]) = 0
      BY <2>1, <3>1
    <3> QED BY <3>1, <3>2
  <2>3. TicketsAreWarranted
    BY <2>2 DEF TicketsAreWarranted
  <2> QED BY <1>2, <2>3 DEF AcknowledgedIsFinal
<1> QED BY <1>4, <1>5, <1>6, <1>7 DEF TInv, TicketsAreAccounted

\* The invariant is inductive.
LEMMA TicketStep == TInv /\ [TicketNext]_ticketVars => TInv'
<1> SUFFICES ASSUME TInv, [TicketNext]_ticketVars PROVE TInv'
  OBVIOUS
<1>1. CASE UNCHANGED ticketVars
  <2> USE <1>1 DEF ticketVars
  <2>1. TicketTypeOK' /\ RowsFit' /\ TicketsFit'
    BY DEF TInv, TicketTypeOK, RowsFit, TicketsFit
  <2>2. Warranted' /\ Working'
    BY DEF TInv, Warranted, Asked, Working, WorkFits
  <2>3. DoneIsRecorded'
    BY DEF TInv, TicketsAreAccounted, DoneIsRecorded, SameRequest, Asked, Recorded, DraftAsks,
           DecisionAsks, SubmissionAsks
  <2>4. TicketsAreWarranted' /\ AcknowledgedIsFinal'
    BY DEF TInv, TicketsAreAccounted, TicketsAreWarranted, AcknowledgedIsFinal
  <2> QED BY <2>1, <2>2, <2>3, <2>4 DEF TInv, TicketsAreAccounted
<1>2. CASE TicketNext
  BY <1>2, ServeKeeps, ConsumeKeeps DEF TicketNext
<1> QED BY <1>1, <1>2

----------------------------------------------------------------------------
(* What follows from it.                                                   *)

\* Whoever was told its request is done finds it recorded; tickets are opened
\* for approved drafts, once where the target honours the key; no message is
\* acknowledged before its submission is final, and none is dead-lettered
\* (ticket_submission_requested_handler.py:80-175).
THEOREM TicketsAlwaysAccounted == TicketSpec => []TicketsAreAccounted
<1>1. TInv => TicketsAreAccounted
  BY DEF TInv
<1> QED BY <1>1, StartFits, TicketStep, PTL DEF TicketSpec

\* A step of the rows is one of the ledger, or changes nothing of it.
LEMMA LedgerStep ==
  ASSUME TInv, [TicketNext]_ticketVars
  PROVE  [Ledger!LedgerNext]_(Ledger!ledgerVars)
<1>1. ASSUME UNCHANGED <<draft, submission>> PROVE UNCHANGED Ledger!ledgerVars
  BY <1>1 DEF Ledger!ledgerVars
<1>2. ASSUME NEW q \in Requester, Saves(q) PROVE Ledger!LedgerNext
  <2>1. PICK a \in Inquiry : a = Asked(q)
    BY Parts DEF TInv, Asked
  <2>2. Storable(a) /\ Stored(a) /\ draft \in DraftRow /\ submission \in [Target -> Row]
    BY <1>2, <2>1, Parts DEF Saves, TInv
  <2>3. CASE a.kind = "create"
    <3>1. draft.status = "none" /\ draft'.status = "DRAFT" /\ submission' = submission
      BY <2>2, <2>3 DEF Storable, Stored, StoresDraft, DraftRow
    <3> QED BY <3>1 DEF Ledger!LedgerNext, Ledger!Draft
  <2>4. CASE a.kind = "decide"
    <3>1. /\ draft.status = "DRAFT" /\ draft'.status \in {"APPROVED", "REJECTED"}
          /\ submission' = submission
      BY <2>2, <2>4, InquiriesAsk DEF Storable, Stored, StoresDecision, DraftRow
    <3> QED BY <3>1 DEF Ledger!LedgerNext, Ledger!Judge
  <2>5. CASE a.kind = "submit"
    <3>1. StoresSubmission(a) /\ a.target \in Target /\ submission[a.target].status = "none"
      BY <2>2, <2>5, InquiriesAsk DEF Storable, Stored
    <3>2. draft.status = "APPROVED"
      BY <1>2, <2>1, <2>5 DEF TInv, Warranted, Saves
    <3>3. /\ draft' = draft /\ submission'[a.target].status = "REQUESTED"
          /\ \A t \in Target : submission'[t].result.ticket = submission[t].result.ticket
          /\ \A t \in Target \ {a.target} : submission'[t] = submission[t]
      BY <2>2, <3>1, StoredRow
    <3>4. Ledger!Submit(a.target)
      BY <3>1, <3>2, <3>3 DEF Ledger!Submit
    <3> QED BY <3>1, <3>4 DEF Ledger!LedgerNext
  <2> QED BY <2>3, <2>4, <2>5, InquiriesAsk
<1>3. ASSUME NEW c \in Submitter, RecordResult(c) PROVE Ledger!LedgerNext
  <2>1. PICK t \in Target : t = Aim(c)
    BY <1>3, RecordedRow
  <2>2. PICK o \in TicketOutcome : o = handling[c].outcome
    BY <1>3, RecordedRow
  <2>3. /\ submission[t].status = "REQUESTED" /\ submission'[t].status = o.status
        /\ submission'[t].result = o /\ \A s \in Target \ {t} : submission'[s] = submission[s]
    BY <1>3, <2>1, <2>2, RecordedRow
  <2>4. /\ o.status \in {"SUBMITTED", "FAILED"}
        /\ o.status = "FAILED" => o.ticket = NoTicket
        /\ o.status = "SUBMITTED" => o.ticket \in Ticket
        /\ draft' = draft /\ submission[t].result.ticket = NoTicket
    <3>1. tickets[t] \subseteq Ticket
      BY Parts DEF TInv
    <3>2. /\ o.status \in {"SUBMITTED", "FAILED"}
          /\ o.status = "FAILED" => o.ticket = NoTicket
          /\ o.status = "SUBMITTED" => o.ticket \in tickets[t]
      BY <1>3, <2>1, <2>2, AtWork DEF RecordResult, Holds, WorkFits, Aim
    <3> QED BY <1>3, <2>3, <3>1, <3>2 DEF RecordResult, TInv, RowsFit
  <2>5. CASE o.status = "SUBMITTED"
    <3>1. Ledger!Open(t)
      BY <2>3, <2>4, <2>5 DEF Ledger!Open
    <3> QED BY <3>1 DEF Ledger!LedgerNext
  <2>6. CASE o.status = "FAILED"
    <3>1. Ledger!GiveUp(t)
      BY <2>3, <2>4, <2>6 DEF Ledger!GiveUp
    <3> QED BY <3>1 DEF Ledger!LedgerNext
  <2> QED BY <2>4, <2>5, <2>6
<1>4. ASSUME NEW q \in Requester, Serve(q), ~Saves(q) PROVE UNCHANGED <<draft, submission>>
  BY <1>4 DEF Serve, Inquire, LooksUpKey, Loads, Conflicts, Recovers, Breaks
<1>5. ASSUME NEW c \in Submitter, Consume(c), ~RecordResult(c) PROVE UNCHANGED <<draft, submission>>
  BY <1>5 DEF Consume, Take, OpenTicket, RefuseTicket, ResultIsThere, Acknowledge, DeadLetter, Drop
<1> QED BY <1>1, <1>2, <1>3, <1>4, <1>5 DEF TicketNext, ticketVars

\* The services implement the ledger: one draft, decided once; one submission
\* to each target, of an approved draft; one result, which stays.
THEOREM ServicesKeepTheLedger == TicketSpec => ImplementsLedger
<1>1. TicketInit => Ledger!LedgerInit
  BY DEF TicketInit, Ledger!LedgerInit, NoDraft, ApprovedBefore, NoSubmission, NoResult
<1>2. TInv /\ [TicketNext]_ticketVars => [Ledger!LedgerNext]_(Ledger!ledgerVars)
  BY LedgerStep
<1> QED BY <1>1, <1>2, StartFits, TicketStep, PTL DEF TicketSpec, ImplementsLedger, Ledger!LedgerSpec

----------------------------------------------------------------------------
(* Least numbers and sums: what is over a finite set is found one element   *)
(* after the other, and a set of numbers has a least.                       *)

\* Natural numbers have a smallest.
LEMMA SmallestOf ==
  ASSUME NEW T, T \subseteq Nat, T # {}
  PROVE  \E n \in T : \A m \in T : n <= m
<1>1. IsWellFoundedOn(StrictSubsetOrdering(Nat), FiniteSubsetsOf(Nat))
  BY FS_StrictSubsetOrderingWellFounded
<1> DEFINE D == {1..n : n \in T}
<1>2. D \subseteq FiniteSubsetsOf(Nat) /\ D # {}
  <2>1. ASSUME NEW n \in T PROVE 1..n \in FiniteSubsetsOf(Nat)
    <3>1. n \in Int /\ 1..n \subseteq Nat
      OBVIOUS
    <3> QED BY <3>1, FS_Interval DEF FiniteSubsetsOf
  <2> QED BY <2>1
<1>3. PICK d \in D : \A e \in D : ~(<<e, d>> \in StrictSubsetOrdering(Nat))
  BY <1>1, <1>2, WFMin
<1>4. PICK n \in T : d = 1..n
  OBVIOUS
<1>5. ASSUME NEW m \in T, m < n PROVE FALSE
  <2>1. 1..m \subseteq 1..n /\ n \notin 1..m /\ n \in 1..n /\ n \in Nat /\ m \in Nat
    BY <1>5
  <2>2. 1..m \in SUBSET Nat /\ d \in SUBSET Nat /\ 1..m \in D
    BY <1>4
  <2> QED BY <1>3, <1>4, <2>1, <2>2 DEF StrictSubsetOrdering
<1> QED BY <1>5

\* Those up to a bound have a greatest.
LEMMA GreatestOf ==
  ASSUME NEW k \in Nat, NEW T, T \subseteq 0..k, T # {}
  PROVE  \E n \in T : \A m \in T : m <= n
<1> DEFINE D == {k - n : n \in T}
<1>1. D \subseteq Nat /\ D # {}
  <2>1. \A n \in T : k - n \in Nat
    OBVIOUS
  <2> QED BY <2>1
<1>2. PICK d \in D : \A e \in D : d <= e
  BY <1>1, SmallestOf
<1>3. PICK n \in T : d = k - n
  OBVIOUS
<1>4. ASSUME NEW m \in T PROVE m <= n
  <2>1. k - n <= k - m
    BY <1>2, <1>3
  <2> QED BY <2>1
<1> QED BY <1>4

\* A set of natural numbers that has zero, and with each number the next, has all.
LEMMA AllOf ==
  ASSUME NEW T, T \subseteq Nat, 0 \in T, \A n \in T : n + 1 \in T
  PROVE  T = Nat
<1>1. SUFFICES ASSUME Nat \ T # {} PROVE FALSE
  OBVIOUS
<1>2. PICK n \in Nat \ T : \A m \in Nat \ T : n <= m
  <2>1. Nat \ T \subseteq Nat
    OBVIOUS
  <2> QED BY <1>1, <2>1, SmallestOf
<1>3. n # 0 /\ n - 1 \in Nat
  BY <1>2
<1>4. n - 1 \in T
  BY <1>2, <1>3
<1>5. (n - 1) + 1 \in T
  BY <1>4
<1> QED BY <1>2, <1>5

(* Sums.  What a sum over a finite set is, one element after the other.       *)

First(t) == CHOOSE x \in t : TRUE
SumsOver(S, h, g) ==
  g = [t \in SUBSET S |-> IF t = {} THEN 0 ELSE h[First(t)] + g[t \ {First(t)}]]

LEMMA SumExists ==
  ASSUME NEW S, IsFiniteSet(S), NEW h
  PROVE  \E g : SumsOver(S, h, g)
<1> DEFINE L(n) == {t \in SUBSET S : Cardinality(t) <= n}
           Sums(g, n) == g = [t \in L(n) |->
                                IF t = {} THEN 0 ELSE h[First(t)] + g[t \ {First(t)}]]
           T == {n \in Nat : \E g : Sums(g, n)}
<1>1. \A t \in SUBSET S : IsFiniteSet(t) /\ Cardinality(t) \in Nat
  BY FS_Subset, FS_CardinalityType
<1>2. 0 \in T
  <2>1. L(0) = {{}}
    BY <1>1, FS_EmptySet
  <2> DEFINE g == [t \in L(0) |-> 0]
  <2>2. Sums(g, 0)
    BY <2>1
  <2> QED BY <2>2
<1>3. ASSUME NEW n \in T PROVE n + 1 \in T
  <2>1. PICK g : Sums(g, n)
    OBVIOUS
  <2> DEFINE Next0(t) == IF t = {} THEN 0 ELSE h[First(t)] + g[t \ {First(t)}]
             f == [t \in L(n + 1) |-> Next0(t)]
  <2>2. \A t \in L(n) : t \in L(n + 1) /\ g[t] = Next0(t)
    <3>1. \A t \in L(n) : t \in L(n + 1)
      BY <1>1
    <3> QED BY <2>1, <3>1
  <2>3. \A t \in L(n + 1) : t # {} => t \ {First(t)} \in L(n)
    <3>1. SUFFICES ASSUME NEW t \in L(n + 1), t # {} PROVE t \ {First(t)} \in L(n)
      OBVIOUS
    <3>2. First(t) \in t /\ IsFiniteSet(t) /\ Cardinality(t) \in Nat /\ t \ {First(t)} \in SUBSET S
      BY <1>1, <3>1 DEF First
    <3>3. Cardinality(t \ {First(t)}) = Cardinality(t) - 1
      BY <3>2, FS_RemoveElement
    <3> QED BY <3>2, <3>3
  <2>4. \A t \in L(n) : f[t] = g[t]
    BY <2>2
  <2>5. Sums(f, n + 1)
    <3>1. \A t \in L(n + 1) :
            Next0(t) = IF t = {} THEN 0 ELSE h[First(t)] + f[t \ {First(t)}]
      <4> HIDE DEF L, f
      <4> QED BY <2>3, <2>4
    <3> QED BY <3>1
  <2> HIDE DEF Sums
  <2> QED BY <2>5
<1>4. T = Nat
  <2> HIDE DEF T
  <2>1. T \subseteq Nat
    BY DEF T
  <2> QED BY <1>2, <1>3, <2>1, AllOf
<1>5. PICK g : Sums(g, Cardinality(S))
  BY <1>1, <1>4
<1>6. L(Cardinality(S)) = SUBSET S
  BY FS_Subset, <1>1
<1> QED BY <1>5, <1>6 DEF SumsOver

\* A sum of natural numbers is one, and one of limited numbers is limited.
LEMMA SumIsBounded ==
  ASSUME NEW S, IsFiniteSet(S), NEW h \in [S -> Nat], NEW g, SumsOver(S, h, g), NEW k \in Nat
  PROVE  g[S] \in Nat /\ ((\A x \in S : h[x] <= k) => g[S] <= k * Cardinality(S))
<1>1. \A t \in SUBSET S : IsFiniteSet(t) /\ Cardinality(t) \in Nat
  BY FS_Subset, FS_CardinalityType
<1> DEFINE Within(x, n) == x \in Nat /\ ((\A y \in S : h[y] <= k) => x <= k * n)
           T == {n \in Nat : \A t \in SUBSET S : Cardinality(t) = n => Within(g[t], n)}
<1>2. 0 \in T
  <2>1. \A t \in SUBSET S : Cardinality(t) = 0 => t = {}
    BY <1>1, FS_EmptySet
  <2>2. g[{}] = 0
    BY DEF SumsOver
  <2>3. k * 0 = 0
    OBVIOUS
  <2>4. Within(0, 0)
    BY <2>3
  <2>5. \A t \in SUBSET S : Cardinality(t) = 0 => Within(g[t], 0)
    <3> HIDE DEF Within
    <3> QED BY <2>1, <2>2, <2>4, Zenon
  <2> QED BY <2>5
<1>3. ASSUME NEW n \in T PROVE n + 1 \in T
  <2>1. SUFFICES ASSUME NEW t \in SUBSET S, Cardinality(t) = n + 1
                 PROVE  Within(g[t], n + 1)
    OBVIOUS
  <2>2. t # {}
    <3>1. n \in Nat /\ n + 1 # 0
      OBVIOUS
    <3> HIDE DEF T
    <3> QED BY <2>1, <3>1, FS_EmptySet
  <2>3. First(t) \in t /\ t \ {First(t)} \in SUBSET S /\ h[First(t)] \in Nat /\ First(t) \in S
    BY <2>2 DEF First
  <2>4. Cardinality(t \ {First(t)}) = n
    <3>1. n \in Nat
      OBVIOUS
    <3>2. PICK e \in t : e = First(t)
      BY <2>3
    <3>3. IsFiniteSet(t) /\ Cardinality(t) \in Nat
      BY <1>1
    <3>4. Cardinality(t \ {e}) = Cardinality(t) - 1
      BY <3>2, <3>3, FS_RemoveElement
    <3> HIDE DEF T
    <3> QED BY <2>1, <3>1, <3>2, <3>4
  <2>5. Within(g[t \ {First(t)}], n)
    BY <2>3, <2>4
  <2>6. g[t] = h[First(t)] + g[t \ {First(t)}]
    BY <2>2 DEF SumsOver
  <2>7. k * (n + 1) = k * n + k /\ k * n \in Nat /\ k * (n + 1) \in Nat
    OBVIOUS
  <2>8. g[t] \in Nat
    BY <2>3, <2>5, <2>6
  <2>9. ASSUME \A y \in S : h[y] <= k PROVE g[t] <= k * (n + 1)
    <3>1. h[First(t)] <= k /\ g[t \ {First(t)}] <= k * n /\ g[t \ {First(t)}] \in Nat
      BY <2>3, <2>5, <2>9
    <3> HIDE DEF T
    <3> QED BY <2>3, <2>6, <2>7, <3>1
  <2> QED BY <2>8, <2>9
<1>4. T = Nat
  <2> HIDE DEF T
  <2>1. T \subseteq Nat
    BY DEF T
  <2> QED BY <1>2, <1>3, <2>1, AllOf
<1>5. Cardinality(S) \in T
  BY <1>1, <1>4
<1> QED BY <1>5

LEMMA LeastOfTwo ==
  ASSUME NEW a \in Int, NEW b \in Int
  PROVE  /\ Min({a, b}) \in {a, b} /\ Min({a, b}) <= a /\ Min({a, b}) <= b
<1>1. \E x \in {a, b} : \A y \in {a, b} : x <= y
  BY a <= b \/ b <= a
<1>2. PICK x : x = CHOOSE y \in {a, b} : \A z \in {a, b} : y <= z
  OBVIOUS
<1>3. x \in {a, b} /\ \A z \in {a, b} : x <= z
  BY <1>1, <1>2
<1> QED BY <1>2, <1>3 DEF Min

----------------------------------------------------------------------------
(* Calls of tools, for any number of calls and slots.  A row tells where its *)
(* call is; what it found, its result and the queries it left behind fit that *)
(* place; and what runs fits into the slots.  A call moves alone, or is moved *)
(* by the end of another only in what it waits for.                         *)

LEMMA NothingWeighsNothing ==
  ASSUME NEW rows
  PROVE  SizeUpTo(rows, 0) = 0
<1>1. 1..0 = {}
  OBVIOUS
<1>2. \E g : g = [s \in SUBSET {} |-> IF s = {} THEN 0
                 ELSE rows[CHOOSE x \in s : TRUE].size + g[s \ {CHOOSE x \in s : TRUE}]]
  <2>1. [s \in SUBSET {} |-> 0] = [s \in SUBSET {} |-> IF s = {} THEN 0
                 ELSE rows[CHOOSE x \in s : TRUE].size + [t \in SUBSET {} |-> 0][s \ {CHOOSE x \in s : TRUE}]]
    OBVIOUS
  <2> QED BY <2>1
<1> QED BY <1>1, <1>2 DEF SizeUpTo, MapThenSumSet, MapThenFoldSet

\* What the findings of a call show together.
LEMMA ShownIsBounded ==
  ASSUME NEW S, IsFiniteSet(S), NEW k \in Nat, \A f \in S : f[2].shown \in 0..k
  PROVE  MapThenSumSet(LAMBDA f : f[2].shown, S) \in 0..(k * Cardinality(S))
<1> DEFINE h == [f \in S |-> f[2].shown]
           Sums(g) == g = [t \in SUBSET S |->
                       IF t = {} THEN 0 ELSE First(t)[2].shown + g[t \ {First(t)}]]
<1>1. h \in [S -> Nat] /\ \A f \in S : h[f] <= k
  OBVIOUS
<1>2. \A t \in SUBSET S : t # {} => h[First(t)] = First(t)[2].shown
  BY DEF First
<1>3. ASSUME NEW g PROVE Sums(g) <=> SumsOver(S, h, g)
  <2> HIDE DEF h
  <2> QED BY <1>2 DEF SumsOver
<1>4. \E g : Sums(g)
  <2> HIDE DEF Sums, h
  <2> QED BY <1>3, SumExists
<1>5. PICK total : total = CHOOSE g : Sums(g)
  OBVIOUS
<1>6. Sums(total)
  BY <1>4, <1>5
<1>7. SumsOver(S, h, total)
  BY <1>3, <1>6
<1>8. Cardinality(S) \in Nat
  BY FS_CardinalityType
<1>9. total[S] \in 0..(k * Cardinality(S))
  <2> HIDE DEF h, Sums
  <2>1. total[S] \in Nat /\ total[S] <= k * Cardinality(S)
    BY <1>1, <1>7, SumIsBounded
  <2> QED BY <1>8, <2>1
<1>10. MapThenSumSet(LAMBDA f : f[2].shown, S) = total[S]
  BY <1>5 DEF MapThenSumSet, MapThenFoldSet, First
<1> QED BY <1>9, <1>10

ToolSteps == {"idle", "queued", "resolving", "querying", "withdrawing", "calling", "ended"}
ToolCauses == {"none", "failed", "timeout", "cancelled"}
ToolCallRow(A) == [ask : A, at : ToolSteps, cause : ToolCauses]

ToolCallsTyped(A) ==
  /\ invoking \in [Invocation -> ToolCallRow(A)]
  /\ DOMAIN queries = Invocation /\ DOMAIN findings = Invocation /\ DOMAIN invoked = Invocation
  /\ withdrawn \subseteq Invocation /\ clientsOpen \in BOOLEAN

\* What one query of a call may bring.
ShownQuota(ask) == IF ask.tool \in Telemetry THEN Share(ask) ELSE ask.limit
KeptFinding(ask, f) == f.shown \in 0..ShownQuota(ask) /\ (f.cut \/ f.whole)

\* The findings of a call are of queries that are over, one of each.
FindingsFit(i) ==
  /\ \A p \in findings[i] : /\ p[1] \in invoking[i].ask.signals /\ p[1] \notin queries[i]
                            /\ KeptFinding(invoking[i].ask, p[2])
  /\ \A p, q \in findings[i] : p[1] = q[1] => p = q
  /\ invoking[i].ask.tool \notin Telemetry \cup StoredTools => findings[i] = {}

\* Where a call is, with what belongs to it there.
StageFits(i) ==
  /\ queries[i] \subseteq invoking[i].ask.signals
  /\ queries[i] # {} => invoking[i].at \in {"querying", "withdrawing"}
  /\ invoking[i].at \in {"idle", "queued", "resolving", "calling"} => findings[i] = {}
  /\ invoking[i].at # "ended" => invoked[i].how = "none" /\ \A r \in mcpAudit : r[1] # i
  /\ invoking[i].ask.tool = "mcp" => invoking[i].at \in {"idle", "calling", "ended"}
  /\ invoking[i].ask.tool # "mcp" => invoking[i].at # "calling"
  /\ invoking[i].at \in {"resolving", "querying", "withdrawing"} =>
       invoking[i].ask.limit \in Nat \ {0}
  /\ i \in withdrawn =>
       \/ invoking[i].at = "withdrawing" /\ invoking[i].cause = "cancelled"
       \/ invoking[i].at = "ended" /\ invoked[i].how = "cancelled"

ResultFits(i) ==
  /\ invoked[i].how \in {"none", "ok", "refused", "failed", "timeout", "cancelled"}
  /\ invoked[i].how = "ok" /\ invoking[i].ask.tool # "mcp" =>
      /\ invoked[i].shown <= invoking[i].ask.limit
      /\ invoking[i].ask.tool \in Telemetry => invoked[i].shown <= MaxItems
      /\ invoked[i].cut \/ invoked[i].whole
  /\ invoking[i].ask.tool # "mcp" => ~invoked[i].leaks
  /\ invoked[i].how = "ok" /\ invoking[i].ask.tool = "mcp" => <<i, "SUCCEEDED">> \in mcpAudit

ToolCallFits(i) == StageFits(i) /\ FindingsFit(i) /\ ResultFits(i)

SlotsFit == IsFiniteSet(Running) /\ Cardinality(Running) <= SlotLimit
RecordedOnce == \A r, q \in mcpAudit : r[1] = q[1] => r = q

ToolCallsInv(A) ==
  ToolCallsTyped(A) /\ SlotsFit /\ RecordedOnce /\ \A i \in Invocation : ToolCallFits(i)

ToolCallsStart(A) ==
  CallsInit /\ invoking \in [Invocation -> [ask : A, at : {"idle"}, cause : {"none"}]]

LEMMA ToolNumbers ==
  /\ SlotLimit \in Nat \ {0} /\ MaxItems \in Nat \ {0} /\ Finest \in Nat \ {0}
  /\ MaxSamples \in Nat \ {0} /\ RoomFor \in Nat
BY ToolAssumption

LEMMA ToolCallsBegin ==
  ASSUME NEW A, ToolCallsStart(A)
  PROVE  ToolCallsInv(A)
<1>1. /\ invoking \in [Invocation -> [ask : A, at : {"idle"}, cause : {"none"}]]
      /\ queries = [i \in Invocation |-> {}] /\ findings = [i \in Invocation |-> {}]
      /\ invoked = [i \in Invocation |-> NoToolResult] /\ withdrawn = {}
      /\ clientsOpen = TRUE /\ mcpAudit = {}
  BY DEF ToolCallsStart, CallsInit
<1>2. ToolCallsTyped(A)
  <2>1. [ask : A, at : {"idle"}, cause : {"none"}] \subseteq ToolCallRow(A)
    BY DEF ToolCallRow, ToolSteps, ToolCauses
  <2>2. invoking \in [Invocation -> ToolCallRow(A)]
    BY <1>1, <2>1
  <2> QED BY <1>1, <2>2 DEF ToolCallsTyped
<1>3. \A i \in Invocation : invoking[i].at = "idle"
  BY <1>1
<1>4. Running = {}
  BY <1>3 DEF Running, HasSlot
<1>5. SlotsFit
  BY <1>4, FS_EmptySet, ToolNumbers DEF SlotsFit
<1>6. ASSUME NEW i \in Invocation PROVE ToolCallFits(i)
  <2>1. invoking[i].at = "idle" /\ queries[i] = {} /\ findings[i] = {} /\ invoked[i] = NoToolResult
    BY <1>1, <1>3
  <2>2. StageFits(i)
    BY <1>1, <2>1 DEF StageFits, NoToolResult
  <2>3. FindingsFit(i)
    BY <2>1 DEF FindingsFit
  <2>4. ResultFits(i)
    BY <2>1 DEF ResultFits, NoToolResult
  <2> QED BY <2>2, <2>3, <2>4 DEF ToolCallFits
<1> QED BY <1>1, <1>2, <1>5, <1>6 DEF ToolCallsInv, RecordedOnce

----------------------------------------------------------------------------
(* One call moves at a time.                                               *)

Touches(i) ==
  \A j \in Invocation : j # i =>
    /\ invoking'[j] = invoking[j] /\ queries'[j] = queries[j] /\ findings'[j] = findings[j]
    /\ invoked'[j] = invoked[j] /\ (j \in withdrawn' <=> j \in withdrawn)
Records(i) == mcpAudit' = mcpAudit \/ \E o : mcpAudit' = mcpAudit \cup {<<i, o>>}

MovesOne(A, i) ==
  /\ ToolCallsTyped(A)' /\ ToolCallFits(i)' /\ Touches(i)
  /\ Records(i) /\ (invoking[i].at = "ended" => mcpAudit' = mcpAudit)
  /\ HasSlot(i)' => HasSlot(i) \/ Cardinality(Running) < SlotLimit

LEMMA OtherInvocationsStay ==
  ASSUME NEW A, ToolCallsInv(A), NEW i \in Invocation, Touches(i), Records(i),
         NEW j \in Invocation, j # i
  PROVE  ToolCallFits(j)'
<1>1. StageFits(j) /\ FindingsFit(j) /\ ResultFits(j)
  BY DEF ToolCallsInv, ToolCallFits
<1>2. /\ invoking'[j] = invoking[j] /\ queries'[j] = queries[j] /\ findings'[j] = findings[j]
      /\ invoked'[j] = invoked[j] /\ (j \in withdrawn' <=> j \in withdrawn)
  BY DEF Touches
<1>3. /\ \A r \in mcpAudit' : r[1] = j => r \in mcpAudit
      /\ <<j, "SUCCEEDED">> \in mcpAudit => <<j, "SUCCEEDED">> \in mcpAudit'
  BY DEF Records
<1>4. StageFits(j)'
  BY <1>1, <1>2, <1>3 DEF StageFits
<1>5. FindingsFit(j)'
  BY <1>1, <1>2 DEF FindingsFit
<1>6. ResultFits(j)'
  BY <1>1, <1>2, <1>3 DEF ResultFits
<1> QED BY <1>4, <1>5, <1>6 DEF ToolCallFits

LEMMA OneMoves ==
  ASSUME NEW A, ToolCallsInv(A), NEW i \in Invocation, MovesOne(A, i)
  PROVE  ToolCallsInv(A)'
<1>1. \A j \in Invocation : ToolCallFits(j)'
  BY OtherInvocationsStay DEF MovesOne
<1>2. SlotsFit'
  <2>1. \A j \in Invocation : j # i => (HasSlot(j)' <=> HasSlot(j))
    BY DEF MovesOne, Touches, HasSlot
  <2>2. IsFiniteSet(Running) /\ Cardinality(Running) <= SlotLimit /\ Cardinality(Running) \in Nat
    BY FS_CardinalityType DEF ToolCallsInv, SlotsFit
  <2>3. CASE HasSlot(i)' <=> HasSlot(i)
    <3>1. Running' = Running
      BY <2>1, <2>3 DEF Running
    <3> QED BY <2>2, <3>1 DEF SlotsFit
  <2>4. CASE HasSlot(i)' /\ ~HasSlot(i)
    <3>1. Running' = Running \cup {i} /\ i \notin Running
      BY <2>1, <2>4 DEF Running
    <3>2. IsFiniteSet(Running') /\ Cardinality(Running') = Cardinality(Running) + 1
      BY <2>2, <3>1, FS_AddElement
    <3>3. Cardinality(Running) < SlotLimit
      BY <2>4 DEF MovesOne
    <3> QED BY <2>2, <3>2, <3>3, ToolNumbers DEF SlotsFit
  <2>5. CASE ~HasSlot(i)' /\ HasSlot(i)
    <3>1. Running' = Running \ {i} /\ i \in Running
      BY <2>1, <2>5 DEF Running
    <3>2. IsFiniteSet(Running') /\ Cardinality(Running') = Cardinality(Running) - 1
      BY <2>2, <3>1, FS_RemoveElement
    <3> QED BY <2>2, <3>2, ToolNumbers DEF SlotsFit
  <2> QED BY <2>3, <2>4, <2>5
<1>3. RecordedOnce'
  <2>1. CASE mcpAudit' = mcpAudit
    BY <2>1 DEF ToolCallsInv, RecordedOnce
  <2>2. CASE mcpAudit' # mcpAudit
    <3>1. PICK o : mcpAudit' = mcpAudit \cup {<<i, o>>}
      BY <2>2 DEF MovesOne, Records
    <3>2. \A r \in mcpAudit : r[1] # i
      BY <2>2 DEF MovesOne, ToolCallsInv, ToolCallFits, StageFits
    <3>3. <<i, o>>[1] = i
      OBVIOUS
    <3> QED BY <3>1, <3>2, <3>3 DEF ToolCallsInv, RecordedOnce
  <2> QED BY <2>1, <2>2
<1> QED BY <1>1, <1>2, <1>3 DEF ToolCallsInv, MovesOne

\* The row of a call after a step.
LEMMA InvocationMoves ==
  ASSUME NEW A, ToolCallsTyped(A), NEW i \in Invocation, NEW s \in ToolSteps, NEW c \in ToolCauses,
         \/ invoking' = [invoking EXCEPT ![i].at = s] /\ c = invoking[i].cause
         \/ invoking' = [invoking EXCEPT ![i].at = s, ![i].cause = c]
  PROVE  /\ invoking' \in [Invocation -> ToolCallRow(A)]
         /\ invoking'[i].at = s /\ invoking'[i].ask = invoking[i].ask /\ invoking'[i].cause = c
         /\ \A j \in Invocation : j # i => invoking'[j] = invoking[j]
<1>1. invoking \in [Invocation -> ToolCallRow(A)]
  BY DEF ToolCallsTyped
<1>2. invoking[i] \in ToolCallRow(A)
  BY <1>1
<1>3. PICK entry : entry = [invoking[i] EXCEPT !.at = s]
  OBVIOUS
<1>4. entry = [ask |-> invoking[i].ask, at |-> s, cause |-> invoking[i].cause]
  BY <1>2, <1>3 DEF ToolCallRow
<1>5. PICK both : both = [entry EXCEPT !.cause = c]
  OBVIOUS
<1>6. both = [ask |-> invoking[i].ask, at |-> s, cause |-> c]
  BY <1>4, <1>5
<1>7. both \in ToolCallRow(A) /\ (c = invoking[i].cause => both = entry)
  BY <1>2, <1>4, <1>6 DEF ToolCallRow
<1>8. invoking' = [invoking EXCEPT ![i] = both]
  <2>1. CASE invoking' = [invoking EXCEPT ![i].at = s] /\ c = invoking[i].cause
    BY <1>3, <1>7, <2>1
  <2>2. CASE invoking' = [invoking EXCEPT ![i].at = s, ![i].cause = c]
    BY <1>1, <1>3, <1>5, <2>2
  <2> QED BY <2>1, <2>2
<1> QED BY <1>1, <1>6, <1>7, <1>8

\* A call ends without a result.
LEMMA EndsBadly ==
  ASSUME NEW A, ToolCallsInv(A), NEW i \in Invocation,
         NEW how \in {"none", "refused", "failed", "timeout", "cancelled"},
         EndCall(i, Unsuccessful(how)), invoking[i].at # "ended", queries[i] = {},
         UNCHANGED <<queries, findings, clientsOpen>>, Records(i),
         \/ withdrawn' = withdrawn /\ (i \in withdrawn => how = "cancelled")
         \/ withdrawn' = withdrawn \cup {i} /\ how = "cancelled"
  PROVE  MovesOne(A, i)
<1>1. ToolCallsTyped(A) /\ ToolCallFits(i) /\ invoking[i].cause \in ToolCauses
  BY DEF ToolCallsInv, ToolCallsTyped, ToolCallRow
<1>2. invoking' = [invoking EXCEPT ![i].at = "ended"]
  BY DEF EndCall, MoveCall
<1>3. /\ invoking' \in [Invocation -> ToolCallRow(A)]
      /\ invoking'[i].at = "ended" /\ invoking'[i].ask = invoking[i].ask
      /\ \A j \in Invocation : j # i => invoking'[j] = invoking[j]
  <2>1. PICK c \in ToolCauses : c = invoking[i].cause
    BY <1>1
  <2>2. PICK s \in ToolSteps : s = "ended"
    BY DEF ToolSteps
  <2>3. invoking' = [invoking EXCEPT ![i].at = s]
    BY <1>2, <2>2
  <2> QED BY <1>1, <2>1, <2>2, <2>3, InvocationMoves
<1>4. Unsuccessful(how) = [how |-> how, shown |-> 0, cut |-> FALSE, whole |-> FALSE, leaks |-> FALSE]
  <2>1. PICK none : none = NoToolResult
    OBVIOUS
  <2>2. none = [how |-> "none", shown |-> 0, cut |-> FALSE, whole |-> FALSE, leaks |-> FALSE]
    BY <2>1 DEF NoToolResult
  <2>3. PICK heard : heard = [none EXCEPT !.how = how]
    OBVIOUS
  <2>4. heard = [how |-> how, shown |-> 0, cut |-> FALSE, whole |-> FALSE, leaks |-> FALSE]
    BY <2>2, <2>3
  <2> QED BY <2>1, <2>3, <2>4 DEF Unsuccessful
<1>5. /\ DOMAIN invoked' = Invocation /\ invoked'[i] = Unsuccessful(how)
      /\ \A j \in Invocation : j # i => invoked'[j] = invoked[j]
  BY <1>1 DEF EndCall, ToolCallsTyped
<1>6. ToolCallsTyped(A)'
  BY <1>1, <1>3, <1>5 DEF ToolCallsTyped
<1>7. StageFits(i)'
  BY <1>3, <1>4, <1>5 DEF StageFits
<1>8. FindingsFit(i)'
  BY <1>1, <1>3 DEF FindingsFit, ToolCallFits
<1>9. ResultFits(i)'
  BY <1>3, <1>4, <1>5 DEF ResultFits
<1>10. Touches(i)
  BY <1>3, <1>5 DEF Touches
<1>11. ~HasSlot(i)'
  BY <1>3 DEF HasSlot
<1> QED BY <1>6, <1>7, <1>8, <1>9, <1>10, <1>11 DEF MovesOne, ToolCallFits

\* A call goes on, with nothing told yet.
LEMMA GoesOnTo ==
  ASSUME NEW A, ToolCallsInv(A), NEW i \in Invocation, NEW s \in ToolSteps, NEW c \in ToolCauses,
         \/ invoking' = [invoking EXCEPT ![i].at = s] /\ c = invoking[i].cause
         \/ invoking' = [invoking EXCEPT ![i].at = s, ![i].cause = c],
         invoking[i].at # "ended", s # "ended",
         UNCHANGED <<invoked, clientsOpen, mcpAudit>>,
         \/ withdrawn' = withdrawn /\ (i \in withdrawn => s = "withdrawing" /\ c = "cancelled")
         \/ withdrawn' = withdrawn \cup {i} /\ s = "withdrawing" /\ c = "cancelled",
         DOMAIN queries' = Invocation, queries'[i] \subseteq invoking[i].ask.signals,
         queries'[i] # {} => s \in {"querying", "withdrawing"},
         \A j \in Invocation : j # i => queries'[j] = queries[j] /\ findings'[j] = findings[j],
         DOMAIN findings' = Invocation,
         s \in {"idle", "queued", "resolving", "calling"} => findings'[i] = {},
         invoking[i].ask.tool = "mcp" => s \in {"idle", "calling"},
         invoking[i].ask.tool # "mcp" => s # "calling",
         s \in {"resolving", "querying", "withdrawing"} => invoking[i].ask.limit \in Nat \ {0},
         /\ \A p \in findings'[i] : /\ p[1] \in invoking[i].ask.signals /\ p[1] \notin queries'[i]
                                    /\ KeptFinding(invoking[i].ask, p[2])
         /\ \A p, q \in findings'[i] : p[1] = q[1] => p = q
         /\ invoking[i].ask.tool \notin Telemetry \cup StoredTools => findings'[i] = {},
         s \in {"resolving", "querying", "withdrawing"} =>
           HasSlot(i) \/ Cardinality(Running) < SlotLimit
  PROVE  MovesOne(A, i)
<1>1. ToolCallsTyped(A) /\ ToolCallFits(i)
  BY DEF ToolCallsInv
<1>2. /\ invoking' \in [Invocation -> ToolCallRow(A)]
      /\ invoking'[i].at = s /\ invoking'[i].ask = invoking[i].ask /\ invoking'[i].cause = c
      /\ \A j \in Invocation : j # i => invoking'[j] = invoking[j]
  <2> QED BY <1>1, InvocationMoves
<1>3. ToolCallsTyped(A)'
  BY <1>1, <1>2 DEF ToolCallsTyped
<1>4. StageFits(i)'
  BY <1>1, <1>2 DEF StageFits, ToolCallFits
<1>5. FindingsFit(i)'
  BY <1>2 DEF FindingsFit, KeptFinding, ShownQuota, Share
<1>6. ResultFits(i)'
  BY <1>1, <1>2 DEF ResultFits, ToolCallFits, StageFits
<1>7. Touches(i)
  BY <1>2 DEF Touches
<1>8. HasSlot(i)' => HasSlot(i) \/ Cardinality(Running) < SlotLimit
  BY <1>2 DEF HasSlot
<1> QED BY <1>3, <1>4, <1>5, <1>6, <1>7, <1>8 DEF MovesOne, ToolCallFits, Records
----------------------------------------------------------------------------
(* The steps of a call.                                                     *)

LEMMA BeginInvocationKeeps ==
  ASSUME NEW A, ToolCallsInv(A), NEW i \in Invocation, Begin(i)
  PROVE  MovesOne(A, i)
<1>1. /\ invoking[i].at = "idle" /\ invoking[i].ask.tool # "mcp"
      /\ UNCHANGED <<queries, findings, withdrawn, clientsOpen, mcpAudit>>
  BY DEF Begin
<1>2. ToolCallsTyped(A) /\ StageFits(i) /\ FindingsFit(i) /\ invoking[i].cause \in ToolCauses
  BY DEF ToolCallsInv, ToolCallFits, ToolCallsTyped, ToolCallRow
<1>3. queries[i] = {} /\ findings[i] = {} /\ i \notin withdrawn
  BY <1>1, <1>2 DEF StageFits
<1>4. CASE Registered(invoking[i].ask.tool)
  <2>1. invoking' = [invoking EXCEPT ![i].at = "queued"] /\ invoked' = invoked
    BY <1>4 DEF Begin, MoveCall
  <2>2. PICK s \in ToolSteps : s = "queued"
    BY DEF ToolSteps
  <2>3. PICK c \in ToolCauses : c = invoking[i].cause
    BY <1>2
  <2>4. invoking' = [invoking EXCEPT ![i].at = s]
    BY <2>1, <2>2
  <2>5. DOMAIN queries' = Invocation /\ DOMAIN findings' = Invocation
    BY <1>1, <1>2 DEF ToolCallsTyped
  <2> QED BY <1>1, <1>3, <2>1, <2>2, <2>3, <2>4, <2>5, GoesOnTo
<1>5. CASE ~Registered(invoking[i].ask.tool)
  <2>1. EndCall(i, Unsuccessful("refused"))
    BY <1>5 DEF Begin
  <2> QED BY <1>1, <1>3, <2>1, EndsBadly DEF Records
<1> QED BY <1>4, <1>5

LEMMA TakeSlotKeeps ==
  ASSUME NEW A, ToolCallsInv(A), NEW i \in Invocation, TakeSlot(i)
  PROVE  MovesOne(A, i)
<1>1. /\ invoking[i].at = "queued" /\ Cardinality(Running) < SlotLimit
      /\ UNCHANGED <<queries, findings, withdrawn, clientsOpen, mcpAudit>>
  BY DEF TakeSlot
<1>2. ToolCallsTyped(A) /\ StageFits(i) /\ FindingsFit(i) /\ invoking[i].cause \in ToolCauses
  BY DEF ToolCallsInv, ToolCallFits, ToolCallsTyped, ToolCallRow
<1>3. queries[i] = {} /\ findings[i] = {} /\ i \notin withdrawn /\ invoking[i].ask.tool # "mcp"
  BY <1>1, <1>2 DEF StageFits
<1>4. CASE WellAsked(invoking[i].ask)
  <2>1. invoking' = [invoking EXCEPT ![i].at = "resolving"] /\ invoked' = invoked
    BY <1>4 DEF TakeSlot, MoveCall
  <2>2. PICK s \in ToolSteps : s = "resolving"
    BY DEF ToolSteps
  <2>3. PICK c \in ToolCauses : c = invoking[i].cause
    BY <1>2
  <2>4. invoking' = [invoking EXCEPT ![i].at = s]
    BY <2>1, <2>2
  <2>5. DOMAIN queries' = Invocation /\ DOMAIN findings' = Invocation
    BY <1>1, <1>2 DEF ToolCallsTyped
  <2>6. invoking[i].ask.limit \in Nat \ {0}
    BY <1>4 DEF WellAsked
  <2> QED BY <1>1, <1>3, <2>1, <2>2, <2>3, <2>4, <2>5, <2>6, GoesOnTo
<1>5. CASE ~WellAsked(invoking[i].ask)
  <2>1. EndCall(i, Unsuccessful("failed"))
    BY <1>5 DEF TakeSlot
  <2> QED BY <1>1, <1>3, <2>1, EndsBadly DEF Records
<1> QED BY <1>4, <1>5

LEMMA ResolveKeeps ==
  ASSUME NEW A, ToolCallsInv(A), NEW i \in Invocation, Resolve(i)
  PROVE  MovesOne(A, i)
<1>1. /\ invoking[i].at = "resolving"
      /\ UNCHANGED <<findings, withdrawn, clientsOpen, mcpAudit>>
  BY DEF Resolve
<1>2. ToolCallsTyped(A) /\ StageFits(i) /\ FindingsFit(i) /\ invoking[i].cause \in ToolCauses
  BY DEF ToolCallsInv, ToolCallFits, ToolCallsTyped, ToolCallRow
<1>3. /\ queries[i] = {} /\ findings[i] = {} /\ i \notin withdrawn /\ invoking[i].ask.tool # "mcp"
      /\ invoking[i].ask.limit \in Nat \ {0}
  BY <1>1, <1>2 DEF StageFits
<1>4. CASE EndCall(i, Unsuccessful("failed")) /\ queries' = queries
  BY <1>1, <1>3, <1>4, EndsBadly DEF Records
<1>5. CASE ~(EndCall(i, Unsuccessful("failed")) /\ queries' = queries)
  <2> DEFINE shut == invoking[i].ask.tool \in Telemetry /\ ~clientsOpen
  <2>1. /\ invoking' = [invoking EXCEPT ![i].at = IF shut THEN "withdrawing" ELSE "querying",
                                        ![i].cause = IF shut THEN "failed" ELSE "none"]
        /\ queries' = [queries EXCEPT ![i] = IF shut THEN {} ELSE invoking[i].ask.signals]
        /\ invoked' = invoked
    BY <1>5 DEF Resolve
  <2>2. PICK s \in ToolSteps : s = IF shut THEN "withdrawing" ELSE "querying"
    <3> QED BY DEF ToolSteps
  <2>3. PICK c \in ToolCauses : c = IF shut THEN "failed" ELSE "none"
    <3> QED BY DEF ToolCauses
  <2>4. invoking' = [invoking EXCEPT ![i].at = s, ![i].cause = c]
    BY <2>1, <2>2, <2>3
  <2>5. DOMAIN queries' = Invocation /\ DOMAIN findings' = Invocation
    BY <1>1, <1>2, <2>1 DEF ToolCallsTyped
  <2>6. /\ queries'[i] \subseteq invoking[i].ask.signals
        /\ \A j \in Invocation : j # i => queries'[j] = queries[j] /\ findings'[j] = findings[j]
        /\ findings'[i] = {}
    <3> HIDE DEF shut
    <3> QED BY <1>1, <1>2, <1>3, <2>1 DEF ToolCallsTyped
  <2>7. s \in {"querying", "withdrawing"} /\ s # "ended" /\ s # "calling"
    BY <2>2
  <2>8. HasSlot(i)
    BY <1>1 DEF HasSlot
  <2> HIDE DEF shut
  <2> QED BY <1>1, <1>3, <2>1, <2>4, <2>5, <2>6, <2>7, <2>8, GoesOnTo
<1> QED BY <1>4, <1>5

LEMMA WithdrawKeeps ==
  ASSUME NEW A, ToolCallsInv(A), NEW i \in Invocation, Withdraw(i)
  PROVE  MovesOne(A, i)
<1>1. /\ invoking[i].at = "withdrawing" /\ queries[i] = {}
      /\ EndCall(i, Unsuccessful(invoking[i].cause))
      /\ UNCHANGED <<queries, findings, withdrawn, clientsOpen, mcpAudit>>
  BY DEF Withdraw
<1>2. StageFits(i) /\ invoking[i].cause \in ToolCauses
  BY DEF ToolCallsInv, ToolCallFits, ToolCallsTyped, ToolCallRow
<1>3. i \in withdrawn => invoking[i].cause = "cancelled"
  BY <1>1, <1>2 DEF StageFits
<1>4. PICK how \in {"none", "refused", "failed", "timeout", "cancelled"} : how = invoking[i].cause
  BY <1>2 DEF ToolCauses
<1> QED BY <1>1, <1>3, <1>4, EndsBadly DEF Records

LEMMA QueryGoneKeeps ==
  ASSUME NEW A, ToolCallsInv(A), NEW i \in Invocation, NEW q, QueryGone(i, q)
  PROVE  MovesOne(A, i)
<1>1. /\ invoking[i].at = "withdrawing" /\ queries' = [queries EXCEPT ![i] = @ \ {q}]
      /\ UNCHANGED <<invoking, findings, invoked, withdrawn, clientsOpen, mcpAudit>>
  BY DEF QueryGone
<1>2. ToolCallsTyped(A) /\ StageFits(i) /\ FindingsFit(i) /\ ResultFits(i)
  BY DEF ToolCallsInv, ToolCallFits
<1>3. /\ DOMAIN queries' = Invocation /\ queries'[i] = queries[i] \ {q}
      /\ \A j \in Invocation : j # i => queries'[j] = queries[j]
  BY <1>1, <1>2 DEF ToolCallsTyped
<1>4. ToolCallsTyped(A)'
  BY <1>1, <1>2, <1>3 DEF ToolCallsTyped
<1>5. StageFits(i)'
  BY <1>1, <1>2, <1>3 DEF StageFits
<1>6. FindingsFit(i)'
  BY <1>1, <1>2, <1>3 DEF FindingsFit
<1>7. ResultFits(i)'
  BY <1>1, <1>2 DEF ResultFits
<1> QED BY <1>1, <1>3, <1>4, <1>5, <1>6, <1>7 DEF MovesOne, ToolCallFits, Touches, Records, HasSlot

LEMMA StopKeeps ==
  ASSUME NEW A, ToolCallsInv(A), NEW i \in Invocation, TimesOut(i) \/ CancelCall(i)
  PROVE  MovesOne(A, i)
<1>1. /\ CallGoesOn(i) /\ i \notin withdrawn /\ UNCHANGED <<queries, findings, clientsOpen>>
      /\ Records(i) /\ (invoking[i].at # "calling" => mcpAudit' = mcpAudit)
  BY DEF TimesOut, CancelCall, Records
<1>2. ToolCallsTyped(A) /\ StageFits(i) /\ FindingsFit(i) /\ invoking[i].cause \in ToolCauses
  BY DEF ToolCallsInv, ToolCallFits, ToolCallsTyped, ToolCallRow
<1>3. PICK c \in ToolCauses : /\ Stopped(i, c) /\ c \in {"timeout", "cancelled"}
                              /\ \/ withdrawn' = withdrawn
                                 \/ withdrawn' = withdrawn \cup {i} /\ c = "cancelled"
  <2>1. "timeout" \in ToolCauses /\ "cancelled" \in ToolCauses
    BY DEF ToolCauses
  <2> QED BY <2>1 DEF TimesOut, CancelCall
<1>4. CASE invoking[i].at \in {"queued", "resolving", "calling"}
  <2>1. EndCall(i, Unsuccessful(c))
    BY <1>3, <1>4 DEF Stopped
  <2>2. queries[i] = {}
    BY <1>2, <1>4 DEF StageFits
  <2>3. c \in {"none", "refused", "failed", "timeout", "cancelled"}
    BY <1>3
  <2>4. invoking[i].at # "ended"
    BY <1>4
  <2> QED BY <1>1, <1>3, <2>1, <2>2, <2>3, <2>4, EndsBadly
<1>5. CASE invoking[i].at \in {"querying", "withdrawing"}
  <2>1. /\ invoking' = [invoking EXCEPT ![i].at = "withdrawing", ![i].cause = c]
        /\ invoked' = invoked
    BY <1>3, <1>5 DEF Stopped
  <2>2. PICK s \in ToolSteps : s = "withdrawing"
    BY DEF ToolSteps
  <2>3. invoking' = [invoking EXCEPT ![i].at = s, ![i].cause = c]
    BY <2>1, <2>2
  <2>4. DOMAIN queries' = Invocation /\ DOMAIN findings' = Invocation
    BY <1>1, <1>2 DEF ToolCallsTyped
  <2>5. /\ queries'[i] \subseteq invoking[i].ask.signals /\ invoking[i].ask.tool # "mcp"
        /\ invoking[i].ask.limit \in Nat \ {0}
    BY <1>1, <1>2, <1>5 DEF StageFits
  <2>6. /\ \A p \in findings'[i] : /\ p[1] \in invoking[i].ask.signals /\ p[1] \notin queries'[i]
                                   /\ KeptFinding(invoking[i].ask, p[2])
        /\ \A p, q \in findings'[i] : p[1] = q[1] => p = q
        /\ invoking[i].ask.tool \notin Telemetry \cup StoredTools => findings'[i] = {}
    BY <1>1, <1>2 DEF FindingsFit
  <2>7. HasSlot(i) /\ mcpAudit' = mcpAudit /\ invoking[i].at # "ended"
    BY <1>1, <1>5 DEF HasSlot
  <2>8. \A j \in Invocation : j # i => queries'[j] = queries[j] /\ findings'[j] = findings[j]
    BY <1>1
  <2>9. \/ withdrawn' = withdrawn /\ (i \in withdrawn => s = "withdrawing" /\ c = "cancelled")
        \/ withdrawn' = withdrawn \cup {i} /\ s = "withdrawing" /\ c = "cancelled"
    BY <1>1, <1>3, <2>2
  <2>10. UNCHANGED <<invoked, clientsOpen, mcpAudit>>
    BY <1>1, <2>1, <2>7
  <2>11. s # "ended" /\ s \notin {"idle", "queued", "resolving", "calling"}
    BY <2>2
  <2> QED BY <2>2, <2>3, <2>4, <2>5, <2>6, <2>7, <2>8, <2>9, <2>10, <2>11, GoesOnTo
<1> QED BY <1>1, <1>4, <1>5 DEF CallGoesOn
----------------------------------------------------------------------------
(* What a query brings.                                                     *)

\* The signals of a call share what it may show.
LEMMA ShareIsFair ==
  ASSUME NEW ask, ask.limit \in Nat, IsFiniteSet(ask.signals), ask.signals # {}
  PROVE  /\ Share(ask) \in Nat
         /\ Share(ask) * Cardinality(ask.signals) <= ask.limit
         /\ Share(ask) * Cardinality(ask.signals) <= MaxItems
<1> DEFINE n == Cardinality(ask.signals)
           m == Min({ask.limit, MaxItems})
<1>1. n \in Nat \ {0}
  BY FS_CardinalityType, FS_EmptySet
<1>2. m \in Nat /\ m <= ask.limit /\ m <= MaxItems
  <2>1. ask.limit \in Int /\ MaxItems \in Int /\ MaxItems \in Nat
    BY ToolNumbers
  <2>2. m \in {ask.limit, MaxItems} /\ m <= ask.limit /\ m <= MaxItems
    BY <2>1, LeastOfTwo
  <2> HIDE DEF m
  <2> QED BY <2>1, <2>2
<1>3. Share(ask) = m \div n
  BY DEF Share
<1> HIDE DEF n, m
<1>4. m \div n \in Nat /\ n * (m \div n) <= m
  BY <1>1, <1>2
<1>5. Share(ask) * n <= m /\ Share(ask) * n \in Nat
  BY <1>1, <1>2, <1>3, <1>4
<1>6. Share(ask) * n <= ask.limit /\ Share(ask) * n <= MaxItems
  BY <1>2, <1>5, ToolNumbers
<1> QED BY <1>3, <1>4, <1>6 DEF n

LEMMA FindingIsKept ==
  ASSUME NEW ask, NEW n \in 0..ShownQuota(ask), NEW c \in BOOLEAN, NEW w \in BOOLEAN, c \/ w
  PROVE  KeptFinding(ask, Finding(n, c, w))
BY DEF KeptFinding, Finding

LEMMA TelemetryIsKept ==
  ASSUME NEW ask, ask.tool \in Telemetry, Share(ask) \in Nat,
         NEW a \in BackendAnswers, SentByBackend(a, Share(ask), ask.tool # "logs"),
         ReadTelemetry(ask, a, Share(ask)).ok
  PROVE  KeptFinding(ask, ReadTelemetry(ask, a, Share(ask)))
<1> DEFINE limit == Share(ask)
<1>1. /\ a.found \in 0..3 /\ a.sent \in 0..3 /\ a.broken \in 0..2 /\ a.partial \in BOOLEAN
      /\ a.sent <= a.found /\ a.broken <= a.sent
  BY DEF BackendAnswers
<1>2. Min({a.found, limit}) \in {a.found, limit}
  <2>1. a.found \in Int /\ limit \in Int
    BY <1>1
  <2> HIDE DEF limit
  <2> QED BY <2>1, LeastOfTwo
<1>3. /\ a.sent = a.found \/ a.sent = limit \/ a.partial
      /\ a.partial => ask.tool # "logs"
  BY <1>1, <1>2 DEF SentByBackend
<1>4. ~Unreadable.ok
  BY DEF Unreadable
<1> HIDE DEF limit
<1>5. CASE ask.tool = "metrics"
  <2>1. ReadTelemetry(ask, a, Share(ask)) = ReadMatrix(a, limit, ask.window)
    BY <1>5 DEF ReadTelemetry, limit
  <2>2. /\ a.sent <= limit
        /\ ReadMatrix(a, limit, ask.window) =
             Finding(a.sent, a.sent = limit \/ a.partial, a.sent = a.found)
    BY <1>1, <1>4, <2>1 DEF ReadMatrix, limit
  <2>3. a.sent \in 0..limit /\ (a.sent = limit \/ a.partial \/ a.sent = a.found)
    BY <1>1, <1>3, <2>2 DEF limit
  <2>4. ShownQuota(ask) = limit
    BY DEF ShownQuota, limit
  <2>5. PICK c \in BOOLEAN : c = (a.sent = limit \/ a.partial)
    BY <1>1
  <2>6. PICK w \in BOOLEAN : w = (a.sent = a.found)
    OBVIOUS
  <2>7. c \/ w
    BY <2>3, <2>5, <2>6
  <2>8. KeptFinding(ask, Finding(a.sent, c, w))
    BY <2>3, <2>4, <2>7, FindingIsKept
  <2> QED BY <2>1, <2>2, <2>5, <2>6, <2>8
<1>6. CASE ask.tool = "logs"
  <2>1. ReadTelemetry(ask, a, Share(ask)) = ReadStreams(a, limit)
    BY <1>6 DEF ReadTelemetry, limit
  <2>2. /\ a.sent <= limit
        /\ ReadStreams(a, limit) = Finding(a.sent, a.sent = limit, a.sent = a.found)
    BY <1>1, <1>4, <2>1 DEF ReadStreams, limit
  <2>3. a.sent \in 0..limit /\ (a.sent = limit \/ a.sent = a.found)
    BY <1>1, <1>3, <1>6, <2>2 DEF limit
  <2>4. ShownQuota(ask) = limit
    BY DEF ShownQuota, limit
  <2>5. PICK c \in BOOLEAN : c = (a.sent = limit)
    BY <1>1
  <2>6. PICK w \in BOOLEAN : w = (a.sent = a.found)
    OBVIOUS
  <2>7. c \/ w
    BY <2>3, <2>5, <2>6
  <2>8. KeptFinding(ask, Finding(a.sent, c, w))
    BY <2>3, <2>4, <2>7, FindingIsKept
  <2> QED BY <2>1, <2>2, <2>5, <2>6, <2>8
<1>7. CASE ask.tool = "traces"
  <2> DEFINE shown == IF a.broken = 0 THEN a.sent ELSE a.broken - 1
  <2>1. ReadTelemetry(ask, a, Share(ask)) = ReadTraces(a, limit)
    BY <1>7 DEF ReadTelemetry, limit
  <2>2. /\ a.sent <= limit
        /\ ReadTraces(a, limit) =
             Finding(shown, shown = limit \/ a.partial \/ a.broken # 0, shown = a.found)
    BY <1>1, <1>4, <2>1 DEF ReadTraces, limit
  <2>3. shown \in 0..limit /\ (shown = limit \/ a.partial \/ a.broken # 0 \/ shown = a.found)
    BY <1>1, <1>3, <2>2 DEF limit
  <2> HIDE DEF shown
  <2>4. ShownQuota(ask) = limit
    BY DEF ShownQuota, limit
  <2>5. PICK c \in BOOLEAN : c = (shown = limit \/ a.partial \/ a.broken # 0)
    BY <1>1
  <2>6. PICK w \in BOOLEAN : w = (shown = a.found)
    OBVIOUS
  <2>7. c \/ w
    BY <2>3, <2>5, <2>6
  <2>8. KeptFinding(ask, Finding(shown, c, w))
    BY <2>3, <2>4, <2>7, FindingIsKept
  <2> QED BY <2>1, <2>2, <2>5, <2>6, <2>8
<1> QED BY <1>5, <1>6, <1>7 DEF Telemetry

LEMMA StoredIsKept ==
  ASSUME NEW ask, ask.tool \in StoredTools, ask.limit \in Nat, NEW rows \in StoredRows,
         ReadStored(rows, ask.limit).ok
  PROVE  KeptFinding(ask, ReadStored(rows, ask.limit))
<1>1. Len(rows) \in Nat
  BY DEF StoredRows
<1> DEFINE most == Min({ask.limit, Len(rows)})
           fit == {n \in 0..most : SizeUpTo(rows, n) <= RoomFor}
           shown == FittingItems(rows, ask.limit)
<1>2. most \in Nat /\ most <= ask.limit /\ most <= Len(rows)
  <2>1. ask.limit \in Int /\ Len(rows) \in Int
    BY <1>1
  <2>2. most \in {ask.limit, Len(rows)} /\ most <= ask.limit /\ most <= Len(rows)
    BY <2>1, LeastOfTwo
  <2> HIDE DEF most
  <2> QED BY <1>1, <2>2
<1>3. fit \subseteq 0..most /\ 0 \in fit
  <2>1. SizeUpTo(rows, 0) <= RoomFor
    BY NothingWeighsNothing, ToolNumbers
  <2> HIDE DEF most
  <2> QED BY <1>2, <2>1
<1>4. \E n \in fit : \A m \in fit : m <= n
  <2> HIDE DEF most, fit
  <2> QED BY <1>2, <1>3, GreatestOf
<1>5. \E n \in fit : \A m \in fit : n >= m
  BY <1>2, <1>4
<1>6. shown \in fit
  <2> HIDE DEF fit
  <2>1. Max(fit) \in fit
    BY <1>5 DEF Max
  <2> QED BY <2>1 DEF FittingItems, fit
<1>7. shown \in 0..ask.limit /\ shown <= Len(rows)
  <2> HIDE DEF most, shown
  <2> QED BY <1>1, <1>2, <1>6
<1>8. ReadStored(rows, ask.limit) = Finding(shown, shown < Len(rows), shown = Len(rows))
  BY DEF ReadStored, Unreadable
<1>9. shown < Len(rows) \/ shown = Len(rows)
  <2> HIDE DEF shown
  <2> QED BY <1>1, <1>7
<1>10. ask.tool \notin Telemetry
  BY DEF StoredTools, Telemetry
<1>11. ShownQuota(ask) = ask.limit
  BY <1>10 DEF ShownQuota
<1> HIDE DEF shown
<1>12. PICK c \in BOOLEAN : c <=> shown < Len(rows)
  OBVIOUS
<1>13. PICK w \in BOOLEAN : w = (shown = Len(rows))
  OBVIOUS
<1>14. c \/ w
  BY <1>9, <1>12, <1>13
<1>15. KeptFinding(ask, Finding(shown, c, w))
  BY <1>7, <1>11, <1>14, FindingIsKept
<1>16. (shown < Len(rows)) = c
  BY <1>12
<1> QED BY <1>8, <1>13, <1>15, <1>16

\* The results of the queries are fewer than the signals.
LEMMA FindingsAreFew ==
  ASSUME NEW i, FindingsFit(i), IsFiniteSet(invoking[i].ask.signals)
  PROVE  /\ IsFiniteSet(findings[i])
         /\ Cardinality(findings[i]) <= Cardinality(invoking[i].ask.signals)
<1> DEFINE S == findings[i]
           T == invoking[i].ask.signals
           f == [p \in S |-> p[1]]
<1>1. f \in [S -> T] /\ \A p, q \in S : f[p] = f[q] => p = q
  BY DEF FindingsFit
<1>2. f \in Injection(S, T)
  BY <1>1 DEF Injection, IsInjective
<1> HIDE DEF f, S, T
<1>3. IsFiniteSet(T)
  BY DEF T
<1>4. IsFiniteSet(S) /\ Cardinality(S) <= Cardinality(T)
  BY <1>2, <1>3, FS_Injection
<1> QED BY <1>4 DEF S, T
\* What a query leaves behind that has given a result.
LEMMA NoteKeeps ==
  ASSUME NEW A, ToolCallsInv(A), NEW i \in Invocation, NEW q \in queries[i], NEW finding,
         KeptFinding(invoking[i].ask, finding), Note(i, q, finding),
         invoking[i].ask.tool \in Telemetry \cup StoredTools, invoking[i].at = "querying",
         UNCHANGED <<invoking, invoked, withdrawn, clientsOpen, mcpAudit>>
  PROVE  MovesOne(A, i)
<1>1. ToolCallsTyped(A) /\ StageFits(i) /\ FindingsFit(i) /\ ResultFits(i)
  BY DEF ToolCallsInv, ToolCallFits
<1>2. /\ DOMAIN queries' = Invocation /\ queries'[i] = queries[i] \ {q}
      /\ DOMAIN findings' = Invocation /\ findings'[i] = findings[i] \cup {<<q, finding>>}
      /\ \A j \in Invocation : j # i => queries'[j] = queries[j] /\ findings'[j] = findings[j]
  BY <1>1 DEF ToolCallsTyped, Note
<1>3. ToolCallsTyped(A)'
  BY <1>1, <1>2 DEF ToolCallsTyped
<1>4. StageFits(i)'
  BY <1>1, <1>2 DEF StageFits
<1>5. FindingsFit(i)'
  <2>1. KeptFinding(invoking[i].ask, finding)'
    BY DEF KeptFinding, ShownQuota, Share
  <2>2. <<q, finding>>[1] = q /\ <<q, finding>>[2] = finding
    OBVIOUS
  <2>3. q \in invoking[i].ask.signals /\ \A p \in findings[i] : p[1] # q
    BY <1>1 DEF StageFits, FindingsFit
  <2>4. \A p \in findings'[i] : p \in findings[i] \/ p = <<q, finding>>
    BY <1>2
  <2>5. \A p \in findings'[i] : /\ p[1] \in invoking[i].ask.signals /\ p[1] \notin queries'[i]
                                /\ KeptFinding(invoking[i].ask, p[2])
    BY <1>1, <1>2, <2>2, <2>3, <2>4 DEF FindingsFit
  <2>6. \A p, r \in findings'[i] : p[1] = r[1] => p = r
    BY <1>1, <2>2, <2>3, <2>4 DEF FindingsFit
  <2>7. \A p \in findings'[i] : KeptFinding(invoking[i].ask, p[2])'
    BY <2>5 DEF KeptFinding, ShownQuota, Share
  <2> QED BY <2>5, <2>6, <2>7 DEF FindingsFit
<1>6. ResultFits(i)'
  BY <1>1 DEF ResultFits
<1> QED BY <1>2, <1>3, <1>4, <1>5, <1>6 DEF MovesOne, ToolCallFits, Touches, Records, HasSlot

LEMMA QueryFailsKeeps ==
  ASSUME NEW A, ToolCallsInv(A), NEW i \in Invocation, NEW q \in queries[i], QueryFails(i, q),
         invoking[i].at = "querying", UNCHANGED <<invoked, withdrawn, clientsOpen, mcpAudit>>
  PROVE  MovesOne(A, i)
<1>1. ToolCallsTyped(A) /\ StageFits(i) /\ FindingsFit(i)
  BY DEF ToolCallsInv, ToolCallFits
<1>2. /\ DOMAIN queries' = Invocation /\ queries'[i] = queries[i] \ {q}
      /\ DOMAIN findings' = Invocation /\ findings' = findings
      /\ \A j \in Invocation : j # i => queries'[j] = queries[j] /\ findings'[j] = findings[j]
  BY <1>1 DEF ToolCallsTyped, QueryFails
<1>3. PICK s \in ToolSteps : s = "withdrawing"
  BY DEF ToolSteps
<1>4. PICK c \in ToolCauses : c = "failed"
  BY DEF ToolCauses
<1>5. invoking' = [invoking EXCEPT ![i].at = s, ![i].cause = c]
  BY <1>3, <1>4 DEF QueryFails
<1>6. /\ i \notin withdrawn /\ invoking[i].ask.tool # "mcp"
      /\ invoking[i].ask.limit \in Nat \ {0} /\ queries'[i] \subseteq invoking[i].ask.signals
  BY <1>1, <1>2 DEF StageFits
<1>7. /\ \A p \in findings'[i] : /\ p[1] \in invoking[i].ask.signals /\ p[1] \notin queries'[i]
                                 /\ KeptFinding(invoking[i].ask, p[2])
      /\ \A p, r \in findings'[i] : p[1] = r[1] => p = r
      /\ invoking[i].ask.tool \notin Telemetry \cup StoredTools => findings'[i] = {}
  BY <1>1, <1>2 DEF FindingsFit
<1>8. HasSlot(i)
  BY DEF HasSlot
<1> QED BY <1>2, <1>3, <1>4, <1>5, <1>6, <1>7, <1>8, GoesOnTo

LEMMA QueryReturnsKeeps ==
  ASSUME NEW A, CallAsks(A), ToolCallsInv(A), NEW i \in Invocation, NEW q, QueryReturns(i, q)
  PROVE  MovesOne(A, i)
<1>1. /\ invoking[i].at = "querying" /\ q \in queries[i]
      /\ UNCHANGED <<invoked, withdrawn, clientsOpen, mcpAudit>>
  BY DEF QueryReturns
<1>2. ToolCallsTyped(A) /\ StageFits(i) /\ invoking[i].ask \in A /\ invoking[i].ask.limit \in Nat
  BY <1>1 DEF ToolCallsInv, ToolCallFits, ToolCallsTyped, ToolCallRow, StageFits
<1> DEFINE ask == invoking[i].ask
           Use(finding) == IF finding.ok THEN Note(i, q, finding) /\ UNCHANGED invoking
                           ELSE QueryFails(i, q)
<1>3. CASE QueryFails(i, q)
  BY <1>1, <1>3, QueryFailsKeeps
<1>4. ASSUME ask.tool \in Telemetry, NEW a \in BackendAnswers,
             SentByBackend(a, Share(ask), ask.tool # "logs"),
             Use(ReadTelemetry(ask, a, Share(ask))), ~QueryFails(i, q)
      PROVE  MovesOne(A, i)
  <2>1. PICK finding : finding = ReadTelemetry(ask, a, Share(ask))
    OBVIOUS
  <2>2. finding.ok /\ Note(i, q, finding) /\ UNCHANGED invoking
    BY <1>4, <2>1
  <2>3. IsFiniteSet(ask.signals) /\ ask.signals # {}
    BY <1>2, <1>4 DEF CallAsks
  <2>4. Share(ask) \in Nat
    BY <1>2, <2>3, ShareIsFair
  <2>5. KeptFinding(ask, finding)
    <3> HIDE DEF ask
    <3> QED BY <1>4, <2>1, <2>2, <2>4, TelemetryIsKept
  <2> QED BY <1>1, <1>4, <2>2, <2>5, NoteKeeps
<1>5. ASSUME ask.tool \in StoredTools, NEW rows \in StoredRows,
             Use(ReadStored(rows, ask.limit)), ~QueryFails(i, q)
      PROVE  MovesOne(A, i)
  <2>1. PICK finding : finding = ReadStored(rows, ask.limit)
    OBVIOUS
  <2>2. finding.ok /\ Note(i, q, finding) /\ UNCHANGED invoking
    BY <1>5, <2>1
  <2>3. KeptFinding(ask, finding)
    <3>1. ask.limit \in Nat
      BY <1>2
    <3> HIDE DEF ask
    <3> QED BY <1>5, <2>1, <2>2, <3>1, StoredIsKept
  <2> QED BY <1>1, <1>5, <2>2, <2>3, NoteKeeps
<1> QED BY <1>3, <1>4, <1>5 DEF QueryReturns

----------------------------------------------------------------------------
(* Results.                                                                 *)

\* Whatever a value holds and where it stands, sanitized it gives nothing away.
LEMMA SanitizedIsClean ==
  ASSUME NEW v \in Values
  PROVE  ~Leaks(Sanitized(v))
<1> DEFINE Forms == [names : {v.names}, text : {"plain", "secret", "crossing"}]
<1>1. v.text \in {"plain", "secret", "crossing"} /\ v = ValueOf(v.names, v.text)
  BY DEF Values, ValueOf
<1>2. PICK w : w = Sanitized(v)
  OBVIOUS
<1> DEFINE clean == IF Sensitive(v.names) THEN "blotted" ELSE CleanText(v.text)
<1>3. PICK u : u = [v EXCEPT !.text = clean]
  OBVIOUS
<1>4. v = [names |-> v.names, text |-> v.text]
  BY <1>1 DEF ValueOf
<1>5. u = [names |-> v.names, text |-> clean]
  <2> HIDE DEF clean
  <2> QED BY <1>3, <1>4
<1>6. w = u
  BY <1>2, <1>3 DEF Sanitized
<1>7. w.names = v.names /\ w.text = clean
  <2> HIDE DEF clean
  <2> QED BY <1>5, <1>6
<1>8. CleanText(v.text) \in {"plain", "blotted"}
  BY <1>1 DEF CleanText, Truncated, Redacted
<1>9. CASE Sensitive(v.names)
  BY <1>2, <1>7, <1>9 DEF Leaks
<1>10. CASE ~Sensitive(v.names)
  BY <1>2, <1>7, <1>8, <1>10 DEF Leaks
<1> QED BY <1>9, <1>10

\* A result that is told, of the executor's calls or a foreign server's.
LEMMA EndsWell ==
  ASSUME NEW A, ToolCallsInv(A), NEW i \in Invocation, NEW result, EndCall(i, result),
         invoking[i].at # "ended", queries[i] = {}, i \notin withdrawn,
         UNCHANGED <<queries, findings, withdrawn, clientsOpen>>, Records(i),
         result.how = "ok",
         invoking[i].ask.tool # "mcp" =>
           /\ result.shown <= invoking[i].ask.limit
           /\ invoking[i].ask.tool \in Telemetry => result.shown <= MaxItems
           /\ result.cut \/ result.whole
           /\ ~result.leaks,
         invoking[i].ask.tool = "mcp" => <<i, "SUCCEEDED">> \in mcpAudit'
  PROVE  MovesOne(A, i)
<1>1. ToolCallsTyped(A) /\ ToolCallFits(i) /\ invoking[i].cause \in ToolCauses
  BY DEF ToolCallsInv, ToolCallsTyped, ToolCallRow
<1>2. invoking' = [invoking EXCEPT ![i].at = "ended"]
  BY DEF EndCall, MoveCall
<1>3. /\ invoking' \in [Invocation -> ToolCallRow(A)]
      /\ invoking'[i].at = "ended" /\ invoking'[i].ask = invoking[i].ask
      /\ \A j \in Invocation : j # i => invoking'[j] = invoking[j]
  <2>1. PICK c \in ToolCauses : c = invoking[i].cause
    BY <1>1
  <2>2. PICK s \in ToolSteps : s = "ended"
    BY DEF ToolSteps
  <2>3. invoking' = [invoking EXCEPT ![i].at = s]
    BY <1>2, <2>2
  <2> QED BY <1>1, <2>1, <2>2, <2>3, InvocationMoves
<1>4. /\ DOMAIN invoked' = Invocation /\ invoked'[i] = result
      /\ \A j \in Invocation : j # i => invoked'[j] = invoked[j]
  BY <1>1 DEF EndCall, ToolCallsTyped
<1>5. ToolCallsTyped(A)'
  BY <1>1, <1>3, <1>4 DEF ToolCallsTyped
<1>6. StageFits(i)'
  BY <1>3, <1>4 DEF StageFits
<1>7. FindingsFit(i)'
  BY <1>1, <1>3 DEF FindingsFit, ToolCallFits, KeptFinding, ShownQuota, Share
<1>8. ResultFits(i)'
  BY <1>3, <1>4 DEF ResultFits
<1>9. Touches(i)
  BY <1>3, <1>4 DEF Touches
<1>10. ~HasSlot(i)'
  BY <1>3 DEF HasSlot
<1> QED BY <1>5, <1>6, <1>7, <1>8, <1>9, <1>10 DEF MovesOne, ToolCallFits

\* All together a call shows what it may, and says when that is not all.
LEMMA SumIsHonest ==
  ASSUME NEW A, CallAsks(A), ToolCallsInv(A), NEW i \in Invocation, invoking[i].at = "querying"
  PROVE  LET shown == MapThenSumSet(LAMBDA f : f[2].shown, findings[i]) IN
         /\ shown <= invoking[i].ask.limit
         /\ invoking[i].ask.tool \in Telemetry => shown <= MaxItems
         /\ (\E f \in findings[i] : f[2].cut) \/ (\A f \in findings[i] : f[2].whole)
<1> DEFINE ask == invoking[i].ask
           S == findings[i]
           n == Cardinality(ask.signals)
           k == IF S = {} THEN 0 ELSE ShownQuota(ask)
<1>1. FindingsFit(i) /\ ask \in A /\ ask.limit \in Nat
  BY DEF ToolCallsInv, ToolCallFits, ToolCallsTyped, ToolCallRow, StageFits
<1>2. IsFiniteSet(ask.signals)
  BY <1>1 DEF CallAsks
<1>3. IsFiniteSet(S) /\ Cardinality(S) <= n /\ Cardinality(S) \in Nat /\ n \in Nat
  BY <1>1, <1>2, FindingsAreFew, FS_CardinalityType
<1>4. S # {} => ask.tool \in Telemetry \cup StoredTools
  BY <1>1 DEF FindingsFit
<1>5. k \in Nat /\ k * n <= ask.limit /\ (ask.tool \in Telemetry => k * n <= MaxItems)
  <2>1. CASE S = {}
    <3>1. k = 0
      BY <2>1
    <3>2. 0 * n = 0
      BY <1>3
    <3> HIDE DEF k, n
    <3> QED BY <1>1, <3>1, <3>2, ToolNumbers
  <2>2. CASE S # {} /\ ask.tool \in Telemetry
    <3>1. k = Share(ask)
      BY <2>2 DEF ShownQuota
    <3>2. /\ Share(ask) \in Nat /\ Share(ask) * n <= ask.limit /\ Share(ask) * n <= MaxItems
      <4>1. ask.signals # {}
        BY <1>1, <2>2 DEF CallAsks
      <4> HIDE DEF ask
      <4> QED BY <1>1, <1>2, <4>1, ShareIsFair
    <3> HIDE DEF k, n
    <3> QED BY <3>1, <3>2
  <2>3. CASE S # {} /\ ask.tool \in StoredTools
    <3>1. k = ask.limit /\ ask.tool \notin Telemetry
      BY <2>3 DEF ShownQuota, Telemetry, StoredTools
    <3>2. n = 1
      BY <1>1, <2>3 DEF CallAsks
    <3>3. ask.limit * 1 = ask.limit
      BY <1>1
    <3> HIDE DEF k, n, ask
    <3> QED BY <1>1, <3>1, <3>2, <3>3
  <2> QED BY <1>4, <2>1, <2>2, <2>3
<1>6. \A f \in S : f[2].shown \in 0..k
  BY <1>1 DEF FindingsFit, KeptFinding
<1>7. PICK shown : shown = MapThenSumSet(LAMBDA f : f[2].shown, S)
  OBVIOUS
<1>8. shown \in 0..(k * Cardinality(S))
  <2> HIDE DEF k, S
  <2> QED BY <1>3, <1>5, <1>6, <1>7, ShownIsBounded
<1>9. k * Cardinality(S) <= k * n /\ k * Cardinality(S) \in Nat /\ k * n \in Nat
  <2> HIDE DEF k, n, S
  <2> QED BY <1>3, <1>5
<1>10. shown <= ask.limit /\ (ask.tool \in Telemetry => shown <= MaxItems)
  <2> HIDE DEF k, n, S, ask
  <2> QED BY <1>1, <1>5, <1>8, <1>9, ToolNumbers
<1>11. (\E f \in S : f[2].cut) \/ (\A f \in S : f[2].whole)
  BY <1>1 DEF FindingsFit, KeptFinding
<1> QED BY <1>7, <1>10, <1>11

LEMMA FinishCallKeeps ==
  ASSUME NEW A, CallAsks(A), ToolCallsInv(A), NEW i \in Invocation, FinishCall(i)
  PROVE  MovesOne(A, i)
<1>1. /\ invoking[i].at = "querying" /\ queries[i] = {}
      /\ UNCHANGED <<queries, findings, withdrawn, clientsOpen, mcpAudit>>
  BY DEF FinishCall
<1>2. i \notin withdrawn /\ invoking[i].ask.tool # "mcp"
  BY <1>1 DEF ToolCallsInv, ToolCallFits, StageFits
<1>3. PICK v \in Values :
        \/ EndCall(i, Unsuccessful("failed"))
        \/ EndCall(i, [how |-> "ok",
                       shown |-> MapThenSumSet(LAMBDA f : f[2].shown, findings[i]),
                       cut |-> \E f \in findings[i] : f[2].cut,
                       whole |-> \A f \in findings[i] : f[2].whole,
                       leaks |-> Leaks(Sanitized(v))])
  BY DEF FinishCall
<1>4. CASE EndCall(i, Unsuccessful("failed"))
  BY <1>1, <1>2, <1>4, EndsBadly DEF Records
<1>5. CASE EndCall(i, [how |-> "ok",
                       shown |-> MapThenSumSet(LAMBDA f : f[2].shown, findings[i]),
                       cut |-> \E f \in findings[i] : f[2].cut,
                       whole |-> \A f \in findings[i] : f[2].whole,
                       leaks |-> Leaks(Sanitized(v))])
  <2>1. PICK shown : shown = MapThenSumSet(LAMBDA f : f[2].shown, findings[i])
    OBVIOUS
  <2>2. PICK cut \in BOOLEAN : cut <=> \E f \in findings[i] : f[2].cut
    OBVIOUS
  <2>3. PICK whole \in BOOLEAN : whole <=> \A f \in findings[i] : f[2].whole
    OBVIOUS
  <2>4. PICK result :
          result = [how |-> "ok",
                    shown |-> MapThenSumSet(LAMBDA f : f[2].shown, findings[i]),
                    cut |-> \E f \in findings[i] : f[2].cut,
                    whole |-> \A f \in findings[i] : f[2].whole,
                    leaks |-> Leaks(Sanitized(v))]
    OBVIOUS
  <2>5. EndCall(i, result)
    BY <1>5, <2>4
  <2>6. result.how = "ok" /\ result.shown = shown
    BY <2>1, <2>4
  <2>7. result.cut \/ result.whole
    BY <1>1, <2>4, SumIsHonest
  <2>8. ~result.leaks
    BY <2>4, SanitizedIsClean
  <2>9. shown <= invoking[i].ask.limit /\ (invoking[i].ask.tool \in Telemetry => shown <= MaxItems)
    BY <1>1, <2>1, SumIsHonest
  <2> QED BY <1>1, <1>2, <2>5, <2>6, <2>7, <2>8, <2>9, EndsWell DEF Records
<1> QED BY <1>3, <1>4, <1>5

----------------------------------------------------------------------------
(* Tools of a foreign server, and the clients of the process.               *)

LEMMA CallServerKeeps ==
  ASSUME NEW A, ToolCallsInv(A), NEW i \in Invocation, CallServer(i)
  PROVE  MovesOne(A, i)
<1>1. /\ invoking[i].at = "idle" /\ invoking[i].ask.tool = "mcp"
      /\ UNCHANGED <<queries, findings, withdrawn, clientsOpen, mcpAudit>>
  BY DEF CallServer
<1>2. ToolCallsTyped(A) /\ StageFits(i) /\ FindingsFit(i) /\ invoking[i].cause \in ToolCauses
  BY DEF ToolCallsInv, ToolCallFits, ToolCallsTyped, ToolCallRow
<1>3. queries[i] = {} /\ findings[i] = {} /\ i \notin withdrawn
  BY <1>1, <1>2 DEF StageFits
<1>4. CASE Allowed(invoking[i].ask.binding)
  <2>1. invoking' = [invoking EXCEPT ![i].at = "calling"] /\ invoked' = invoked
    BY <1>4 DEF CallServer, MoveCall
  <2>2. PICK s \in ToolSteps : s = "calling"
    BY DEF ToolSteps
  <2>3. PICK c \in ToolCauses : c = invoking[i].cause
    BY <1>2
  <2>4. invoking' = [invoking EXCEPT ![i].at = s]
    BY <2>1, <2>2
  <2>5. DOMAIN queries' = Invocation /\ DOMAIN findings' = Invocation
    BY <1>1, <1>2 DEF ToolCallsTyped
  <2> QED BY <1>1, <1>3, <2>1, <2>2, <2>3, <2>4, <2>5, GoesOnTo
<1>5. CASE ~Allowed(invoking[i].ask.binding)
  <2>1. EndCall(i, Unsuccessful("refused"))
    BY <1>5 DEF CallServer
  <2> QED BY <1>1, <1>3, <2>1, EndsBadly DEF Records
<1> QED BY <1>4, <1>5

LEMMA ServerReturnsKeeps ==
  ASSUME NEW A, ToolCallsInv(A), NEW i \in Invocation, ServerReturns(i)
  PROVE  MovesOne(A, i)
<1>1. /\ invoking[i].at = "calling" /\ UNCHANGED <<queries, findings, withdrawn, clientsOpen>>
  BY DEF ServerReturns
<1>2. StageFits(i)
  BY DEF ToolCallsInv, ToolCallFits
<1>3. queries[i] = {} /\ i \notin withdrawn /\ invoking[i].ask.tool = "mcp"
  BY <1>1, <1>2 DEF StageFits
<1>4. PICK v \in Values :
        \/ /\ EndCall(i, [how |-> "ok", shown |-> 1, cut |-> FALSE, whole |-> TRUE,
                          leaks |-> Leaks(RedactedByName(v))])
           /\ mcpAudit' = mcpAudit \cup {<<i, "SUCCEEDED">>}
        \/ EndCall(i, Unsuccessful("failed")) /\ mcpAudit' = mcpAudit
        \/ EndCall(i, Unsuccessful("failed")) /\ mcpAudit' = mcpAudit \cup {<<i, "FAILED">>}
  <2>1. PICK answer \in ServerAnswers, v \in Values :
          CASE answer = "fine" /\ clientsOpen ->
                 /\ EndCall(i, [how |-> "ok", shown |-> 1, cut |-> FALSE, whole |-> TRUE,
                                leaks |-> Leaks(RedactedByName(v))])
                 /\ mcpAudit' = mcpAudit \cup {<<i, "SUCCEEDED">>}
            [] answer = "too_large" /\ clientsOpen ->
                 EndCall(i, Unsuccessful("failed")) /\ UNCHANGED mcpAudit
            [] answer \in {"refused", "another"} \/ ~clientsOpen ->
                 /\ EndCall(i, Unsuccessful("failed"))
                 /\ mcpAudit' = mcpAudit \cup {<<i, "FAILED">>}
    BY DEF ServerReturns
  <2>2. \/ answer = "fine" /\ clientsOpen
        \/ answer = "too_large" /\ clientsOpen
        \/ answer \in {"refused", "another"} \/ ~clientsOpen
    BY DEF ServerAnswers
  <2> QED BY <2>1, <2>2
<1>5. CASE EndCall(i, Unsuccessful("failed"))
  <2>1. Records(i)
    BY <1>3, <1>4, <1>5 DEF Records, ServerReturns
  <2> QED BY <1>1, <1>3, <1>5, <2>1, EndsBadly
<1>6. CASE ~EndCall(i, Unsuccessful("failed"))
  <2>1. PICK result : result = [how |-> "ok", shown |-> 1, cut |-> FALSE, whole |-> TRUE,
                                leaks |-> Leaks(RedactedByName(v))]
    OBVIOUS
  <2>2. /\ EndCall(i, result) /\ result.how = "ok"
        /\ mcpAudit' = mcpAudit \cup {<<i, "SUCCEEDED">>}
    BY <1>4, <1>6, <2>1
  <2>3. Records(i) /\ <<i, "SUCCEEDED">> \in mcpAudit'
    BY <2>2 DEF Records
  <2> QED BY <1>1, <1>3, <2>2, <2>3, EndsWell
<1> QED BY <1>5, <1>6

LEMMA CallsStand ==
  ASSUME NEW A, ToolCallsInv(A),
         UNCHANGED <<invoking, queries, findings, invoked, withdrawn, mcpAudit>>,
         clientsOpen' \in BOOLEAN
  PROVE  ToolCallsInv(A)'
<1>1. ToolCallsTyped(A)'
  BY DEF ToolCallsInv, ToolCallsTyped
<1>2. SlotsFit' /\ RecordedOnce'
  BY DEF ToolCallsInv, SlotsFit, RecordedOnce, Running, HasSlot
<1>3. ASSUME NEW i \in Invocation PROVE ToolCallFits(i)'
  <2>1. StageFits(i)' /\ ResultFits(i)'
    BY DEF ToolCallsInv, ToolCallFits, StageFits, ResultFits
  <2>2. FindingsFit(i)'
    BY DEF ToolCallsInv, ToolCallFits, FindingsFit, KeptFinding, ShownQuota, Share
  <2> QED BY <2>1, <2>2 DEF ToolCallFits
<1> QED BY <1>1, <1>2, <1>3 DEF ToolCallsInv

LEMMA ToolCallsStep ==
  ASSUME NEW A, CallAsks(A), ToolCallsInv(A), CallsNext \/ UNCHANGED callVars
  PROVE  ToolCallsInv(A)'
<1>1. CASE UNCHANGED callVars
  <2>1. UNCHANGED <<invoking, queries, findings, invoked, withdrawn, mcpAudit>>
    BY <1>1 DEF callVars
  <2>2. clientsOpen' \in BOOLEAN
    BY <1>1 DEF callVars, ToolCallsInv, ToolCallsTyped
  <2> QED BY <2>1, <2>2, CallsStand
<1>2. CASE ClientsClose
  <2>1. UNCHANGED <<invoking, queries, findings, invoked, withdrawn, mcpAudit>>
    BY <1>2 DEF ClientsClose
  <2>2. clientsOpen' \in BOOLEAN
    BY <1>2 DEF ClientsClose
  <2> QED BY <2>1, <2>2, CallsStand
<1>3. ASSUME NEW i \in Invocation,
             \/ Begin(i) \/ TakeSlot(i) \/ Resolve(i) \/ Withdraw(i) \/ FinishCall(i)
             \/ TimesOut(i) \/ CancelCall(i) \/ CallServer(i) \/ ServerReturns(i)
             \/ \E s \in invoking[i].ask.signals : QueryReturns(i, s) \/ QueryGone(i, s)
      PROVE  ToolCallsInv(A)'
  <2>1. MovesOne(A, i)
    BY <1>3, BeginInvocationKeeps, TakeSlotKeeps, ResolveKeeps, WithdrawKeeps, FinishCallKeeps,
       StopKeeps, CallServerKeeps, ServerReturnsKeeps, QueryReturnsKeeps, QueryGoneKeeps
  <2> QED BY <2>1, OneMoves
<1> QED BY <1>1, <1>2, <1>3 DEF CallsNext

\* However long the window, the samples are few enough.
LEMMA SeriesAreShort ==
  ASSUME NEW window \in Nat
  PROVE  SamplesSent(window) <= SamplesAllowed(window) /\ SamplesSent(window) <= MaxSamples + 1
<1> DEFINE even == (window + MaxSamples - 1) \div MaxSamples
           n == window \div Step(window)
<1>1. even \in Nat /\ MaxSamples * even >= window
  <2>1. PICK top : top = window + MaxSamples - 1
    OBVIOUS
  <2>2. top \in Nat
    BY <2>1, ToolNumbers
  <2>3. /\ top \div MaxSamples \in Nat
        /\ top < MaxSamples * (top \div MaxSamples) + MaxSamples
    BY <2>2, ToolNumbers
  <2>4. even = top \div MaxSamples
    BY <2>1
  <2>5. MaxSamples * (top \div MaxSamples) \in Nat
    BY <2>3, ToolNumbers
  <2> HIDE DEF even
  <2> QED BY <2>1, <2>3, <2>4, <2>5, ToolNumbers
<1>2. Step(window) \in Nat \ {0} /\ Step(window) >= even
  <2>1. even \in Int /\ Finest \in Int
    BY <1>1, ToolNumbers
  <2>2. Max({Finest, even}) \in {Finest, even} /\ Max({Finest, even}) >= Finest
        /\ Max({Finest, even}) >= even
    <3> HIDE DEF even
    <3>1. \E x \in {Finest, even} : \A y \in {Finest, even} : x >= y
      BY <2>1, Finest >= even \/ even >= Finest
    <3>2. PICK x : x = CHOOSE y \in {Finest, even} : \A z \in {Finest, even} : y >= z
      OBVIOUS
    <3>3. x \in {Finest, even} /\ \A z \in {Finest, even} : x >= z
      BY <3>1, <3>2
    <3> QED BY <3>2, <3>3 DEF Max
  <2>3. Step(window) = Max({Finest, even})
    BY DEF Step
  <2> HIDE DEF even
  <2> QED BY <1>1, <2>2, <2>3, ToolNumbers
<1> HIDE DEF even
<1>3. Step(window) * MaxSamples >= window
  <2>1. even * MaxSamples <= Step(window) * MaxSamples
    BY <1>1, <1>2, ToolNumbers
  <2>2. even * MaxSamples = MaxSamples * even
    BY <1>1, ToolNumbers
  <2> QED BY <1>1, <1>2, <2>1, <2>2, ToolNumbers
<1>4. n \in Nat /\ Step(window) * n <= window
  BY <1>2
<1>5. n <= MaxSamples
  <2>1. SUFFICES ASSUME n > MaxSamples PROVE FALSE
    BY <1>4, ToolNumbers
  <2>2. Step(window) * n > Step(window) * MaxSamples
    <3> HIDE DEF n
    <3>1. n >= MaxSamples + 1
      BY <1>4, <2>1, ToolNumbers
    <3>2. Step(window) * n >= Step(window) * (MaxSamples + 1)
      BY <1>2, <1>4, <3>1, ToolNumbers
    <3>3. Step(window) * (MaxSamples + 1) = Step(window) * MaxSamples + Step(window)
      BY <1>2, ToolNumbers
    <3> QED BY <1>2, <1>4, <3>2, <3>3, ToolNumbers
  <2> HIDE DEF n
  <2> QED BY <1>2, <1>3, <1>4, <2>2, ToolNumbers
<1> HIDE DEF n
<1> QED BY <1>4, <1>5, ToolNumbers DEF SamplesSent, SamplesAllowed, n

LEMMA ToolCallsAreHonest ==
  ASSUME NEW A, CallAsks(A), ToolCallsInv(A)
  PROVE  ToolCallsAreSound
<1>1. \A i \in Invocation : StageFits(i) /\ ResultFits(i)
  BY DEF ToolCallsInv, ToolCallFits
<1>2. QueriesHaveACall
  BY <1>1 DEF ToolCallsInv, SlotsFit, QueriesHaveACall, StageFits, HasSlot
<1>3. CancellationGoesThrough
  BY <1>1 DEF ToolCallsInv, ToolCallsTyped, CancellationGoesThrough, StageFits
<1>4. ResultsAreHonest
  BY <1>1 DEF ResultsAreHonest, ResultFits
<1>5. SeriesAreBounded
  <2>1. \A i \in Invocation : invoking[i].ask.window \in Nat
    BY DEF ToolCallsInv, ToolCallsTyped, ToolCallRow, CallAsks
  <2> QED BY <2>1, SeriesAreShort DEF SeriesAreBounded
<1>6. EvidenceIsClean
  BY <1>1 DEF EvidenceIsClean, ResultFits
<1>7. ForeignCallsAreRecorded
  BY <1>1 DEF ToolCallsInv, RecordedOnce, ForeignCallsAreRecorded, ResultFits
<1> QED BY <1>2, <1>3, <1>4, <1>5, <1>6, <1>7 DEF ToolCallsAreSound

\* However calls of tools interleave with their limits, cancellations and the end
\* of the process: slots bound them and their queries, a cancellation goes through,
\* and a result that is used is bounded, honest, clean and, if foreign, recorded.
THEOREM ToolCallsAlwaysSound ==
  ASSUME NEW A, CallAsks(A)
  PROVE  ToolCallsStart(A) /\ [][CallsNext]_callVars => []ToolCallsAreSound
<1>1. ToolCallsStart(A) => ToolCallsInv(A)
  BY ToolCallsBegin
<1>2. ToolCallsInv(A) /\ [CallsNext]_callVars => ToolCallsInv(A)'
  BY ToolCallsStep
<1>3. ToolCallsInv(A) => ToolCallsAreSound
  BY ToolCallsAreHonest
<1> QED BY <1>1, <1>2, <1>3, PTL

----------------------------------------------------------------------------
(* From evidence to a cause, for any evidence, answer and topology.  What is *)
(* ranked was scored from facts that do not change (RankedFits), so a score *)
(* always has the fact that earned it; an accepted answer selects one of them. *)

KnownKinds == {"LOG", "TRACE", "HTTP", "METRIC", "TOPOLOGY", "CHANGE", "KNOWLEDGE", "RUNBOOK"}

LEMMA KindsAreKnown == DOMAIN Weight = KnownKinds
BY DEF Weight, KnownKinds

LEMMA WeightsAreNatural ==
  ASSUME NEW kind \in KnownKinds
  PROVE  Weight[kind] \in Nat
<1>1. PICK w : w = Weight
  OBVIOUS
<1>2. w = [LOG |-> 20, TRACE |-> 19, METRIC |-> 16, HTTP |-> 15, TOPOLOGY |-> 12,
           CHANGE |-> 11, KNOWLEDGE |-> 8, RUNBOOK |-> 4]
  BY <1>1 DEF Weight
<1>3. /\ w["LOG"] = 20 /\ w["TRACE"] = 19 /\ w["METRIC"] = 16 /\ w["HTTP"] = 15
      /\ w["TOPOLOGY"] = 12 /\ w["CHANGE"] = 11 /\ w["KNOWLEDGE"] = 8 /\ w["RUNBOOK"] = 4
  BY <1>2
<1> QED BY <1>1, <1>3 DEF KnownKinds

\* Each kind is believed at one place.
LEMMA BeliefIsPlace ==
  ASSUME NEW kind \in KnownKinds
  PROVE  Belief(kind) \in 1..8 /\ Believed[Belief(kind)] = kind
<1>1. PICK b : b = Believed
  OBVIOUS
<1>2. /\ DOMAIN b = 1..8
      /\ b[1] = "LOG" /\ b[2] = "TRACE" /\ b[3] = "HTTP" /\ b[4] = "METRIC" /\ b[5] = "TOPOLOGY"
      /\ b[6] = "CHANGE" /\ b[7] = "KNOWLEDGE" /\ b[8] = "RUNBOOK"
  BY <1>1 DEF Believed
<1>3. \E n \in DOMAIN b : b[n] = kind
  BY <1>2 DEF KnownKinds
<1> QED BY <1>1, <1>2, <1>3 DEF Belief

\* Of structured facts there is one before all others.
LEMMA OneIsFirst ==
  ASSUME FactsFit(facts), NEW m \in DOMAIN facts, Structured(m)
  PROVE  StructuredContext # {}
<1> DEFINE K == {n \in DOMAIN facts : Structured(n)}
           P == {Belief(facts[n].type) : n \in K}
<1>1. \A n \in K : Belief(facts[n].type) \in Nat /\ facts[n].type \in KnownKinds /\ n \in Nat
  <2>1. \A n \in K : facts[n].type \in KnownKinds /\ n \in Nat
    BY KindsAreKnown DEF FactsFit
  <2>2. \A kind \in KnownKinds : Belief(kind) \in Nat
    BY BeliefIsPlace
  <2> QED BY <2>1, <2>2
<1>2. PICK p \in P : \A q \in P : p <= q
  <2>1. P \subseteq Nat /\ P # {}
    BY <1>1
  <2> HIDE DEF P
  <2> QED BY <2>1, SmallestOf
<1> DEFINE N == {n \in K : Belief(facts[n].type) = p}
<1>3. PICK n \in N : \A k \in N : n <= k
  <2>1. N \subseteq Nat /\ N # {}
    BY <1>1
  <2> HIDE DEF N
  <2> QED BY <2>1, SmallestOf
<1>4. ASSUME NEW k \in DOMAIN facts, Structured(k) PROVE Before0(n, k)
  <2>1. k \in K /\ n \in K /\ p = Belief(facts[n].type) /\ p <= Belief(facts[k].type)
    BY <1>2, <1>3, <1>4
  <2>2. CASE Belief(facts[k].type) = p
    <3>1. facts[k].type = facts[n].type
      BY <1>1, <2>1, <2>2, BeliefIsPlace
    <3>2. n <= k
      BY <1>3, <2>1, <2>2
    <3> QED BY <3>1, <3>2 DEF Before0
  <2>3. CASE Belief(facts[k].type) # p
    <3>1. Belief(facts[n].type) < Belief(facts[k].type)
      BY <1>1, <2>1, <2>3
    <3> QED BY <3>1 DEF Before0
  <2> QED BY <2>2, <2>3
<1>5. n \in StructuredContext
  BY <1>3, <1>4 DEF StructuredContext
<1> QED BY <1>5

\* As soon as a structured field names a type, words of a text no longer decide.
LEMMA StructureDecides ==
  ASSUME FactsFit(facts), NEW f \in Facts, \E g \in Facts : g.says # Unknown
  PROVE  \E g \in Facts : g.says = InferredType(f)
<1> DEFINE fallback == {facts[n].says : n \in StructuredContext}
           later == OrElse(f.hint,
             OrElse(IncidentType, IF resolving = "safe" THEN Unknown ELSE "APPLICATION_ERROR"))
           meant == IF fallback = {} THEN Unknown ELSE CHOOSE t \in fallback : TRUE
<1>1. InferredType(f) = OrElse(f.says, OrElse(meant, later))
  BY DEF InferredType
<1>2. PICK m \in DOMAIN facts : Structured(m)
  BY DEF Facts, Structured
<1>3. fallback # {}
  BY <1>2, OneIsFirst
<1>4. meant \in fallback
  BY <1>3
<1>5. PICK n \in DOMAIN facts : meant = facts[n].says /\ meant # Unknown
  BY <1>4 DEF StructuredContext, Structured
<1> HIDE DEF fallback, later, meant
<1>6. CASE f.says # Unknown
  BY <1>1, <1>6 DEF OrElse
<1>7. CASE f.says = Unknown
  <2>1. InferredType(f) = meant
    BY <1>1, <1>5, <1>7 DEF OrElse
  <2> QED BY <1>5, <2>1 DEF Facts
<1> QED BY <1>6, <1>7

----------------------------------------------------------------------------
(* Scores.                                                                  *)

LEMMA SupportIsWeighed ==
  ASSUME FactsFit(facts), NEW support \in SUBSET DOMAIN facts
  PROVE  /\ EvidenceScore(support) \in Nat
         /\ Present(support) = {} => EvidenceScore(support) = 0
<1> DEFINE S == Present(support)
           h == [n \in S |-> Weight[facts[n].type] * facts[n].confidence]
           Sums(g) == g = [t \in SUBSET S |-> IF t = {} THEN 0
                         ELSE (Weight[facts[First(t)].type] * facts[First(t)].confidence)
                              + g[t \ {First(t)}]]
<1>1. IsFiniteSet(S)
  <2>1. IsFiniteSet(1..Len(facts)) /\ S \subseteq 1..Len(facts)
    BY FS_Interval DEF FactsFit, Present
  <2> HIDE DEF S
  <2> QED BY <2>1, FS_Subset
<1>2. h \in [S -> Nat]
  <2>1. ASSUME NEW n \in S PROVE Weight[facts[n].type] * facts[n].confidence \in Nat
    <3>1. facts[n].type \in KnownKinds /\ facts[n].confidence \in Nat
      BY KindsAreKnown DEF FactsFit, Present
    <3>2. Weight[facts[n].type] \in Nat
      BY <3>1, WeightsAreNatural
    <3> QED BY <3>1, <3>2
  <2> HIDE DEF S
  <2> QED BY <2>1
<1>3. \A t \in SUBSET S : t # {} =>
        h[First(t)] = Weight[facts[First(t)].type] * facts[First(t)].confidence
  <2> HIDE DEF S
  <2> QED BY DEF First
<1>4. ASSUME NEW g PROVE Sums(g) <=> SumsOver(S, h, g)
  <2> HIDE DEF h, S
  <2> QED BY <1>3 DEF SumsOver
<1>5. \E g : Sums(g)
  <2> HIDE DEF Sums, h, S
  <2> QED BY <1>1, <1>4, SumExists
<1>6. PICK total : total = CHOOSE g : Sums(g)
  OBVIOUS
<1>7. Sums(total)
  BY <1>5, <1>6
<1>8. total[S] \in Nat
  <2>1. SumsOver(S, h, total)
    BY <1>4, <1>7
  <2>2. 0 \in Nat
    OBVIOUS
  <2> HIDE DEF h, S, Sums
  <2> QED BY <1>1, <1>2, <2>1, <2>2, SumIsBounded
<1>9. S = {} => total[S] = 0
  BY <1>7
<1>10. MapThenSumSet(LAMBDA n : Weight[facts[n].type] * facts[n].confidence, S) = total[S]
  BY <1>6 DEF MapThenSumSet, MapThenFoldSet, First
<1>11. EvidenceScore(support) = Min({60, total[S]})
  BY <1>10 DEF EvidenceScore
<1> HIDE DEF S
<1>12. PICK n \in Nat : n = total[S]
  BY <1>8
<1>13. Min({60, n}) \in {60, n} /\ Min({60, n}) <= n
  BY LeastOfTwo
<1> QED BY <1>9, <1>11, <1>12, <1>13 DEF S

\* A candidate that is probable has a fact that is present and supports it.
LEMMA CandidateIsBacked ==
  ASSUME FactsFit(facts), NEW identity, NEW c, c = ScoreCandidate(identity)
  PROVE  /\ c.identity = identity /\ c.support = Supporting(identity)
         /\ c.against = Contradicting(identity)
         /\ c.score \in Nat
         /\ c.score >= 40 => Present(c.support) # {}
<1> DEFINE support == Supporting(identity)
           against == Contradicting(identity)
           kinds == {facts[n].type : n \in support}
           missing == MissingEvidence(identity.type, kinds)
           causal == CausalConsistency(identity.type, kinds)
           merit == 8 + EvidenceScore(support) + causal
           penalty == Penalty(Cardinality(against), 16, 48) + Penalty(Cardinality(missing), 12, 36)
           score == IF merit <= penalty THEN 0 ELSE Min({80, merit - penalty})
<1>1. c = [identity |-> identity, support |-> support, against |-> against,
           missing |-> missing, score |-> score]
  BY DEF ScoreCandidate
<1>2. support \subseteq DOMAIN facts /\ against \subseteq DOMAIN facts
  BY DEF Supporting, Grouped, Contradicting
<1>3. IsFiniteSet(DOMAIN facts)
  BY FS_Interval DEF FactsFit
<1>4. Cardinality(against) \in Nat
  <2> HIDE DEF against
  <2> QED BY <1>2, <1>3, FS_Subset, FS_CardinalityType
<1>5. Cardinality(missing) \in Nat
  <2>1. missing \subseteq {"recent_change", "post_change_signal_shift", "dependency_trace"}
    BY DEF MissingEvidence
  <2>2. IsFiniteSet({"recent_change", "post_change_signal_shift", "dependency_trace"})
    <3>1. IsFiniteSet({"recent_change"})
      BY FS_Singleton
    <3>2. IsFiniteSet({"recent_change"} \cup {"post_change_signal_shift"})
      BY <3>1, FS_AddElement
    <3>3. IsFiniteSet(({"recent_change"} \cup {"post_change_signal_shift"}) \cup {"dependency_trace"})
      BY <3>2, FS_AddElement
    <3>4. ({"recent_change"} \cup {"post_change_signal_shift"}) \cup {"dependency_trace"}
            = {"recent_change", "post_change_signal_shift", "dependency_trace"}
      OBVIOUS
    <3> QED BY <3>3, <3>4
  <2> HIDE DEF missing
  <2> QED BY <2>1, <2>2, FS_Subset, FS_CardinalityType
<1>6. causal \in 0..12
  <2> HIDE DEF kinds
  <2> QED BY DEF CausalConsistency
<1>7. penalty \in Nat
  <2> HIDE DEF against, missing
  <2>1. PICK a \in Nat, b \in Nat : a = Cardinality(against) * 16 /\ b = Cardinality(missing) * 12
    BY <1>4, <1>5
  <2>2. Min({a, 48}) \in {a, 48} /\ Min({b, 36}) \in {b, 36}
    <3>1. a \in Int /\ b \in Int /\ 48 \in Int /\ 36 \in Int
      OBVIOUS
    <3> HIDE DEF support, kinds, missing, against, causal, merit, penalty, score
    <3>2. Min({a, 48}) \in {a, 48}
      BY <3>1, LeastOfTwo
    <3>3. Min({b, 36}) \in {b, 36}
      BY <3>1, LeastOfTwo
    <3> QED BY <3>2, <3>3
  <2>3. penalty = Min({a, 48}) + Min({b, 36})
    BY <2>1 DEF Penalty
  <2> QED BY <2>2, <2>3
<1>8. /\ EvidenceScore(support) \in Nat
      /\ Present(support) = {} => EvidenceScore(support) = 0
  <2> HIDE DEF support
  <2> QED BY <1>2, SupportIsWeighed
<1>9. /\ merit \in Nat
      /\ Present(support) = {} => merit <= 20
  <2> HIDE DEF support, causal
  <2> QED BY <1>6, <1>8
<1> HIDE DEF merit, penalty
<1>10. score \in Nat /\ (Present(support) = {} => score <= 20)
  <2>1. CASE merit <= penalty
    BY <2>1
  <2>2. CASE ~(merit <= penalty)
    <3>1. PICK d \in Nat : d = merit - penalty
      BY <1>7, <1>9, <2>2
    <3>2. Min({80, d}) \in {80, d} /\ Min({80, d}) <= d
      BY LeastOfTwo
    <3>3. score = Min({80, d})
      BY <2>2, <3>1
    <3> HIDE DEF score, support
    <3> QED BY <1>7, <1>9, <3>1, <3>2, <3>3
  <2> QED BY <2>1, <2>2
<1> HIDE DEF score, support, against, missing
<1>11. c.score = score /\ c.support = support /\ c.identity = identity /\ c.against = against
  BY <1>1
<1> QED BY <1>10, <1>11 DEF support, against

\* The candidates that are kept were scored from the evidence.
RankedFits ==
  /\ ranked # <<>> => 1 \in DOMAIN ranked
  /\ \A n \in DOMAIN ranked :
       \E m \in Grouped : ranked[n] = ScoreCandidate(IdentityOf(facts[m]))

LEMMA RankedAreBacked ==
  ASSUME FactsFit(facts), RankedFits, NEW n \in DOMAIN ranked
  PROVE  /\ \E m \in Grouped : ranked[n].identity = IdentityOf(facts[m])
         /\ ranked[n].support = Supporting(ranked[n].identity)
         /\ ranked[n].against = Contradicting(ranked[n].identity)
         /\ ranked[n].score \in Nat
         /\ ranked[n].score >= 40 => Present(ranked[n].support) # {}
<1>1. PICK m \in Grouped : ranked[n] = ScoreCandidate(IdentityOf(facts[m]))
  BY DEF RankedFits
<1>2. PICK identity : identity = IdentityOf(facts[m])
  OBVIOUS
<1>3. PICK c : c = ranked[n]
  OBVIOUS
<1>4. c = ScoreCandidate(identity)
  BY <1>1, <1>2, <1>3
<1>5. /\ c.identity = identity /\ c.support = Supporting(identity)
      /\ c.against = Contradicting(identity)
      /\ c.score \in Nat
      /\ c.score >= 40 => Present(c.support) # {}
  BY <1>4, CandidateIsBacked
<1> QED BY <1>2, <1>3, <1>5

LEMMA RankingHolds ==
  ASSUME FactsFit(facts), RankedFits
  PROVE  RankingIsSound
<1>1. ASSUME ranked # <<>>, ~(ranked[1].score < 40)
      PROVE  \E n \in ranked[1].support :
               ~facts[n].historical /\ (facts[n].negative => ranked[1].identity.type = NoAction)
  <2>1. 1 \in DOMAIN ranked
    BY <1>1 DEF RankedFits
  <2>2. ranked[1].score >= 40
    BY <1>1, <2>1, RankedAreBacked
  <2>3. PICK n \in ranked[1].support : ~facts[n].historical
    BY <2>1, <2>2, RankedAreBacked DEF Present
  <2>4. n \in Supporting(ranked[1].identity)
    BY <2>1, RankedAreBacked
  <2>5. facts[n].negative => ranked[1].identity.type = NoAction
    BY <2>4 DEF Supporting
  <2> QED BY <2>3, <2>5
<1>2. Recommended.status # Undecided => ranked # <<>> /\ ~(ranked[1].score < 40)
  BY DEF Recommended
<1>3. ASSUME Recommended.confidence > 52 PROVE ranked[1].against = {}
  <2>1. CASE ranked = <<>> \/ ranked[1].score < 40
    <3>1. Recommended.confidence = 0
      BY <2>1 DEF Recommended
    <3> QED BY <1>3, <3>1
  <2>2. CASE ranked # <<>> /\ ~(ranked[1].score < 40) /\ ranked[1].against # {}
    <3>1. Recommended.confidence = Min({ranked[1].score, 52})
      BY <2>2 DEF Recommended
    <3>2. 1 \in DOMAIN ranked
      BY <2>2 DEF RankedFits
    <3>3. PICK k \in Nat : k = ranked[1].score
      BY <3>2, RankedAreBacked
    <3>4. k \in Int /\ 52 \in Int
      OBVIOUS
    <3>5. Min({k, 52}) <= 52 /\ Min({k, 52}) \in {k, 52}
      BY <3>4, LeastOfTwo
    <3> QED BY <1>3, <3>1, <3>3, <3>5
  <2> QED BY <2>1, <2>2
<1>4. ASSUME NEW n \in DOMAIN ranked
      PROVE  /\ ranked[n].support \cap ranked[n].against = {}
             /\ (\E f \in Facts : f.says # Unknown) =>
                  \E f \in Facts : f.says = ranked[n].identity.type
  <2>1. ranked[n].support \cap ranked[n].against = {}
    <3>1. PICK i : i = ranked[n].identity
      OBVIOUS
    <3>2. Supporting(i) \cap Contradicting(i) = {}
      BY DEF Contradicting
    <3> QED BY <3>1, <3>2, RankedAreBacked
  <2>2. PICK m \in Grouped : ranked[n].identity = IdentityOf(facts[m])
    BY RankedAreBacked
  <2>3. ranked[n].identity.type = InferredType(facts[m])
    BY <2>2 DEF IdentityOf
  <2>4. facts[m] \in Facts
    BY DEF Facts, Grouped
  <2>5. ASSUME \E f \in Facts : f.says # Unknown
        PROVE  \E f \in Facts : f.says = ranked[n].identity.type
    BY <2>3, <2>4, <2>5, StructureDecides
  <2> QED BY <2>1, <2>5
<1> QED BY <1>1, <1>2, <1>3, <1>4 DEF RankingIsSound

\* What evidence says does not change while the evidence does not.
LEMMA ScoresStay ==
  ASSUME UNCHANGED <<facts, resolving>>
  PROVE  /\ Grouped' = Grouped
         /\ \A m \in DOMAIN facts :
              ScoreCandidate(IdentityOf(facts[m]))' = ScoreCandidate(IdentityOf(facts[m]))
<1>1. Facts' = Facts
  BY DEF Facts
<1>2. StructuredContext' = StructuredContext
  BY DEF StructuredContext, Structured, Before0
<1>3. IncidentType' = IncidentType
  <2>1. {n \in DOMAIN Suggested : Suggested[n] = Unknown \/ \E f \in Facts' : f.hint = Suggested[n]}
          = {n \in DOMAIN Suggested : Suggested[n] = Unknown \/ \E f \in Facts : f.hint = Suggested[n]}
    BY <1>1
  <2> QED BY <1>1, <2>1 DEF IncidentType
<1>4. \A f : InferredType(f)' = InferredType(f)
  <2> DEFINE One(T) == IF T = {} THEN Unknown ELSE CHOOSE t \in T : TRUE
  <2>1. {facts[n].says : n \in StructuredContext}' = {facts[n].says : n \in StructuredContext}
    BY <1>2
  <2>2. \A f : InferredType(f) = OrElse(f.says, OrElse(One({facts[n].says : n \in StructuredContext}),
          OrElse(f.hint, OrElse(IncidentType,
            IF resolving = "safe" THEN Unknown ELSE "APPLICATION_ERROR"))))
    BY DEF InferredType
  <2>3. \A f : InferredType(f)' = OrElse(f.says, OrElse(One({facts[n].says : n \in StructuredContext}'),
          OrElse(f.hint, OrElse(IncidentType',
            IF resolving' = "safe" THEN Unknown ELSE "APPLICATION_ERROR"))))
    BY DEF InferredType
  <2> HIDE DEF One
  <2> QED BY <1>3, <2>1, <2>2, <2>3
<1>5. IncidentService' = IncidentService
  BY DEF IncidentService
<1>6. \A f : ServiceOf(f)' = ServiceOf(f)
  BY <1>4, <1>5 DEF ServiceOf
<1>7. FallbackResource' = FallbackResource
  <2> DEFINE chosen == {facts[n].resource : n \in StructuredContext} \ {Nothing0}
             One(T, U) == IF T # {} THEN CHOOSE r \in T : TRUE ELSE U
             other == LET named0 == {n \in DOMAIN facts : facts[n].resource # Nothing0} IN
                      IF named0 # {} THEN facts[Min(named0)].resource ELSE Nothing0
  <2>1. chosen' = chosen /\ other' = other
    BY <1>2
  <2>2. FallbackResource = One(chosen, other)
    BY DEF FallbackResource
  <2>3. FallbackResource' = One(chosen', other')
    BY DEF FallbackResource
  <2> HIDE DEF One, chosen, other
  <2> QED BY <2>1, <2>2, <2>3
<1>8. \A kind, service : LegacyResource(kind, service)' = LegacyResource(kind, service)
  BY <1>1 DEF LegacyResource
<1>9. \A f : ResourceOf(f)' = ResourceOf(f)
  BY <1>4, <1>6, <1>7, <1>8 DEF ResourceOf
<1>10. \A f : IdentityOf(f)' = IdentityOf(f)
  BY <1>4, <1>6, <1>9 DEF IdentityOf
<1>11. Grouped' = Grouped
  BY <1>4 DEF Grouped
<1>12. \A i : Supporting(i)' = Supporting(i)
  BY <1>10, <1>11 DEF Supporting
<1>13. \A i : Contradicting(i)' = Contradicting(i)
  BY <1>12 DEF Contradicting
<1>14. \A support : EvidenceScore(support)' = EvidenceScore(support)
  <2> DEFINE Sums(F, S) == MapThenSumSet(LAMBDA n : Weight[F[n].type] * F[n].confidence, S)
  <2>1. \A support : Present(support)' = Present(support)
    BY DEF Present
  <2>2. \A support : EvidenceScore(support) = Min({60, Sums(facts, Present(support))})
    BY DEF EvidenceScore
  <2>3. \A support : EvidenceScore(support)' = Min({60, Sums(facts', Present(support)')})
    BY DEF EvidenceScore, MapThenSumSet, MapThenFoldSet
  <2> HIDE DEF Sums
  <2> QED BY <2>1, <2>2, <2>3
<1>15. \A i : ScoreCandidate(i)' = ScoreCandidate(i)
  BY <1>12, <1>13, <1>14 DEF ScoreCandidate
<1>16. \A m \in DOMAIN facts : IdentityOf(facts[m])' = IdentityOf(facts[m])
  BY <1>10
<1> QED BY <1>10, <1>11, <1>15, <1>16

\* Ranking keeps candidates that were scored.
LEMMA RankingFits ==
  ASSUME FactsFit(facts), Rank
  PROVE  RankedFits'
<1>1. PICK s : s = ranked'
  OBVIOUS
<1>2. s \in BestFirst(Candidates0)
  BY <1>1 DEF Rank
<1> DEFINE all == Candidates0
           count == Min({Cardinality(all), MaxCandidates})
<1>3. IsFiniteSet(all)
  <2>1. IsFiniteSet(Grouped)
    <3>1. IsFiniteSet(1..Len(facts)) /\ Grouped \subseteq 1..Len(facts)
      BY FS_Interval DEF FactsFit, Grouped
    <3> QED BY <3>1, FS_Subset
  <2> DEFINE score == [n \in Grouped |-> ScoreCandidate(IdentityOf(facts[n]))]
  <2>2. score \in Surjection(Grouped, all)
    BY DEF Surjection, Candidates0
  <2> HIDE DEF score, all
  <2> QED BY <2>1, <2>2, FS_Surjection
<1>4. count \in Nat
  <2>1. PICK k \in Nat : k = Cardinality(all)
    BY <1>3, FS_CardinalityType
  <2>2. k \in Int /\ MaxCandidates \in Int /\ MaxCandidates \in Nat
    BY RootCausesAssumption
  <2>3. Min({k, MaxCandidates}) \in {k, MaxCandidates}
    BY <2>2, LeastOfTwo
  <2> QED BY <2>1, <2>2, <2>3
<1>5. s \in [1..count -> all]
  BY <1>2 DEF BestFirst
<1>6. s # <<>> => 1 \in DOMAIN s
  <2> HIDE DEF all, count
  <2>1. s \in Seq(all)
    BY <1>4, <1>5
  <2> QED BY <2>1
<1>7. ASSUME NEW n \in DOMAIN s
      PROVE  \E m \in Grouped : s[n] = ScoreCandidate(IdentityOf(facts[m]))
  <2>1. s[n] \in Candidates0
    BY <1>5
  <2> QED BY <2>1 DEF Candidates0
<1>8. UNCHANGED <<facts, resolving>>
  BY DEF Rank
<1>9. Grouped' = Grouped
  BY <1>8, ScoresStay
<1>10. \A m \in Grouped :
         ScoreCandidate(IdentityOf(facts[m]))' = ScoreCandidate(IdentityOf(facts[m]))
  BY <1>8, ScoresStay DEF Grouped
<1>11. \A n \in DOMAIN ranked' :
         \E m \in Grouped' : ranked'[n] = ScoreCandidate(IdentityOf(facts[m]))'
  BY <1>1, <1>7, <1>9, <1>10
<1> QED BY <1>1, <1>6, <1>11 DEF RankedFits

----------------------------------------------------------------------------
(* Conclusion and causal chain.                                             *)

\* The candidate an accepted answer is about, if any, was ranked.
LEMMA AnswerIsCandidate ==
  ASSUME FactsFit(facts), RankedFits, NEW a \in ModelChoices, AcceptsAnswer(a),
         NEW i \in ReportOfAnswer(a).cause
  PROVE  \E n \in DOMAIN ranked :
           /\ ranked[n].identity = i /\ ranked[n].score >= 40
           /\ ReportOfAnswer(a).confidence > 56 => ranked[n].against \cup ranked[n].missing = {}
<1> DEFINE selected == IF a.status = Undecided THEN {} ELSE Selection(a)
           cause == IF a.status = "CANDIDATE"
                    THEN {IF a.cause = "other" THEN [c.identity EXCEPT !.service = "other"]
                          ELSE c.identity : c \in selected} ELSE NoCause
           confidence == IF selected = {} THEN a.confidence
                         ELSE Calibrated(a, CHOOSE c \in selected : TRUE)
<1>1. ReportOfAnswer(a).cause = cause /\ ReportOfAnswer(a).confidence = confidence
  <2>1. PICK r : r = ReportOfAnswer(a)
    OBVIOUS
  <2>2. r = [status |-> a.status, cites |-> a.cites, selected |-> selected, cause |-> cause,
             confidence |-> confidence]
    BY <2>1 DEF ReportOfAnswer
  <2> HIDE DEF cause, confidence, selected
  <2>3. r.cause = cause /\ r.confidence = confidence
    BY <2>2
  <2> QED BY <2>1, <2>3
<1>2. a.status = "CANDIDATE"
  BY <1>1 DEF NoCause
<1>3. a.confidence = 80 /\ (a.legacy => a.cause = "none")
  BY DEF ModelChoices
<1>4. selected = Selection(a) /\ Selection(a) # {} /\ (a.legacy \/ a.cause = "same")
  BY <1>2 DEF AcceptsAnswer, Consistent, Undecided, NoAction
<1>5. PICK c \in Selection(a) : i = c.identity
  BY <1>1, <1>2, <1>3, <1>4
<1>6. \A d \in Selection(a) : d = c
  BY DEF Selection
<1>7. PICK n \in DOMAIN ranked : c = ranked[n]
  BY DEF Selection
<1>8. c.score >= 40
  BY <1>2 DEF AcceptsAnswer, Undecided
<1>9. confidence = Calibrated(a, c)
  <2>1. (CHOOSE d \in Selection(a) : TRUE) = c
    BY <1>4, <1>6
  <2> QED BY <1>4, <2>1
<1>10. ASSUME confidence > 56 PROVE c.against \cup c.missing = {}
  <2>1. CASE c.score >= 64 /\ c.against = {} /\ c.missing = {}
    BY <2>1
  <2>2. CASE ~(c.score >= 64 /\ c.against = {} /\ c.missing = {})
    <3>1. confidence = Min({80, 56})
      BY <1>3, <1>9, <2>2 DEF Calibrated
    <3>2. PICK sure \in Nat, most \in Nat : sure = 80 /\ most = 56
      OBVIOUS
    <3> HIDE DEF confidence
    <3>3. sure \in Int /\ most \in Int
      BY <3>2
    <3>4. Min({sure, most}) <= most /\ Min({sure, most}) \in {sure, most}
      BY <3>3, LeastOfTwo
    <3> QED BY <1>10, <3>1, <3>2, <3>4
  <2> QED BY <2>1, <2>2
<1> QED BY <1>1, <1>5, <1>7, <1>8, <1>10

\* A chain that was followed is grounded.
LEMMA FollowedIsGrounded ==
  ASSUME NEW observed, NEW chain \in Traversals(RootNode, observed),
         \A u \in graph.nodes \cup {e.to : e \in graph.edges} : u \in Seq(STRING)
  PROVE  LET reached0 == RootNode \cup {e.to : e \in chain} IN
         /\ \A e \in chain : e.from \in reached0 /\ e.to \notin RootNode
         /\ \A d, e \in chain : d.to = e.to => d = e
         /\ \A v \in Impact(RootNode, chain) : NodeOf(v) \in reached0
<1> DEFINE R == Reach(RootNode, observed)
           Level(v) == Min({n \in DOMAIN R : v \in R[n]})
           found == R[graph.depth] \ RootNode
           Into(v) == {e \in graph.edges : e.to = v /\ Follows(e, observed)
                                           /\ e.from \in R[graph.depth]
                                           /\ Level(e.from) = Level(v) - 1}
           reached0 == RootNode \cup {e.to : e \in chain}
<1>1. PICK into \in [found -> graph.edges] :
        (\A v \in found : into[v] \in Into(v)) /\ chain = {into[v] : v \in found}
  BY DEF Traversals
<1>2. \A v \in found :
        into[v] \in graph.edges /\ into[v].to = v /\ into[v].from \in R[graph.depth]
  <2> HIDE DEF found, R, Level
  <2> QED BY <1>1
<1>3. \A v \in found : v \in reached0
  <2> HIDE DEF found
  <2> QED BY <1>1, <1>2
<1>4. \A v \in R[graph.depth] : v \in reached0
  BY <1>3
<1>5. \A e \in chain : \E v \in found : e = into[v]
  <2> HIDE DEF found, Into
  <2> QED BY <1>1
<1>6. \A e \in chain : e.from \in reached0 /\ e.to \notin RootNode
  <2>1. \A v \in found : v \notin RootNode
    OBVIOUS
  <2> HIDE DEF found, R, reached0, Into, Level
  <2> QED BY <1>2, <1>4, <1>5, <2>1
<1>7. \A d, e \in chain : d.to = e.to => d = e
  <2> HIDE DEF found, R, reached0, Into, Level
  <2> QED BY <1>2, <1>5
<1>8. ASSUME NEW v \in Impact(RootNode, chain) PROVE NodeOf(v) \in reached0
  <2>1. PICK u \in {e.to : e \in chain} \cup (IF concluded.cause = {} THEN {} ELSE RootNode) :
          IsService(u) /\ v = u[2]
    BY DEF Impact
  <2>2. u \in reached0
    BY <2>1
  <2>3. u \in Seq(STRING)
    <3>1. RootNode \subseteq graph.nodes
      BY DEF RootNode, OnNodes
    <3>2. \A e \in chain : e \in graph.edges
      <4> HIDE DEF found, R, Into, Level
      <4> QED BY <1>2, <1>5
    <3> QED BY <2>2, <3>1, <3>2
  <2>4. u = NodeOf(v)
    BY <2>1, <2>3 DEF IsService, NodeOf
  <2> QED BY <2>2, <2>4
<1> HIDE DEF found, R, Into, Level
<1> QED BY <1>6, <1>7, <1>8

CausesInv(G) ==
  /\ FactsFit(facts) /\ graph \in G
  /\ reached \in {"evidence", "ranked", "concluded", "explained", "refused"}
  /\ reached \in {"evidence", "ranked"} => concluded.cause = {}
  /\ reached \in {"evidence", "ranked", "concluded"} => explained = NoContext
  /\ RankedFits /\ CauseIsCandidate /\ ChainIsGrounded

CausesStart(E, G) == facts \in E /\ graph \in G /\ CausesInit

LEMMA CausesBegin ==
  ASSUME NEW E, NEW G, EvidenceAsks(E), CausesStart(E, G)
  PROVE  CausesInv(G)
<1>1. DOMAIN ranked = {} /\ ranked = <<>>
  BY DEF CausesStart, CausesInit
<1>2. RankedFits
  BY <1>1 DEF RankedFits
<1>3. concluded.cause = {} /\ explained = NoContext /\ reached = "evidence"
  BY DEF CausesStart, CausesInit, NoCause
<1>4. CauseIsCandidate
  BY <1>3 DEF CauseIsCandidate
<1>5. ChainIsGrounded
  BY <1>3 DEF ChainIsGrounded, NoContext
<1> QED BY <1>2, <1>3, <1>4, <1>5 DEF CausesInv, CausesStart, EvidenceAsks

LEMMA RankedStay ==
  ASSUME RankedFits, UNCHANGED <<facts, resolving, ranked>>
  PROVE  RankedFits'
<1>1. Grouped' = Grouped
  BY ScoresStay
<1>2. \A m \in Grouped :
        ScoreCandidate(IdentityOf(facts[m]))' = ScoreCandidate(IdentityOf(facts[m]))
  BY ScoresStay DEF Grouped
<1>3. \A n \in DOMAIN ranked' :
        \E m \in Grouped' : ranked'[n] = ScoreCandidate(IdentityOf(facts[m]))'
  BY <1>1, <1>2 DEF RankedFits
<1> QED BY <1>3 DEF RankedFits

LEMMA CausesGoOn ==
  ASSUME NEW G, GraphAsks(G), CausesInv(G), [CausesNext]_causeVars
  PROVE  CausesInv(G)'
<1> USE DEF CausesInv
<1>1. CASE Rank
  <2>1. RankedFits'
    BY <1>1, RankingFits
  <2>2. UNCHANGED <<facts, concluded, graph, explained>> /\ reached = "evidence" /\ reached' = "ranked"
    BY <1>1 DEF Rank
  <2>3. CauseIsCandidate'
    BY <2>2 DEF CauseIsCandidate
  <2>4. ChainIsGrounded'
    BY <2>2 DEF ChainIsGrounded, NoContext
  <2> QED BY <2>1, <2>2, <2>3, <2>4 DEF NoContext
<1>2. CASE Conclude
  <2>1. UNCHANGED <<facts, resolving, ranked, graph, explained>> /\ reached = "ranked"
        /\ reached' = "concluded"
    BY <1>2 DEF Conclude
  <2>2. RankedFits'
    BY <2>1, RankedStay
  <2>3. CauseIsCandidate'
    <3>1. PICK a \in ModelChoices :
            concluded' = IF AcceptsAnswer(a) THEN ReportOfAnswer(a) ELSE FallbackReport
      BY <1>2 DEF Conclude
    <3>2. CASE AcceptsAnswer(a)
      <4>1. concluded' = ReportOfAnswer(a)
        BY <3>1, <3>2
      <4>2. \A i \in concluded'.cause :
              \E n \in DOMAIN ranked :
                /\ ranked[n].identity = i /\ ranked[n].score >= 40
                /\ concluded'.confidence > 56 => ranked[n].against \cup ranked[n].missing = {}
        BY <3>2, <4>1, AnswerIsCandidate
      <4> QED BY <2>1, <4>2 DEF CauseIsCandidate
    <3>3. CASE ~AcceptsAnswer(a)
      <4>1. concluded'.cause = {}
        BY <3>1, <3>3 DEF FallbackReport, NoCause
      <4> QED BY <4>1 DEF CauseIsCandidate
    <3> QED BY <3>2, <3>3
  <2>4. ChainIsGrounded'
    BY <2>1 DEF ChainIsGrounded, NoContext
  <2> QED BY <2>1, <2>2, <2>3, <2>4 DEF NoContext
<1>3. CASE Explain
  <2>1. UNCHANGED <<facts, resolving, ranked, concluded, graph>> /\ reached = "concluded"
    BY <1>3 DEF Explain
  <2>2. reached' \in {"explained", "refused"}
    BY <1>3 DEF Explain
  <2>3. RankedFits'
    BY <2>1, RankedStay
  <2>4. CauseIsCandidate'
    BY <2>1 DEF CauseIsCandidate
  <2>5. ChainIsGrounded'
    <3>1. CASE graph.nodes = {}
      <4>1. explained' = explained
        BY <1>3, <3>1 DEF Explain
      <4>2. explained'.chain = {}
        BY <2>1, <4>1 DEF NoContext
      <4> QED BY <4>2 DEF ChainIsGrounded
    <3>2. CASE explained' \in CausalContexts
      <4>1. CASE concluded.status = NoAction \/ RootNode = {}
        <5>1. explained'.chain = {}
          BY <3>2, <4>1 DEF CausalContexts, NoContext
        <5> QED BY <5>1 DEF ChainIsGrounded
      <4>2. CASE ~(concluded.status = NoAction \/ RootNode = {})
                 /\ \A n \in concluded.cites : facts[n].type # "TOPOLOGY"
        <5>1. explained' = [NoContext EXCEPT !.root = RootNode]
          BY <3>2, <4>2 DEF CausalContexts
        <5>2. explained'.chain = {}
          BY <5>1 DEF NoContext
        <5> QED BY <5>2 DEF ChainIsGrounded
      <4>3. CASE ~(concluded.status = NoAction \/ RootNode = {})
                 /\ ~\A n \in concluded.cites : facts[n].type # "TOPOLOGY"
        <5>0. PICK more \in SUBSET graph.nodes :
                \E c \in Traversals(RootNode, ObservedNodes \cup more) :
                  explained' = [root |-> RootNode, chain |-> c, services |-> Impact(RootNode, c)]
          BY <3>2, <4>3 DEF CausalContexts
        <5>1. PICK chain \in Traversals(RootNode, ObservedNodes \cup more) :
                explained' = [root |-> RootNode, chain |-> chain,
                              services |-> Impact(RootNode, chain)]
          BY <5>0
        <5>2. explained'.root = RootNode /\ explained'.chain = chain
              /\ explained'.services = Impact(RootNode, chain)
          BY <5>1
        <5>3. \A u \in graph.nodes \cup {e.to : e \in graph.edges} : u \in Seq(STRING)
          BY DEF GraphAsks
        <5>4. LET reached0 == RootNode \cup {e.to : e \in chain} IN
              /\ \A e \in chain : e.from \in reached0 /\ e.to \notin RootNode
              /\ \A d, e \in chain : d.to = e.to => d = e
              /\ \A v \in Impact(RootNode, chain) : NodeOf(v) \in reached0
          BY <5>3, FollowedIsGrounded
        <5> QED BY <2>1, <4>3, <5>2, <5>4 DEF ChainIsGrounded, NodeOf
      <4> QED BY <4>1, <4>2, <4>3
    <3> QED BY <1>3, <3>1, <3>2 DEF Explain
  <2> QED BY <2>1, <2>2, <2>3, <2>4, <2>5
<1>4. CASE UNCHANGED causeVars
  <2>1. UNCHANGED <<facts, resolving, reached, ranked, concluded, graph, explained>>
    BY <1>4 DEF causeVars
  <2>2. RankedFits'
    BY <2>1, RankedStay
  <2> QED BY <2>1, <2>2 DEF CauseIsCandidate, ChainIsGrounded, NoContext, NodeOf
<1> QED BY <1>1, <1>2, <1>3, <1>4 DEF CausesNext

LEMMA CausesHold ==
  ASSUME NEW G, CausesInv(G)
  PROVE  CausesAreSound
BY RankingHolds DEF CausesInv, CausesAreSound

\* From evidence to a conclusion, whatever the evidence, the model's answer and
\* the topology are.
THEOREM CausesAlwaysSound ==
  ASSUME NEW E, NEW G, EvidenceAsks(E), GraphAsks(G)
  PROVE  CausesStart(E, G) /\ [][CausesNext]_causeVars => []CausesAreSound
<1>1. CausesStart(E, G) => CausesInv(G)
  BY CausesBegin
<1>2. CausesInv(G) /\ [CausesNext]_causeVars => CausesInv(G)'
  BY CausesGoOn
<1>3. CausesInv(G) => CausesAreSound
  BY CausesHold
<1> QED BY <1>1, <1>2, <1>3, PTL

----------------------------------------------------------------------------
(* Investigations, for any number of executions, any plan of different tools *)
(* and any budget.  Evidence is what calls brought (Accounted), a plan visits *)
(* its tools in order (OfPlan), and a choice keeps to budget and topology   *)
(* (OfChoice).                                                              *)

InquiryStages ==
  Ceased \cup {"none", "idle", "preparing", "continuing", "checking", "permitted", "calling",
               "saving", "saving_again", "saving_last", "collected"}
InquiryRow ==
  [at : InquiryStages, tool : Tools \cup {NoTool}, checked : Nat, steps : Nat,
   visited : SUBSET Tools, done : SUBSET Tools, failed : SUBSET Tools, signals : BOOLEAN,
   evidence : SUBSET Tools, invoked : SUBSET (Tools \X {"SUCCEEDED", "FAILED"}), version : Nat,
   stop : {"none", "BUDGET_EXHAUSTED", "EVIDENCE_SUFFICIENT", "POLICY_BLOCKED"},
   late : SUBSET Tools, confidence : Int, named : SUBSET Tools]

\* The tools that the planner asks for whatever the others find.
Core == {"topology", "metrics", "logs", "knowledge", "runbooks"}

\* What the calls left: a tool that is about to be called has not been called.
Accounted(q) ==
  /\ q.evidence = {t \in Tools : <<t, "SUCCEEDED">> \in q.invoked}
  /\ \A t \in Tools : <<t, "SUCCEEDED">> \in q.invoked => t \in q.visited
  /\ \A t \in Tools : <<t, "FAILED">> \in q.invoked => t \in q.visited /\ t \in q.failed
  /\ \A t \in Tools : <<t, "SUCCEEDED">> \notin q.invoked \/ <<t, "FAILED">> \notin q.invoked
  /\ q.at \in {"checking", "permitted", "calling"} => q.tool \in Tools \ q.visited
  /\ q.at = "saving" => q.tool \in Tools
  /\ q.at = "reported" => q.evidence # {} /\ q.named = q.failed

\* The tools visited are the first ones of the plan.
FirstOfPlan(visited) ==
  /\ IsFiniteSet(visited)
  /\ \E n \in 0..Len(Plan) : visited = {Plan[m] : m \in 1..n} /\ Cardinality(visited) = n

OfPlan(q) ==
  /\ q.at \notin {"checking", "permitted", "saving", "saving_again", "saving_last"}
  /\ q.at \in {"none", "idle", "preparing"} => q.visited = {} /\ q.invoked = {}
  /\ q.at \in {"calling", "continuing"} => q.checked = Len(Plan)
  /\ q.invoked # {} => q.checked = Len(Plan)
  /\ FirstOfPlan(q.visited)
  /\ q.at = "calling" => /\ Cardinality(q.visited) < Len(Plan)
                         /\ q.tool = Plan[Cardinality(q.visited) + 1]
  /\ q.failed \subseteq q.visited
  /\ q.evidence \subseteq q.visited
  /\ q.at = "reported" /\ q.confidence > 4 => q.failed = {}

\* Steps count before calls do; after a revocation one call began at most.
OfChoice(q) ==
  /\ q.at # "preparing"
  /\ IsFiniteSet(q.invoked) /\ Cardinality(q.invoked) <= q.steps /\ Cardinality(q.invoked) <= maxSteps
  /\ q.at \in {"checking", "permitted", "calling"} => q.steps < maxSteps
  /\ q.at \in {"saving", "saving_last"} => q.steps <= maxSteps
  /\ q.steps <= maxSteps + 1
  /\ q.late = {} \/ (~granted /\ \E t : q.late = {t})
  /\ q.at = "permitted" => q.late = {}
  /\ q.stop = "EVIDENCE_SUFFICIENT" => q.steps >= maxSteps \/ Core \subseteq q.visited
  /\ q.at = "reported" /\ q.confidence > 4 => q.stop = "EVIDENCE_SUFFICIENT"

InquiryFits(q) ==
  /\ q \in InquiryRow /\ Accounted(q)
  /\ policy = "dynamic" => OfChoice(q)
  /\ policy # "dynamic" => OfPlan(q)

InvestigationInv ==
  /\ policy \in {"fail_fast", "degrading", "dynamic"} /\ maxSteps \in Nat /\ granted \in BOOLEAN
  /\ checkpoint.version \in Nat
  /\ inquiry \in [Execution -> InquiryRow]
  /\ \A x \in Execution : InquiryFits(inquiry[x])

InvestigationStart(S) ==
  /\ \E s \in S : /\ policy = s[1] /\ surroundings = s[2] /\ maxSteps = s[3]
                  /\ Starting0(s[4])
  /\ InvestigationInit

LEMMA PlanIsOfTools ==
  /\ Len(Plan) \in Nat /\ DOMAIN Plan = 1..Len(Plan) /\ \A n \in 1..Len(Plan) : Plan[n] \in Tools
  /\ \A m, n \in 1..Len(Plan) : Plan[m] = Plan[n] => m = n
BY InvestigationAssumption

LEMMA FreshIsFine ==
  ASSUME NEW at \in {"idle", "none"}, maxSteps \in Nat
  PROVE  InquiryFits([Fresh0 EXCEPT !.at = at])
<1>1. PICK fresh : fresh = Fresh0
  OBVIOUS
<1>2. fresh = [at |-> "idle", tool |-> NoTool, checked |-> 0, steps |-> 0, visited |-> {},
               done |-> {}, failed |-> {}, signals |-> FALSE, evidence |-> {}, invoked |-> {},
               version |-> 1, stop |-> "none", late |-> {}, confidence |-> 0, named |-> {}]
  BY <1>1 DEF Fresh0
<1>3. PICK q : q = [fresh EXCEPT !.at = at]
  OBVIOUS
<1>4. q = [at |-> at, tool |-> NoTool, checked |-> 0, steps |-> 0, visited |-> {},
           done |-> {}, failed |-> {}, signals |-> FALSE, evidence |-> {}, invoked |-> {},
           version |-> 1, stop |-> "none", late |-> {}, confidence |-> 0, named |-> {}]
  BY <1>2, <1>3
<1>5. at \in InquiryStages
  BY DEF InquiryStages
<1>6. q \in InquiryRow
  BY <1>4, <1>5 DEF InquiryRow
<1>7. Accounted(q)
  BY <1>4 DEF Accounted
<1>8. OfChoice(q)
  <2>1. IsFiniteSet({}) /\ Cardinality({}) = 0
    BY FS_EmptySet
  <2> QED BY <1>4, <2>1 DEF OfChoice
<1>9. OfPlan(q)
  <2>1. {Plan[m] : m \in 1..0} = {} /\ IsFiniteSet({}) /\ Cardinality({}) = 0 /\ 0 \in 0..Len(Plan)
    BY FS_EmptySet, PlanIsOfTools
  <2>2. FirstOfPlan({})
    BY <2>1 DEF FirstOfPlan
  <2> QED BY <1>4, <2>2 DEF OfPlan
<1> QED BY <1>1, <1>3, <1>6, <1>7, <1>8, <1>9 DEF InquiryFits

LEMMA InvestigationBegins ==
  ASSUME NEW S, InquestAsks(S), InvestigationStart(S)
  PROVE  InvestigationInv
<1>1. PICK s \in S : policy = s[1] /\ surroundings = s[2] /\ maxSteps = s[3] /\ Starting0(s[4])
  BY DEF InvestigationStart
<1>2. granted = TRUE /\ checkpoint.version = 0
  BY DEF InvestigationStart, InvestigationInit, NoRow
<1>3. policy \in {"fail_fast", "degrading", "dynamic"} /\ maxSteps \in Nat
  BY <1>1 DEF InquestAsks
<1>4. Fresh0 = [Fresh0 EXCEPT !.at = "idle"]
  <2>1. PICK fresh : fresh = Fresh0
    OBVIOUS
  <2>2. fresh = [at |-> "idle", tool |-> NoTool, checked |-> 0, steps |-> 0, visited |-> {},
                 done |-> {}, failed |-> {}, signals |-> FALSE, evidence |-> {}, invoked |-> {},
                 version |-> 1, stop |-> "none", late |-> {}, confidence |-> 0, named |-> {}]
    BY <2>1 DEF Fresh0
  <2>3. PICK q : q = [fresh EXCEPT !.at = "idle"]
    OBVIOUS
  <2>4. q = [at |-> "idle", tool |-> NoTool, checked |-> 0, steps |-> 0, visited |-> {},
             done |-> {}, failed |-> {}, signals |-> FALSE, evidence |-> {}, invoked |-> {},
             version |-> 1, stop |-> "none", late |-> {}, confidence |-> 0, named |-> {}]
    BY <2>2, <2>3
  <2>5. q = fresh
    BY <2>2, <2>4, Zenon
  <2> QED BY <2>1, <2>3, <2>5
<1>5. ASSUME NEW x \in Execution PROVE InquiryFits(inquiry[x])
  <2>1. inquiry[x] = Fresh0 \/ inquiry[x] = [Fresh0 EXCEPT !.at = "none"]
    BY <1>1 DEF Starting0
  <2> QED BY <1>3, <1>4, <2>1, FreshIsFine
<1>6. inquiry \in [Execution -> InquiryRow]
  BY <1>1, <1>5 DEF Starting0, InquiryFits
<1> QED BY <1>2, <1>3, <1>5, <1>6 DEF InvestigationInv

----------------------------------------------------------------------------
(* One execution moves at a time, and its row with it.                      *)

LEMMA InquiryMoves ==
  ASSUME InvestigationInv, NEW x \in Execution, NEW r, InquiryFits(r),
         inquiry' = [inquiry EXCEPT ![x] = r], UNCHANGED <<scenarioVars, granted>>,
         checkpoint'.version \in Nat
  PROVE  InvestigationInv'
<1>1. \A y \in Execution : InquiryFits(inquiry'[y])
  BY DEF InvestigationInv
<1>2. \A y \in Execution : InquiryFits(inquiry[y])'
  BY <1>1 DEF InquiryFits, OfChoice, scenarioVars
<1>3. inquiry' \in [Execution -> InquiryRow]
  BY <1>1 DEF InvestigationInv, InquiryFits
<1> QED BY <1>2, <1>3 DEF InvestigationInv, scenarioVars

LEMMA AllOfRow ==
  ASSUME NEW q \in InquiryRow
  PROVE  q = [at |-> q.at, tool |-> q.tool, checked |-> q.checked, steps |-> q.steps,
              visited |-> q.visited, done |-> q.done, failed |-> q.failed,
              signals |-> q.signals, evidence |-> q.evidence, invoked |-> q.invoked,
              version |-> q.version, stop |-> q.stop, late |-> q.late,
              confidence |-> q.confidence, named |-> q.named]
BY DEF InquiryRow

\* What a row keeps but for its stage.
AllButStage(q, r) ==
  /\ r.tool = q.tool /\ r.checked = q.checked /\ r.steps = q.steps /\ r.visited = q.visited
  /\ r.failed = q.failed /\ r.evidence = q.evidence /\ r.invoked = q.invoked
  /\ r.version = q.version /\ r.stop = q.stop /\ r.late = q.late
  /\ r.confidence = q.confidence /\ r.named = q.named

LEMMA StageMoves ==
  ASSUME NEW q \in InquiryRow, NEW s \in InquiryStages, NEW r, r = [q EXCEPT !.at = s]
  PROVE  r \in InquiryRow /\ r.at = s /\ AllButStage(q, r)
<1>1. r = [at |-> s, tool |-> q.tool, checked |-> q.checked, steps |-> q.steps,
           visited |-> q.visited, done |-> q.done, failed |-> q.failed,
           signals |-> q.signals, evidence |-> q.evidence, invoked |-> q.invoked,
           version |-> q.version, stop |-> q.stop, late |-> q.late,
           confidence |-> q.confidence, named |-> q.named]
  BY AllOfRow
<1> QED BY <1>1 DEF InquiryRow, AllButStage

\* Where an execution may go with nothing else changed.
LEMMA NowKeeps ==
  ASSUME InvestigationInv, NEW x \in Execution, NEW s \in InquiryStages, Now(x, s),
         UNCHANGED <<scenarioVars, granted>>, checkpoint'.version \in Nat,
         s \notin {"calling", "checking", "reported", "saving", "saving_last", "none", "idle"},
         s = "permitted" => policy = "dynamic" /\ inquiry[x].at = "checking" /\ granted,
         s = "preparing" => policy # "dynamic" /\ inquiry[x].at = "idle",
         s = "continuing" => policy = "dynamic",
         s = "saving_again" => FALSE
  PROVE  InvestigationInv'
<1> DEFINE q == inquiry[x]
<1>1. q \in InquiryRow /\ InquiryFits(q) /\ policy \in {"fail_fast", "degrading", "dynamic"}
  BY DEF InvestigationInv
<1>2. PICK r : r = [q EXCEPT !.at = s]
  OBVIOUS
<1>3. r \in InquiryRow /\ r.at = s /\ AllButStage(q, r)
  BY <1>1, <1>2, StageMoves
<1>4. inquiry' = [inquiry EXCEPT ![x] = r]
  BY <1>2 DEF Now
<1> HIDE DEF q
<1>5. Accounted(r)
  BY <1>1, <1>3 DEF InquiryFits, Accounted, AllButStage, q
<1>6. ASSUME policy = "dynamic" PROVE OfChoice(r)
  BY <1>1, <1>3, <1>6 DEF InquiryFits, OfChoice, AllButStage, q
<1>7. ASSUME policy # "dynamic" PROVE OfPlan(r)
  BY <1>1, <1>3, <1>7 DEF InquiryFits, OfPlan, AllButStage, q
<1>8. InquiryFits(r)
  BY <1>3, <1>5, <1>6, <1>7 DEF InquiryFits
<1> QED BY <1>4, <1>8, InquiryMoves

\* How a stage is reached from another, a step at a time.
LEMMA OnlyStages ==
  ASSUME InvestigationInv, NEW x \in Execution, UNCHANGED <<scenarioVars, granted, checkpoint>>,
         \/ StartPlan(x) \/ LoadContext(x) \/ CancelExecution(x)
         \/ CheckPermission(x) /\ granted /\ Now(x, "permitted")
         \/ PrepareStep(x) /\ Now(x, "lost")
         \/ CallOfPlan(x) /\ Now(x, "collected")
         \/ Choose(x) /\ Now(x, "collected")
         \/ Report(x) /\ Now(x, "failed")
  PROVE  InvestigationInv'
<1>1. /\ inquiry[x] \in InquiryRow /\ InquiryFits(inquiry[x]) /\ checkpoint'.version \in Nat
      /\ policy \in {"fail_fast", "degrading", "dynamic"}
  BY DEF InvestigationInv
<1>2. {"preparing", "continuing", "lost", "cancelled", "permitted", "collected", "failed"}
        \subseteq InquiryStages
  BY DEF InquiryStages, Ceased
<1>3. PICK s \in {"preparing", "continuing", "lost", "cancelled", "permitted", "collected", "failed"} :
        /\ Now(x, s)
        /\ s = "permitted" => policy = "dynamic" /\ inquiry[x].at = "checking" /\ granted
        /\ s = "preparing" => policy # "dynamic" /\ inquiry[x].at = "idle"
        /\ s = "continuing" => policy = "dynamic"
  <2>1. CASE StartPlan(x)
    BY <2>1 DEF StartPlan
  <2>2. CASE LoadContext(x)
    BY <2>2 DEF LoadContext
  <2>3. CASE CancelExecution(x)
    BY <2>3 DEF CancelExecution
  <2>4. CASE CheckPermission(x) /\ granted /\ Now(x, "permitted")
    <3>1. inquiry[x].at = "checking"
      BY <2>4 DEF CheckPermission
    <3>2. policy = "dynamic"
      BY <1>1, <3>1 DEF InquiryFits, OfPlan
    <3> QED BY <2>4, <3>1, <3>2
  <2>5. CASE Now(x, "lost") \/ Now(x, "collected") \/ Now(x, "failed")
    BY <2>5
  <2> QED BY <2>1, <2>2, <2>3, <2>4, <2>5
<1> QED BY <1>1, <1>2, <1>3, NowKeeps

LEMMA PrepareKeeps ==
  ASSUME InvestigationInv, NEW x \in Execution, PrepareStep(x)
  PROVE  InvestigationInv'
<1> DEFINE q == inquiry[x]
<1>1. /\ q \in InquiryRow /\ InquiryFits(q) /\ checkpoint'.version \in Nat
      /\ UNCHANGED <<scenarioVars, granted, checkpoint>>
  BY DEF InvestigationInv, PrepareStep
<1>2. CASE Now(x, "lost")
  BY <1>1, <1>2, OnlyStages
<1>3. CASE ~Now(x, "lost")
  <2>1. inquiry' = [inquiry EXCEPT ![x].checked = @ + 1] /\ q.at = "preparing"
    BY <1>3 DEF PrepareStep
  <2>2. PICK n \in Nat : n = q.checked + 1
    BY <1>1 DEF InquiryRow
  <2>3. PICK r : r = [q EXCEPT !.checked = n]
    OBVIOUS
  <2>4. r = [at |-> q.at, tool |-> q.tool, checked |-> n, steps |-> q.steps,
             visited |-> q.visited, done |-> q.done, failed |-> q.failed,
             signals |-> q.signals, evidence |-> q.evidence, invoked |-> q.invoked,
             version |-> q.version, stop |-> q.stop, late |-> q.late,
             confidence |-> q.confidence, named |-> q.named]
    BY <1>1, <2>3, AllOfRow
  <2>5. inquiry' = [inquiry EXCEPT ![x] = r]
    BY <2>1, <2>2, <2>3
  <2> HIDE DEF q
  <2>6. r \in InquiryRow
    BY <1>1, <2>4 DEF InquiryRow
  <2>7. Accounted(r)
    BY <1>1, <2>4 DEF InquiryFits, Accounted
  <2>8. policy # "dynamic" /\ OfPlan(q)
    BY <1>1, <2>1 DEF InquiryFits, OfChoice
  <2>9. OfPlan(r)
    BY <2>1, <2>4, <2>8 DEF OfPlan
  <2>10. InquiryFits(r)
    BY <2>6, <2>7, <2>8, <2>9 DEF InquiryFits
  <2> QED BY <1>1, <2>5, <2>10, InquiryMoves
<1> QED BY <1>2, <1>3

\* The next tool of the plan is one that was not visited.
LEMMA NextIsNew ==
  ASSUME NEW visited, FirstOfPlan(visited), Cardinality(visited) # Len(Plan)
  PROVE  /\ Cardinality(visited) \in Nat /\ Cardinality(visited) < Len(Plan)
         /\ Plan[Cardinality(visited) + 1] \in Tools \ visited
         /\ FirstOfPlan(visited \cup {Plan[Cardinality(visited) + 1]})
<1>1. PICK n \in 0..Len(Plan) : visited = {Plan[m] : m \in 1..n} /\ Cardinality(visited) = n
  BY DEF FirstOfPlan
<1>2. n \in Nat /\ n < Len(Plan) /\ n + 1 \in 1..Len(Plan) /\ n + 1 \in 0..Len(Plan)
  <2>1. Len(Plan) \in Nat
    BY PlanIsOfTools
  <2> QED BY <1>1, <2>1
<1>3. Plan[n + 1] \in Tools
  BY <1>2, PlanIsOfTools
<1>4. ASSUME Plan[n + 1] \in visited PROVE FALSE
  <2>1. PICK m \in 1..n : Plan[m] = Plan[n + 1]
    BY <1>1, <1>4
  <2>2. m \in 1..Len(Plan) /\ m # n + 1
    BY <1>2
  <2> QED BY <1>2, <2>1, <2>2, PlanIsOfTools
<1>5. visited \cup {Plan[n + 1]} = {Plan[m] : m \in 1..(n + 1)}
  <2>1. 1..(n + 1) = 1..n \cup {n + 1}
    BY <1>2
  <2> QED BY <1>1, <2>1
<1>6. IsFiniteSet(visited)
  BY DEF FirstOfPlan
<1>7. Cardinality(visited \cup {Plan[n + 1]}) = n + 1
  BY <1>1, <1>4, <1>6, FS_AddElement
<1>8. FirstOfPlan(visited \cup {Plan[n + 1]})
  <2>1. IsFiniteSet(visited \cup {Plan[n + 1]})
    BY <1>6, FS_AddElement
  <2> QED BY <1>2, <1>5, <1>7, <2>1 DEF FirstOfPlan
<1> QED BY <1>1, <1>2, <1>3, <1>4, <1>8

LEMMA CallOfPlanKeeps ==
  ASSUME InvestigationInv, NEW x \in Execution, CallOfPlan(x)
  PROVE  InvestigationInv'
<1> DEFINE q == inquiry[x]
<1>1. /\ q \in InquiryRow /\ InquiryFits(q) /\ checkpoint'.version \in Nat
      /\ UNCHANGED <<scenarioVars, granted, checkpoint>> /\ policy # "dynamic"
      /\ q.checked = Len(Plan) \/ q.at = "continuing"
  BY DEF InvestigationInv, CallOfPlan
<1>2. CASE Cardinality(q.visited) = Len(Plan)
  BY <1>1, <1>2, OnlyStages DEF CallOfPlan
<1>3. CASE Cardinality(q.visited) # Len(Plan)
  <2>1. inquiry' = [inquiry EXCEPT
            ![x].at = "calling", ![x].tool = NextOfPlan(x),
            ![x].late = IF granted THEN @ ELSE @ \cup {NextOfPlan(x)}]
    BY <1>3 DEF CallOfPlan
  <2>2. OfPlan(q) /\ Accounted(q)
    BY <1>1 DEF InquiryFits
  <2>3. PICK tool : tool = NextOfPlan(x)
    OBVIOUS
  <2>4. /\ tool \in Tools \ q.visited /\ tool = Plan[Cardinality(q.visited) + 1]
        /\ Cardinality(q.visited) < Len(Plan)
    BY <1>3, <2>2, <2>3, NextIsNew DEF NextOfPlan, OfPlan
  <2>5. PICK late \in SUBSET Tools : late = IF granted THEN q.late ELSE q.late \cup {tool}
    BY <1>1, <2>4 DEF InquiryRow
  <2>6. PICK r : r = [q EXCEPT !.at = "calling", !.tool = tool, !.late = late]
    OBVIOUS
  <2>7. inquiry' = [inquiry EXCEPT ![x] = r]
    BY <2>1, <2>3, <2>5, <2>6
  <2>8. q = [at |-> q.at, tool |-> q.tool, checked |-> q.checked, steps |-> q.steps,
             visited |-> q.visited, done |-> q.done, failed |-> q.failed,
             signals |-> q.signals, evidence |-> q.evidence, invoked |-> q.invoked,
             version |-> q.version, stop |-> q.stop, late |-> q.late,
             confidence |-> q.confidence, named |-> q.named]
    BY <1>1, AllOfRow
  <2> HIDE DEF q
  <2>9. r = [at |-> "calling", tool |-> tool, checked |-> q.checked, steps |-> q.steps,
             visited |-> q.visited, done |-> q.done, failed |-> q.failed,
             signals |-> q.signals, evidence |-> q.evidence, invoked |-> q.invoked,
             version |-> q.version, stop |-> q.stop, late |-> late,
             confidence |-> q.confidence, named |-> q.named]
    BY <2>6, <2>8
  <2>10. r \in InquiryRow
    BY <1>1, <2>4, <2>9 DEF InquiryRow, InquiryStages
  <2>11. Accounted(r)
    BY <2>2, <2>4, <2>9 DEF Accounted
  <2>12. q.checked = Len(Plan)
    BY <1>1, <2>2 DEF OfPlan
  <2>13. OfPlan(r)
    BY <2>2, <2>4, <2>9, <2>12 DEF OfPlan
  <2>14. InquiryFits(r)
    BY <1>1, <2>10, <2>11, <2>13 DEF InquiryFits
  <2> QED BY <1>1, <2>7, <2>14, InquiryMoves
<1> QED BY <1>2, <1>3

----------------------------------------------------------------------------
(* What a call leaves.                                                      *)

\* A row after a call with its outcome.
CalledRow(q, r, outcome) ==
  /\ r.tool = q.tool /\ r.visited = q.visited \cup {q.tool}
  /\ r.invoked = q.invoked \cup {<<q.tool, outcome>>}
  /\ outcome = "SUCCEEDED" => r.evidence = q.evidence \cup {q.tool}
  /\ outcome = "FAILED" => r.evidence = q.evidence /\ q.tool \in r.failed
  /\ q.failed \subseteq r.failed /\ r.failed \subseteq q.failed \cup {q.tool}

LEMMA CallIsAccounted ==
  ASSUME NEW q \in InquiryRow, Accounted(q), q.at = "calling", NEW r,
         NEW outcome \in {"SUCCEEDED", "FAILED"}, CalledRow(q, r, outcome),
         r.at \notin {"checking", "permitted", "calling", "reported"}
  PROVE  Accounted(r) /\ q.tool \in Tools
<1>1. q.tool \in Tools \ q.visited
  BY DEF Accounted
<1>2. <<q.tool, "SUCCEEDED">> \notin q.invoked /\ <<q.tool, "FAILED">> \notin q.invoked
  BY <1>1 DEF Accounted
<1>3. \A t \in Tools, o \in {"SUCCEEDED", "FAILED"} :
        <<t, o>> \in r.invoked <=> <<t, o>> \in q.invoked \/ (t = q.tool /\ o = outcome)
  BY DEF CalledRow
<1>4. r.evidence = {t \in Tools : <<t, "SUCCEEDED">> \in r.invoked}
  <2>1. CASE outcome = "SUCCEEDED"
    BY <1>1, <1>3, <2>1 DEF CalledRow, Accounted
  <2>2. CASE outcome = "FAILED"
    BY <1>1, <1>3, <2>2 DEF CalledRow, Accounted
  <2> QED BY <2>1, <2>2
<1>5. /\ \A t \in Tools : <<t, "SUCCEEDED">> \in r.invoked => t \in r.visited
      /\ \A t \in Tools : <<t, "FAILED">> \in r.invoked => t \in r.visited /\ t \in r.failed
      /\ \A t \in Tools : <<t, "SUCCEEDED">> \notin r.invoked \/ <<t, "FAILED">> \notin r.invoked
  BY <1>1, <1>2, <1>3 DEF CalledRow, Accounted
<1>6. r.tool \in Tools
  BY <1>1 DEF CalledRow
<1> QED BY <1>1, <1>4, <1>5, <1>6 DEF Accounted

LEMMA SuccessLeaves ==
  ASSUME InvestigationInv, NEW x \in Execution, inquiry[x].at = "calling"
  PROVE  LET q == inquiry[x]
         IN Succeeded(x) =
              [at |-> q.at, tool |-> q.tool, checked |-> q.checked, steps |-> q.steps,
               visited |-> q.visited \cup {q.tool}, done |-> q.done, failed |-> q.failed,
               signals |-> q.signals, evidence |-> q.evidence \cup {q.tool},
               invoked |-> q.invoked \cup {<<q.tool, "SUCCEEDED">>},
               version |-> q.version, stop |-> q.stop, late |-> q.late,
               confidence |-> q.confidence, named |-> q.named]
<1>1. PICK q : q = inquiry[x]
  OBVIOUS
<1>2. q \in InquiryRow
  BY <1>1 DEF InvestigationInv
<1>3. q = [at |-> q.at, tool |-> q.tool, checked |-> q.checked, steps |-> q.steps,
          visited |-> q.visited, done |-> q.done, failed |-> q.failed,
          signals |-> q.signals, evidence |-> q.evidence, invoked |-> q.invoked,
          version |-> q.version, stop |-> q.stop, late |-> q.late,
          confidence |-> q.confidence, named |-> q.named]
  BY <1>2, AllOfRow
<1>4. PICK r : r = [q EXCEPT !.visited = q.visited \cup {q.tool},
                             !.evidence = q.evidence \cup {q.tool},
                             !.invoked = q.invoked \cup {<<q.tool, "SUCCEEDED">>}]
  OBVIOUS
<1>5. r = [at |-> q.at, tool |-> q.tool, checked |-> q.checked, steps |-> q.steps,
               visited |-> q.visited \cup {q.tool}, done |-> q.done, failed |-> q.failed,
               signals |-> q.signals, evidence |-> q.evidence \cup {q.tool},
               invoked |-> q.invoked \cup {<<q.tool, "SUCCEEDED">>},
               version |-> q.version, stop |-> q.stop, late |-> q.late,
               confidence |-> q.confidence, named |-> q.named]
  BY <1>4, <1>3
<1>6. Succeeded(x) = r
  BY <1>1, <1>4 DEF Succeeded
<1> QED BY <1>1, <1>5, <1>6

LEMMA FailureLeaves ==
  ASSUME InvestigationInv, NEW x \in Execution, inquiry[x].at = "calling"
  PROVE  LET q == inquiry[x]
         IN Failed(x) =
              [at |-> q.at, tool |-> q.tool, checked |-> q.checked, steps |-> q.steps,
               visited |-> q.visited \cup {q.tool}, done |-> q.done,
               failed |-> q.failed \cup {q.tool},
               signals |-> q.signals, evidence |-> q.evidence,
               invoked |-> q.invoked \cup {<<q.tool, "FAILED">>},
               version |-> q.version, stop |-> q.stop, late |-> q.late,
               confidence |-> q.confidence, named |-> q.named]
<1>1. PICK q : q = inquiry[x]
  OBVIOUS
<1>2. q \in InquiryRow
  BY <1>1 DEF InvestigationInv
<1>3. q = [at |-> q.at, tool |-> q.tool, checked |-> q.checked, steps |-> q.steps,
          visited |-> q.visited, done |-> q.done, failed |-> q.failed,
          signals |-> q.signals, evidence |-> q.evidence, invoked |-> q.invoked,
          version |-> q.version, stop |-> q.stop, late |-> q.late,
          confidence |-> q.confidence, named |-> q.named]
  BY <1>2, AllOfRow
<1>4. PICK r : r = [q EXCEPT !.visited = q.visited \cup {q.tool},
                             !.failed = q.failed \cup {q.tool},
                             !.invoked = q.invoked \cup {<<q.tool, "FAILED">>}]
  OBVIOUS
<1>5. r = [at |-> q.at, tool |-> q.tool, checked |-> q.checked, steps |-> q.steps,
               visited |-> q.visited \cup {q.tool}, done |-> q.done,
               failed |-> q.failed \cup {q.tool},
               signals |-> q.signals, evidence |-> q.evidence,
               invoked |-> q.invoked \cup {<<q.tool, "FAILED">>},
               version |-> q.version, stop |-> q.stop, late |-> q.late,
               confidence |-> q.confidence, named |-> q.named]
  BY <1>4, <1>3
<1>6. Failed(x) = r
  BY <1>1, <1>4 DEF Failed
<1> QED BY <1>1, <1>5, <1>6

\* What the end of a call of the fixed plan leaves behind.
LEMMA PlanIsKept ==
  ASSUME NEW q \in InquiryRow, OfPlan(q), q.at = "calling", NEW r,
         NEW outcome \in {"SUCCEEDED", "FAILED"}, CalledRow(q, r, outcome),
         r.at \in {"continuing", "failed"}, r.checked = q.checked
  PROVE  OfPlan(r)
<1>1. /\ FirstOfPlan(q.visited) /\ Cardinality(q.visited) < Len(Plan)
      /\ q.tool = Plan[Cardinality(q.visited) + 1] /\ q.checked = Len(Plan)
      /\ q.failed \subseteq q.visited /\ q.evidence \subseteq q.visited
  BY DEF OfPlan
<1>2. Cardinality(q.visited) \in Nat /\ Len(Plan) \in Nat
  BY <1>1, FS_CardinalityType, PlanIsOfTools DEF FirstOfPlan
<1>3. FirstOfPlan(q.visited \cup {q.tool})
  BY <1>1, <1>2, NextIsNew
<1>4. /\ FirstOfPlan(r.visited) /\ r.failed \subseteq r.visited /\ r.evidence \subseteq r.visited
  BY <1>1, <1>3 DEF CalledRow
<1> QED BY <1>1, <1>4 DEF OfPlan

LEMMA CallEndsKeeps ==
  ASSUME InvestigationInv, NEW x \in Execution, CallEnds(x)
  PROVE  InvestigationInv'
<1> DEFINE q == inquiry[x]
<1>1. /\ q \in InquiryRow /\ InquiryFits(q) /\ checkpoint'.version \in Nat /\ q.at = "calling"
      /\ UNCHANGED <<scenarioVars, granted, checkpoint>> /\ policy # "dynamic"
  BY DEF InvestigationInv, CallEnds
<1>2. OfPlan(q) /\ Accounted(q)
  BY <1>1 DEF InquiryFits
<1>3. CASE inquiry' = [inquiry EXCEPT ![x] = [Succeeded(x) EXCEPT !.at = "continuing"]]
  <2>1. PICK u : u = Succeeded(x)
    OBVIOUS
  <2>2. u = [at |-> q.at, tool |-> q.tool, checked |-> q.checked, steps |-> q.steps,
             visited |-> q.visited \cup {q.tool}, done |-> q.done, failed |-> q.failed,
             signals |-> q.signals, evidence |-> q.evidence \cup {q.tool},
             invoked |-> q.invoked \cup {<<q.tool, "SUCCEEDED">>}, version |-> q.version,
             stop |-> q.stop, late |-> q.late, confidence |-> q.confidence,
             named |-> q.named]
    BY <1>1, <2>1, SuccessLeaves
  <2>3. PICK r : r = [u EXCEPT !.at = "continuing"]
    OBVIOUS
  <2>4. inquiry' = [inquiry EXCEPT ![x] = r]
    BY <1>3, <2>1, <2>3
  <2> HIDE DEF q
  <2>5. r = [at |-> "continuing", tool |-> q.tool, checked |-> q.checked, steps |-> q.steps,
             visited |-> q.visited \cup {q.tool}, done |-> q.done, failed |-> q.failed,
             signals |-> q.signals, evidence |-> q.evidence \cup {q.tool},
             invoked |-> q.invoked \cup {<<q.tool, "SUCCEEDED">>}, version |-> q.version,
             stop |-> q.stop, late |-> q.late, confidence |-> q.confidence,
             named |-> q.named]
    BY <2>2, <2>3
  <2>6. CalledRow(q, r, "SUCCEEDED")
    BY <2>5 DEF CalledRow
  <2>7. Accounted(r) /\ q.tool \in Tools
    BY <1>1, <1>2, <2>5, <2>6, CallIsAccounted
  <2>8. OfPlan(r)
    BY <1>1, <1>2, <2>5, <2>6, PlanIsKept
  <2>9. r \in InquiryRow
    BY <1>1, <2>5, <2>7 DEF InquiryRow, InquiryStages
  <2>10. InquiryFits(r)
    BY <1>1, <2>7, <2>8, <2>9 DEF InquiryFits
  <2> QED BY <1>1, <2>4, <2>10, InquiryMoves
<1>4. CASE inquiry' = [inquiry EXCEPT ![x] = AfterFailure(x)]
  <2>1. PICK u : u = Failed(x)
    OBVIOUS
  <2>2. u = [at |-> q.at, tool |-> q.tool, checked |-> q.checked, steps |-> q.steps,
             visited |-> q.visited \cup {q.tool}, done |-> q.done,
             failed |-> q.failed \cup {q.tool}, signals |-> q.signals,
             evidence |-> q.evidence, invoked |-> q.invoked \cup {<<q.tool, "FAILED">>},
             version |-> q.version, stop |-> q.stop, late |-> q.late,
             confidence |-> q.confidence, named |-> q.named]
    BY <1>1, <2>1, FailureLeaves
  <2>3. PICK s \in {"continuing", "failed"} :
          s = IF policy = "degrading" THEN "continuing" ELSE "failed"
    OBVIOUS
  <2>4. PICK r : r = [u EXCEPT !.at = s]
    OBVIOUS
  <2>5. inquiry' = [inquiry EXCEPT ![x] = r]
    BY <1>4, <2>1, <2>3, <2>4 DEF AfterFailure
  <2> HIDE DEF q
  <2>6. r = [at |-> s, tool |-> q.tool, checked |-> q.checked, steps |-> q.steps,
             visited |-> q.visited \cup {q.tool}, done |-> q.done,
             failed |-> q.failed \cup {q.tool}, signals |-> q.signals,
             evidence |-> q.evidence, invoked |-> q.invoked \cup {<<q.tool, "FAILED">>},
             version |-> q.version, stop |-> q.stop, late |-> q.late,
             confidence |-> q.confidence, named |-> q.named]
    BY <2>2, <2>4
  <2>7. CalledRow(q, r, "FAILED")
    BY <2>6 DEF CalledRow
  <2>8. Accounted(r) /\ q.tool \in Tools
    BY <1>1, <1>2, <2>6, <2>7, CallIsAccounted
  <2>9. OfPlan(r)
    BY <1>1, <1>2, <2>6, <2>7, PlanIsKept
  <2>10. r \in InquiryRow
    BY <1>1, <2>6, <2>8 DEF InquiryRow, InquiryStages, Ceased
  <2>11. InquiryFits(r)
    BY <1>1, <2>8, <2>9, <2>10 DEF InquiryFits
  <2> QED BY <1>1, <2>5, <2>11, InquiryMoves
<1> QED BY <1>3, <1>4 DEF CallEnds

----------------------------------------------------------------------------
(* The dynamic investigation.                                               *)

\* The planner asks for tools not visited yet, and gives up when it has those it
\* always asks for.
LEMMA PlannerChooses ==
  ASSUME NEW x
  PROVE  /\ NextTool(x) \in (Tools \ inquiry[x].visited) \cup {NoTool}
         /\ NextTool(x) = NoTool => Core \subseteq inquiry[x].visited
<1>1. NoTool \notin Tools
  BY DEF NoTool, Tools
<1>2. PICK v : v = inquiry[x].visited
  OBVIOUS
<1>3. CASE "topology" \notin v
  BY <1>1, <1>2, <1>3 DEF NextTool, Tools, NoTool
<1>4. CASE "topology" \in v /\ "metrics" \notin v
  BY <1>1, <1>2, <1>4 DEF NextTool, Tools, NoTool
<1>5. CASE {"topology", "metrics"} \subseteq v /\ "logs" \notin v
  BY <1>1, <1>2, <1>5 DEF NextTool, Tools, NoTool
<1>6. CASE Core \subseteq v
  BY <1>1, <1>2, <1>6 DEF NextTool, Tools, NoTool, Core
<1>7. CASE {"topology", "metrics", "logs"} \subseteq v /\ ~(Core \subseteq v)
  BY <1>1, <1>2, <1>7 DEF NextTool, Tools, NoTool, Core
<1> QED BY <1>3, <1>4, <1>5, <1>6, <1>7 DEF Core

\* Steps of the policy change a row in one of these ways.
LEMMA StoppingLeaves ==
  ASSUME NEW q \in InquiryRow, NEW reason
  PROVE  Stopping(q, reason) = [at |-> q.at, tool |-> q.tool, checked |-> q.checked,
                               steps |-> q.steps, visited |-> q.visited, done |-> q.done,
                               failed |-> q.failed, signals |-> q.signals,
                               evidence |-> q.evidence, invoked |-> q.invoked,
                               version |-> q.version + 1, stop |-> reason, late |-> q.late,
                               confidence |-> q.confidence, named |-> q.named]
<1>1. q = [at |-> q.at, tool |-> q.tool, checked |-> q.checked, steps |-> q.steps,
          visited |-> q.visited, done |-> q.done, failed |-> q.failed, signals |-> q.signals,
          evidence |-> q.evidence, invoked |-> q.invoked, version |-> q.version,
          stop |-> q.stop, late |-> q.late, confidence |-> q.confidence, named |-> q.named]
  BY AllOfRow
<1>2. PICK r : r = [q EXCEPT !.stop = reason, !.version = q.version + 1]
  OBVIOUS
<1>3. r = [at |-> q.at, tool |-> q.tool, checked |-> q.checked, steps |-> q.steps,
          visited |-> q.visited, done |-> q.done, failed |-> q.failed, signals |-> q.signals,
          evidence |-> q.evidence, invoked |-> q.invoked, version |-> q.version + 1,
          stop |-> reason, late |-> q.late, confidence |-> q.confidence, named |-> q.named]
  BY <1>1, <1>2
<1>4. Stopping(q, reason) = r
  BY <1>2 DEF Stopping
<1> QED BY <1>3, <1>4

LEMMA CountedLeaves ==
  ASSUME NEW q \in InquiryRow, NEW ok \in BOOLEAN
  PROVE  Counted(q, ok) = [at |-> q.at, tool |-> q.tool, checked |-> q.checked,
                          steps |-> q.steps + 1, visited |-> q.visited \cup {q.tool},
                          done |-> IF ok THEN q.done \cup {q.tool} ELSE q.done,
                          failed |-> IF ok THEN q.failed ELSE q.failed \cup {q.tool},
                          signals |-> q.signals, evidence |-> q.evidence,
                          invoked |-> q.invoked, version |-> q.version + 1, stop |-> q.stop,
                          late |-> q.late, confidence |-> q.confidence, named |-> q.named]
<1>1. q = [at |-> q.at, tool |-> q.tool, checked |-> q.checked, steps |-> q.steps,
          visited |-> q.visited, done |-> q.done, failed |-> q.failed, signals |-> q.signals,
          evidence |-> q.evidence, invoked |-> q.invoked, version |-> q.version,
          stop |-> q.stop, late |-> q.late, confidence |-> q.confidence, named |-> q.named]
  BY AllOfRow
<1> DEFINE done == IF ok THEN q.done \cup {q.tool} ELSE q.done
           failed == IF ok THEN q.failed ELSE q.failed \cup {q.tool}
<1>2. PICK r : r = [q EXCEPT !.steps = q.steps + 1, !.version = q.version + 1,
                             !.visited = q.visited \cup {q.tool},
                             !.done = done, !.failed = failed]
  OBVIOUS
<1>3. r = [at |-> q.at, tool |-> q.tool, checked |-> q.checked, steps |-> q.steps + 1,
          visited |-> q.visited \cup {q.tool}, done |-> done, failed |-> failed,
          signals |-> q.signals, evidence |-> q.evidence, invoked |-> q.invoked,
          version |-> q.version + 1, stop |-> q.stop, late |-> q.late,
          confidence |-> q.confidence, named |-> q.named]
  <2> HIDE DEF done, failed
  <2> QED BY <1>1, <1>2
<1>4. Counted(q, ok) = r
  BY <1>2 DEF Counted
<1> QED BY <1>3, <1>4

LEMMA StoppedKeeps ==
  ASSUME InvestigationInv, NEW x \in Execution, policy = "dynamic", inquiry[x].at = "continuing",
         NEW reason \in {"BUDGET_EXHAUSTED", "EVIDENCE_SUFFICIENT"},
         reason = "EVIDENCE_SUFFICIENT" => Core \subseteq inquiry[x].visited,
         inquiry' = [inquiry EXCEPT ![x] =
                       [Stopping(inquiry[x], reason) EXCEPT !.at = "collected"]],
         UNCHANGED <<scenarioVars, granted, checkpoint>>
  PROVE  InvestigationInv'
<1>1. PICK q : q = inquiry[x]
  OBVIOUS
<1>2. /\ q \in InquiryRow /\ InquiryFits(q) /\ checkpoint'.version \in Nat
      /\ OfChoice(q) /\ Accounted(q) /\ q.at = "continuing"
  BY <1>1 DEF InvestigationInv, InquiryFits
<1>3. PICK u : u = Stopping(q, reason)
  OBVIOUS
<1>4. u = [at |-> q.at, tool |-> q.tool, checked |-> q.checked, steps |-> q.steps,
          visited |-> q.visited, done |-> q.done, failed |-> q.failed, signals |-> q.signals,
          evidence |-> q.evidence, invoked |-> q.invoked, version |-> q.version + 1,
          stop |-> reason, late |-> q.late, confidence |-> q.confidence, named |-> q.named]
  BY <1>2, <1>3, StoppingLeaves
<1>5. PICK r : r = [u EXCEPT !.at = "collected"]
  OBVIOUS
<1>6. r = [at |-> "collected", tool |-> q.tool, checked |-> q.checked, steps |-> q.steps,
          visited |-> q.visited, done |-> q.done, failed |-> q.failed, signals |-> q.signals,
          evidence |-> q.evidence, invoked |-> q.invoked, version |-> q.version + 1,
          stop |-> reason, late |-> q.late, confidence |-> q.confidence, named |-> q.named]
  BY <1>4, <1>5
<1>7. inquiry' = [inquiry EXCEPT ![x] = r]
  BY <1>1, <1>3, <1>5
<1>8. r \in InquiryRow
  BY <1>2, <1>6 DEF InquiryRow, InquiryStages
<1>9. Accounted(r)
  BY <1>2, <1>6 DEF Accounted
<1>10. OfChoice(r)
  BY <1>1, <1>2, <1>6 DEF OfChoice
<1>11. InquiryFits(r)
  BY <1>8, <1>9, <1>10 DEF InquiryFits
<1> QED BY <1>2, <1>7, <1>11, InquiryMoves

\* A tool is due, or the policy refuses it, which counts as a step.
LEMMA DueLeaves ==
  ASSUME NEW q \in InquiryRow, NEW tool, NEW r, r = [q EXCEPT !.tool = tool]
  PROVE  r = [at |-> q.at, tool |-> tool, checked |-> q.checked, steps |-> q.steps,
          visited |-> q.visited, done |-> q.done, failed |-> q.failed, signals |-> q.signals,
          evidence |-> q.evidence, invoked |-> q.invoked, version |-> q.version,
          stop |-> q.stop, late |-> q.late, confidence |-> q.confidence, named |-> q.named]
<1>1. q = [at |-> q.at, tool |-> q.tool, checked |-> q.checked, steps |-> q.steps,
          visited |-> q.visited, done |-> q.done, failed |-> q.failed, signals |-> q.signals,
          evidence |-> q.evidence, invoked |-> q.invoked, version |-> q.version,
          stop |-> q.stop, late |-> q.late, confidence |-> q.confidence, named |-> q.named]
  BY AllOfRow
<1> QED BY <1>1

LEMMA CheckingKeeps ==
  ASSUME InvestigationInv, NEW x \in Execution, policy = "dynamic", inquiry[x].at = "continuing",
         WithinBudget(x), NextTool(x) # NoTool,
         inquiry' = [inquiry EXCEPT ![x] =
                       [[inquiry[x] EXCEPT !.tool = NextTool(x)] EXCEPT !.at = "checking"]],
         UNCHANGED <<scenarioVars, granted, checkpoint>>
  PROVE  InvestigationInv'
<1>1. PICK q : q = inquiry[x]
  OBVIOUS
<1>2. /\ q \in InquiryRow /\ InquiryFits(q) /\ checkpoint'.version \in Nat
      /\ OfChoice(q) /\ Accounted(q) /\ q.at = "continuing"
  BY <1>1 DEF InvestigationInv, InquiryFits
<1>3. PICK tool : tool = NextTool(x)
  OBVIOUS
<1>4. tool \in Tools \ q.visited
  BY <1>1, <1>3, PlannerChooses
<1>5. PICK u : u = [q EXCEPT !.tool = tool]
  OBVIOUS
<1>6. u = [at |-> q.at, tool |-> tool, checked |-> q.checked, steps |-> q.steps,
          visited |-> q.visited, done |-> q.done, failed |-> q.failed, signals |-> q.signals,
          evidence |-> q.evidence, invoked |-> q.invoked, version |-> q.version,
          stop |-> q.stop, late |-> q.late, confidence |-> q.confidence, named |-> q.named]
  BY <1>2, <1>5, DueLeaves
<1>7. PICK r : r = [u EXCEPT !.at = "checking"]
  OBVIOUS
<1>8. r = [at |-> "checking", tool |-> tool, checked |-> q.checked, steps |-> q.steps,
          visited |-> q.visited, done |-> q.done, failed |-> q.failed, signals |-> q.signals,
          evidence |-> q.evidence, invoked |-> q.invoked, version |-> q.version,
          stop |-> q.stop, late |-> q.late, confidence |-> q.confidence, named |-> q.named]
  BY <1>6, <1>7
<1>9. inquiry' = [inquiry EXCEPT ![x] = r]
  BY <1>1, <1>3, <1>5, <1>7
<1>10. r \in InquiryRow
  BY <1>2, <1>4, <1>8 DEF InquiryRow, InquiryStages
<1>11. Accounted(r)
  BY <1>2, <1>4, <1>8 DEF Accounted
<1>12. OfChoice(r)
  BY <1>1, <1>2, <1>8 DEF OfChoice, WithinBudget
<1>13. InquiryFits(r)
  BY <1>10, <1>11, <1>12 DEF InquiryFits
<1> QED BY <1>2, <1>9, <1>13, InquiryMoves

LEMMA BlockedKeeps ==
  ASSUME InvestigationInv, NEW x \in Execution, policy = "dynamic", inquiry[x].at = "continuing",
         WithinBudget(x), NextTool(x) # NoTool,
         inquiry' = [inquiry EXCEPT ![x] =
           [Stopping(Counted([inquiry[x] EXCEPT !.tool = NextTool(x)], FALSE), "POLICY_BLOCKED")
              EXCEPT !.at = "saving_last"]],
         UNCHANGED <<scenarioVars, granted, checkpoint>>
  PROVE  InvestigationInv'
<1>1. PICK q : q = inquiry[x]
  OBVIOUS
<1>2. /\ q \in InquiryRow /\ InquiryFits(q) /\ checkpoint'.version \in Nat
      /\ OfChoice(q) /\ Accounted(q) /\ q.at = "continuing"
  BY <1>1 DEF InvestigationInv, InquiryFits
<1>3. PICK tool : tool = NextTool(x)
  OBVIOUS
<1>4. tool \in Tools \ q.visited
  BY <1>1, <1>3, PlannerChooses
<1>5. PICK due : due = [q EXCEPT !.tool = tool]
  OBVIOUS
<1>6. due = [at |-> q.at, tool |-> tool, checked |-> q.checked, steps |-> q.steps,
            visited |-> q.visited, done |-> q.done, failed |-> q.failed,
            signals |-> q.signals, evidence |-> q.evidence, invoked |-> q.invoked,
            version |-> q.version, stop |-> q.stop, late |-> q.late,
            confidence |-> q.confidence, named |-> q.named]
  BY <1>2, <1>5, DueLeaves
<1>7. due \in InquiryRow
  BY <1>2, <1>4, <1>6 DEF InquiryRow
<1>8. PICK u : u = Counted(due, FALSE)
  OBVIOUS
<1>9. u = [at |-> q.at, tool |-> tool, checked |-> q.checked, steps |-> q.steps + 1,
          visited |-> q.visited \cup {tool}, done |-> q.done,
          failed |-> q.failed \cup {tool}, signals |-> q.signals, evidence |-> q.evidence,
          invoked |-> q.invoked, version |-> q.version + 1, stop |-> q.stop, late |-> q.late,
          confidence |-> q.confidence, named |-> q.named]
  BY <1>6, <1>7, <1>8, CountedLeaves
<1>10. u \in InquiryRow
  BY <1>2, <1>4, <1>9 DEF InquiryRow
<1>11. PICK v : v = Stopping(u, "POLICY_BLOCKED")
  OBVIOUS
<1>12. v = [at |-> q.at, tool |-> tool, checked |-> q.checked, steps |-> q.steps + 1,
           visited |-> q.visited \cup {tool}, done |-> q.done,
           failed |-> q.failed \cup {tool}, signals |-> q.signals, evidence |-> q.evidence,
           invoked |-> q.invoked, version |-> (q.version + 1) + 1, stop |-> "POLICY_BLOCKED",
           late |-> q.late, confidence |-> q.confidence, named |-> q.named]
  BY <1>9, <1>10, <1>11, StoppingLeaves
<1>13. PICK r : r = [v EXCEPT !.at = "saving_last"]
  OBVIOUS
<1>14. r = [at |-> "saving_last", tool |-> tool, checked |-> q.checked, steps |-> q.steps + 1,
           visited |-> q.visited \cup {tool}, done |-> q.done,
           failed |-> q.failed \cup {tool}, signals |-> q.signals, evidence |-> q.evidence,
           invoked |-> q.invoked, version |-> (q.version + 1) + 1, stop |-> "POLICY_BLOCKED",
           late |-> q.late, confidence |-> q.confidence, named |-> q.named]
  BY <1>12, <1>13
<1>15. inquiry' = [inquiry EXCEPT ![x] = r]
  BY <1>1, <1>3, <1>5, <1>8, <1>11, <1>13
<1>16. r \in InquiryRow
  BY <1>2, <1>4, <1>14 DEF InquiryRow, InquiryStages
<1>17. Accounted(r)
  BY <1>2, <1>4, <1>14 DEF Accounted
<1>18. q.steps < maxSteps /\ q.steps \in Nat /\ maxSteps \in Nat
  BY <1>1, <1>2 DEF WithinBudget, InquiryRow, InvestigationInv
<1>19. OfChoice(r)
  <2>1. Cardinality(r.invoked) <= r.steps /\ r.steps <= maxSteps
    <3>1. Cardinality(q.invoked) \in Nat
      BY <1>2, FS_CardinalityType DEF OfChoice
    <3> QED BY <1>2, <1>14, <1>18, <3>1 DEF OfChoice
  <2>2. /\ r.at = "saving_last" /\ r.invoked = q.invoked /\ r.late = q.late
        /\ r.stop = "POLICY_BLOCKED" /\ r.steps = q.steps + 1
    BY <1>14
  <2>3. /\ IsFiniteSet(r.invoked) /\ Cardinality(r.invoked) <= maxSteps
        /\ r.late = {} \/ (~granted /\ \E t : r.late = {t})
    BY <1>2, <2>2 DEF OfChoice
  <2>4. r.steps <= maxSteps + 1
    BY <1>18, <2>1, <2>2
  <2> QED BY <2>1, <2>2, <2>3, <2>4 DEF OfChoice
<1>20. InquiryFits(r)
  BY <1>16, <1>17, <1>19 DEF InquiryFits
<1> QED BY <1>2, <1>15, <1>20, InquiryMoves

LEMMA ChooseKeeps ==
  ASSUME InvestigationInv, NEW x \in Execution, Choose(x)
  PROVE  InvestigationInv'
<1>1. /\ policy = "dynamic" /\ inquiry[x].at = "continuing"
      /\ UNCHANGED <<scenarioVars, granted, checkpoint>>
  BY DEF Choose
<1>2. CASE Now(x, "collected")
  BY <1>1, <1>2, OnlyStages
<1>3. CASE inquiry' = [inquiry EXCEPT ![x] =
             [Stopping(inquiry[x], "BUDGET_EXHAUSTED") EXCEPT !.at = "collected"]]
  BY <1>1, <1>3, StoppedKeeps
<1>4. CASE ~Now(x, "collected") /\ inquiry' # [inquiry EXCEPT ![x] =
             [Stopping(inquiry[x], "BUDGET_EXHAUSTED") EXCEPT !.at = "collected"]]
  <2>1. /\ WithinBudget(x)
        /\ inquiry' = [inquiry EXCEPT ![x] =
             IF NextTool(x) = NoTool
             THEN [Stopping(inquiry[x], "EVIDENCE_SUFFICIENT") EXCEPT !.at = "collected"]
             ELSE IF Blocked(NextTool(x))
             THEN [Stopping(Counted([inquiry[x] EXCEPT !.tool = NextTool(x)], FALSE),
                            "POLICY_BLOCKED") EXCEPT !.at = "saving_last"]
             ELSE [[inquiry[x] EXCEPT !.tool = NextTool(x)] EXCEPT !.at = "checking"]]
    BY <1>4, Zenon DEF Choose
  <2>2. CASE NextTool(x) = NoTool
    <3>1. inquiry' = [inquiry EXCEPT ![x] =
                        [Stopping(inquiry[x], "EVIDENCE_SUFFICIENT") EXCEPT !.at = "collected"]]
      BY <2>1, <2>2, Zenon
    <3> QED BY <1>1, <2>2, <3>1, PlannerChooses, StoppedKeeps
  <2>3. CASE NextTool(x) # NoTool /\ Blocked(NextTool(x))
    <3>1. inquiry' = [inquiry EXCEPT ![x] =
             [Stopping(Counted([inquiry[x] EXCEPT !.tool = NextTool(x)], FALSE), "POLICY_BLOCKED")
                EXCEPT !.at = "saving_last"]]
      BY <2>1, <2>3, Zenon
    <3> QED BY <1>1, <2>1, <2>3, <3>1, BlockedKeeps
  <2>4. CASE NextTool(x) # NoTool /\ ~Blocked(NextTool(x))
    <3>1. inquiry' = [inquiry EXCEPT ![x] =
                       [[inquiry[x] EXCEPT !.tool = NextTool(x)] EXCEPT !.at = "checking"]]
      BY <2>1, <2>4, Zenon
    <3> QED BY <1>1, <2>1, <2>4, <3>1, CheckingKeeps
  <2> QED BY <2>2, <2>3, <2>4
<1> QED BY <1>2, <1>3, <1>4

\* A step that is counted as failed: a refused permission, or a checkpoint that
\* could not be written after a success.
LEMMA CountedKeeps ==
  ASSUME InvestigationInv, NEW x \in Execution, inquiry[x].at \in {"checking", "saving"},
         inquiry' = [inquiry EXCEPT ![x] =
                       [Counted(inquiry[x], FALSE) EXCEPT !.at = "saving_again"]],
         inquiry[x].tool \in Tools, UNCHANGED <<scenarioVars, granted, checkpoint>>
  PROVE  InvestigationInv'
<1>1. PICK q : q = inquiry[x]
  OBVIOUS
<1>2. /\ q \in InquiryRow /\ InquiryFits(q) /\ checkpoint'.version \in Nat
      /\ Accounted(q) /\ q.at \in {"checking", "saving"} /\ policy = "dynamic" /\ q.tool \in Tools
  BY <1>1 DEF InvestigationInv, InquiryFits, OfPlan
<1>3. OfChoice(q) /\ maxSteps \in Nat /\ q.steps \in Nat
  BY <1>2 DEF InquiryFits, InvestigationInv, InquiryRow
<1>4. PICK u : u = Counted(q, FALSE)
  OBVIOUS
<1>5. u = [at |-> q.at, tool |-> q.tool, checked |-> q.checked, steps |-> q.steps + 1,
          visited |-> q.visited \cup {q.tool}, done |-> q.done,
          failed |-> q.failed \cup {q.tool}, signals |-> q.signals, evidence |-> q.evidence,
          invoked |-> q.invoked, version |-> q.version + 1, stop |-> q.stop, late |-> q.late,
          confidence |-> q.confidence, named |-> q.named]
  BY <1>2, <1>4, CountedLeaves
<1>6. PICK r : r = [u EXCEPT !.at = "saving_again"]
  OBVIOUS
<1>7. r = [at |-> "saving_again", tool |-> q.tool, checked |-> q.checked,
          steps |-> q.steps + 1, visited |-> q.visited \cup {q.tool}, done |-> q.done,
          failed |-> q.failed \cup {q.tool}, signals |-> q.signals, evidence |-> q.evidence,
          invoked |-> q.invoked, version |-> q.version + 1, stop |-> q.stop, late |-> q.late,
          confidence |-> q.confidence, named |-> q.named]
  BY <1>5, <1>6
<1>8. inquiry' = [inquiry EXCEPT ![x] = r]
  BY <1>1, <1>4, <1>6
<1>9. r \in InquiryRow
  BY <1>2, <1>7 DEF InquiryRow, InquiryStages
<1>10. Accounted(r)
  BY <1>2, <1>7 DEF Accounted
<1>11. OfChoice(r)
  <2>1. Cardinality(q.invoked) \in Nat /\ q.steps <= maxSteps
    BY <1>2, <1>3, FS_CardinalityType DEF OfChoice
  <2>2. /\ r.at = "saving_again" /\ r.invoked = q.invoked /\ r.late = q.late
        /\ r.stop = q.stop /\ r.steps = q.steps + 1 /\ r.visited = q.visited \cup {q.tool}
    BY <1>7
  <2>3. /\ IsFiniteSet(r.invoked) /\ Cardinality(r.invoked) <= maxSteps
        /\ r.late = {} \/ (~granted /\ \E t : r.late = {t})
        /\ Cardinality(r.invoked) <= q.steps
        /\ r.stop = "EVIDENCE_SUFFICIENT" => q.steps >= maxSteps \/ Core \subseteq r.visited
    BY <1>3, <2>2 DEF OfChoice
  <2>4. r.steps <= maxSteps + 1 /\ Cardinality(r.invoked) <= r.steps
    BY <1>3, <2>1, <2>2, <2>3
  <2>5. r.stop = "EVIDENCE_SUFFICIENT" => r.steps >= maxSteps \/ Core \subseteq r.visited
    BY <1>3, <2>2, <2>3
  <2> QED BY <2>2, <2>3, <2>4, <2>5 DEF OfChoice
<1>12. InquiryFits(r)
  BY <1>2, <1>9, <1>10, <1>11 DEF InquiryFits
<1> QED BY <1>2, <1>8, <1>12, InquiryMoves

LEMMA CheckedKeeps ==
  ASSUME InvestigationInv, NEW x \in Execution, CheckPermission(x)
  PROVE  InvestigationInv'
<1>1. inquiry[x].at = "checking" /\ UNCHANGED <<scenarioVars, granted, checkpoint>>
  BY DEF CheckPermission
<1>2. CASE granted /\ Now(x, "permitted")
  BY <1>1, <1>2, OnlyStages
<1>3. CASE inquiry' = [inquiry EXCEPT ![x] = [Counted(@, FALSE) EXCEPT !.at = "saving_again"]]
  <2>1. inquiry[x].tool \in Tools
    BY <1>1 DEF InvestigationInv, InquiryFits, Accounted
  <2>2. inquiry' = [inquiry EXCEPT ![x] =
                      [Counted(inquiry[x], FALSE) EXCEPT !.at = "saving_again"]]
    BY <1>3, Zenon
  <2> QED BY <1>1, <2>1, <2>2, CountedKeeps
<1> QED BY <1>2, <1>3 DEF CheckPermission

LEMMA BeginCallKeeps ==
  ASSUME InvestigationInv, NEW x \in Execution, BeginCall(x)
  PROVE  InvestigationInv'
<1>1. PICK q : q = inquiry[x]
  OBVIOUS
<1>2. /\ q \in InquiryRow /\ InquiryFits(q) /\ checkpoint'.version \in Nat /\ q.at = "permitted"
      /\ UNCHANGED <<scenarioVars, granted, checkpoint>> /\ Accounted(q)
  BY <1>1 DEF InvestigationInv, BeginCall, InquiryFits
<1>3. policy = "dynamic" /\ OfChoice(q) /\ q.late = {}
  BY <1>2 DEF InquiryFits, OfPlan, OfChoice
<1>4. PICK late : late = IF granted THEN q.late ELSE q.late \cup {q.tool}
  OBVIOUS
<1>5. /\ late \subseteq Tools /\ (late = {} \/ (~granted /\ \E t : late = {t}))
  BY <1>2, <1>3, <1>4 DEF Accounted
<1>6. PICK r : r = [q EXCEPT !.at = "calling", !.late = late]
  OBVIOUS
<1>7. q = [at |-> q.at, tool |-> q.tool, checked |-> q.checked, steps |-> q.steps,
          visited |-> q.visited, done |-> q.done, failed |-> q.failed, signals |-> q.signals,
          evidence |-> q.evidence, invoked |-> q.invoked, version |-> q.version,
          stop |-> q.stop, late |-> q.late, confidence |-> q.confidence, named |-> q.named]
  BY <1>2, AllOfRow
<1>8. r = [at |-> "calling", tool |-> q.tool, checked |-> q.checked, steps |-> q.steps,
          visited |-> q.visited, done |-> q.done, failed |-> q.failed, signals |-> q.signals,
          evidence |-> q.evidence, invoked |-> q.invoked, version |-> q.version,
          stop |-> q.stop, late |-> late, confidence |-> q.confidence, named |-> q.named]
  BY <1>6, <1>7
<1>9. inquiry' = [inquiry EXCEPT ![x] = r]
  BY <1>1, <1>4, <1>6 DEF BeginCall
<1>10. r \in InquiryRow
  BY <1>2, <1>5, <1>8 DEF InquiryRow, InquiryStages
<1>11. Accounted(r)
  BY <1>2, <1>8 DEF Accounted
<1>12. OfChoice(r)
  BY <1>2, <1>3, <1>5, <1>8 DEF OfChoice
<1>13. InquiryFits(r)
  BY <1>3, <1>10, <1>11, <1>12 DEF InquiryFits
<1> QED BY <1>2, <1>9, <1>13, InquiryMoves

\* A call of the dynamic investigation counts as a step.
LEMMA ChoiceIsKept ==
  ASSUME NEW q \in InquiryRow, OfChoice(q), q.at = "calling", maxSteps \in Nat, NEW r,
         NEW outcome, CalledRow(q, r, outcome), r.at \in {"saving", "saving_again"},
         r.steps = q.steps + 1, r.late = q.late,
         r.stop = q.stop \/ (r.stop = "EVIDENCE_SUFFICIENT" /\ r.steps >= maxSteps)
  PROVE  OfChoice(r)
<1>1. q.steps \in Nat /\ q.steps < maxSteps /\ r.invoked = q.invoked \cup {<<q.tool, outcome>>}
  BY DEF InquiryRow, OfChoice, CalledRow
<1>2. /\ IsFiniteSet(q.invoked) /\ Cardinality(q.invoked) \in Nat
      /\ Cardinality(q.invoked) <= q.steps
  BY FS_CardinalityType DEF OfChoice
<1>3. /\ IsFiniteSet(r.invoked)
      /\ Cardinality(r.invoked) = Cardinality(q.invoked)
         \/ Cardinality(r.invoked) = Cardinality(q.invoked) + 1
  <2>1. CASE <<q.tool, outcome>> \in q.invoked
    <3>1. r.invoked = q.invoked
      BY <1>1, <2>1
    <3> QED BY <1>2, <3>1
  <2>2. CASE <<q.tool, outcome>> \notin q.invoked
    <3>1. PICK pair : pair = <<q.tool, outcome>>
      OBVIOUS
    <3> QED BY <1>1, <1>2, <2>2, <3>1, FS_AddElement
  <2> QED BY <2>1, <2>2
<1>4. /\ Cardinality(r.invoked) <= r.steps /\ Cardinality(r.invoked) <= maxSteps
      /\ r.steps <= maxSteps /\ r.steps <= maxSteps + 1
  BY <1>1, <1>2, <1>3
<1>5. r.late = {} \/ (~granted /\ \E t : r.late = {t})
  BY DEF OfChoice
<1>6. r.stop = "EVIDENCE_SUFFICIENT" => r.steps >= maxSteps \/ Core \subseteq r.visited
  BY <1>1 DEF OfChoice, CalledRow
<1> QED BY <1>3, <1>4, <1>5, <1>6 DEF OfChoice

LEMMA DynamicCallEndsKeeps ==
  ASSUME InvestigationInv, NEW x \in Execution, DynamicCallEnds(x)
  PROVE  InvestigationInv'
<1>1. PICK q : q = inquiry[x]
  OBVIOUS
<1>2. /\ q \in InquiryRow /\ InquiryFits(q) /\ checkpoint'.version \in Nat /\ q.at = "calling"
      /\ UNCHANGED <<scenarioVars, granted, checkpoint>> /\ Accounted(q)
      /\ policy = "dynamic" /\ OfChoice(q) /\ maxSteps \in Nat
  BY <1>1 DEF InvestigationInv, DynamicCallEnds, InquiryFits
<1>3. q.tool \in Tools
  BY <1>2 DEF Accounted
<1>4. ASSUME NEW signals \in {q.signals, TRUE},
             inquiry' = [inquiry EXCEPT ![x] =
               IF [Counted(Succeeded(x), TRUE) EXCEPT !.at = "saving", !.signals = signals].steps
                    >= maxSteps
               THEN Stopping([Counted(Succeeded(x), TRUE) EXCEPT !.at = "saving",
                                                               !.signals = signals],
                             "EVIDENCE_SUFFICIENT")
               ELSE [Counted(Succeeded(x), TRUE) EXCEPT !.at = "saving", !.signals = signals]]
      PROVE  InvestigationInv'
  <2>1. signals \in BOOLEAN
    BY <1>2, <1>4 DEF InquiryRow
  <2>2. PICK u : u = Succeeded(x)
    OBVIOUS
  <2>3. u = [at |-> q.at, tool |-> q.tool, checked |-> q.checked, steps |-> q.steps,
             visited |-> q.visited \cup {q.tool}, done |-> q.done, failed |-> q.failed,
             signals |-> q.signals, evidence |-> q.evidence \cup {q.tool},
             invoked |-> q.invoked \cup {<<q.tool, "SUCCEEDED">>}, version |-> q.version,
             stop |-> q.stop, late |-> q.late, confidence |-> q.confidence,
             named |-> q.named]
    BY <1>1, <1>2, <2>2, SuccessLeaves
  <2>4. u \in InquiryRow
    BY <1>2, <1>3, <2>3 DEF InquiryRow
  <2>5. PICK v : v = Counted(u, TRUE)
    OBVIOUS
  <2>6. v = [at |-> q.at, tool |-> q.tool, checked |-> q.checked, steps |-> q.steps + 1,
             visited |-> (q.visited \cup {q.tool}) \cup {q.tool},
             done |-> q.done \cup {q.tool}, failed |-> q.failed, signals |-> q.signals,
             evidence |-> q.evidence \cup {q.tool},
             invoked |-> q.invoked \cup {<<q.tool, "SUCCEEDED">>}, version |-> q.version + 1,
             stop |-> q.stop, late |-> q.late, confidence |-> q.confidence,
             named |-> q.named]
    BY <2>3, <2>4, <2>5, CountedLeaves
  <2>7. PICK w : w = [v EXCEPT !.at = "saving", !.signals = signals]
    OBVIOUS
  <2>8. w = [at |-> "saving", tool |-> q.tool, checked |-> q.checked, steps |-> q.steps + 1,
             visited |-> (q.visited \cup {q.tool}) \cup {q.tool},
             done |-> q.done \cup {q.tool}, failed |-> q.failed, signals |-> signals,
             evidence |-> q.evidence \cup {q.tool},
             invoked |-> q.invoked \cup {<<q.tool, "SUCCEEDED">>}, version |-> q.version + 1,
             stop |-> q.stop, late |-> q.late, confidence |-> q.confidence,
             named |-> q.named]
    BY <2>6, <2>7
  <2>9. w \in InquiryRow
    BY <1>2, <1>3, <2>8, <2>1 DEF InquiryRow, InquiryStages
  <2>10. PICK r : r = IF w.steps >= maxSteps THEN Stopping(w, "EVIDENCE_SUFFICIENT") ELSE w
    OBVIOUS
  <2>11. inquiry' = [inquiry EXCEPT ![x] = r]
    BY <1>4, <2>2, <2>5, <2>7, <2>10, Zenon
  <2>12. /\ r \in InquiryRow /\ CalledRow(q, r, "SUCCEEDED") /\ r.at = "saving"
         /\ r.steps = q.steps + 1 /\ r.late = q.late
         /\ r.stop = q.stop \/ (r.stop = "EVIDENCE_SUFFICIENT" /\ r.steps >= maxSteps)
    <3>1. CASE w.steps >= maxSteps
      <4>1. r = Stopping(w, "EVIDENCE_SUFFICIENT")
        BY <2>10, <3>1, Zenon
      <4>2. r = [at |-> "saving", tool |-> q.tool, checked |-> q.checked,
               steps |-> q.steps + 1, visited |-> (q.visited \cup {q.tool}) \cup {q.tool},
               done |-> q.done \cup {q.tool}, failed |-> q.failed, signals |-> signals,
               evidence |-> q.evidence \cup {q.tool},
               invoked |-> q.invoked \cup {<<q.tool, "SUCCEEDED">>},
               version |-> (q.version + 1) + 1, stop |-> "EVIDENCE_SUFFICIENT",
               late |-> q.late, confidence |-> q.confidence, named |-> q.named]
        BY <2>8, <2>9, <4>1, StoppingLeaves
      <4>3. r \in InquiryRow
        BY <1>2, <1>3, <2>1, <4>2 DEF InquiryRow, InquiryStages
      <4> QED BY <2>8, <3>1, <4>2, <4>3 DEF CalledRow
    <3>2. CASE ~(w.steps >= maxSteps)
      <4>1. r = w
        BY <2>10, <3>2, Zenon
      <4> QED BY <2>8, <2>9, <4>1 DEF CalledRow
    <3> QED BY <3>1, <3>2
  <2>13. Accounted(r)
    BY <1>2, <2>12, CallIsAccounted
  <2>14. OfChoice(r)
    BY <1>2, <2>12, ChoiceIsKept
  <2>15. InquiryFits(r)
    BY <1>2, <2>12, <2>13, <2>14 DEF InquiryFits
  <2> QED BY <1>2, <2>11, <2>15, InquiryMoves
<1>5. CASE inquiry' = [inquiry EXCEPT ![x] =
             [Counted(Failed(x), FALSE) EXCEPT !.at = "saving_again"]]
  <2>1. PICK u : u = Failed(x)
    OBVIOUS
  <2>2. u = [at |-> q.at, tool |-> q.tool, checked |-> q.checked, steps |-> q.steps,
             visited |-> q.visited \cup {q.tool}, done |-> q.done,
             failed |-> q.failed \cup {q.tool}, signals |-> q.signals,
             evidence |-> q.evidence, invoked |-> q.invoked \cup {<<q.tool, "FAILED">>},
             version |-> q.version, stop |-> q.stop, late |-> q.late,
             confidence |-> q.confidence, named |-> q.named]
    BY <1>1, <1>2, <2>1, FailureLeaves
  <2>3. u \in InquiryRow
    BY <1>2, <1>3, <2>2 DEF InquiryRow
  <2>4. PICK v : v = Counted(u, FALSE)
    OBVIOUS
  <2>5. v = [at |-> q.at, tool |-> q.tool, checked |-> q.checked, steps |-> q.steps + 1,
             visited |-> (q.visited \cup {q.tool}) \cup {q.tool}, done |-> q.done,
             failed |-> (q.failed \cup {q.tool}) \cup {q.tool}, signals |-> q.signals,
             evidence |-> q.evidence, invoked |-> q.invoked \cup {<<q.tool, "FAILED">>},
             version |-> q.version + 1, stop |-> q.stop, late |-> q.late,
             confidence |-> q.confidence, named |-> q.named]
    BY <2>2, <2>3, <2>4, CountedLeaves
  <2>6. PICK r : r = [v EXCEPT !.at = "saving_again"]
    OBVIOUS
  <2>7. r = [at |-> "saving_again", tool |-> q.tool, checked |-> q.checked,
             steps |-> q.steps + 1, visited |-> (q.visited \cup {q.tool}) \cup {q.tool},
             done |-> q.done, failed |-> (q.failed \cup {q.tool}) \cup {q.tool},
             signals |-> q.signals, evidence |-> q.evidence,
             invoked |-> q.invoked \cup {<<q.tool, "FAILED">>}, version |-> q.version + 1,
             stop |-> q.stop, late |-> q.late, confidence |-> q.confidence,
             named |-> q.named]
    BY <2>5, <2>6
  <2>8. inquiry' = [inquiry EXCEPT ![x] = r]
    BY <1>5, <2>1, <2>4, <2>6
  <2>9. r \in InquiryRow
    BY <1>2, <1>3, <2>7 DEF InquiryRow, InquiryStages
  <2>10. CalledRow(q, r, "FAILED")
    BY <2>7 DEF CalledRow
  <2>11. r.at = "saving_again" /\ r.steps = q.steps + 1 /\ r.late = q.late /\ r.stop = q.stop
    BY <2>7
  <2>12. Accounted(r)
    BY <1>2, <2>10, <2>11, CallIsAccounted
  <2>13. OfChoice(r)
    BY <1>2, <2>10, <2>11, ChoiceIsKept
  <2>14. InquiryFits(r)
    BY <1>2, <2>9, <2>12, <2>13 DEF InquiryFits
  <2> QED BY <1>2, <2>8, <2>14, InquiryMoves
<1> QED BY <1>1, <1>4, <1>5, Zenon DEF DynamicCallEnds

LEMMA SaveKeeps ==
  ASSUME InvestigationInv, NEW x \in Execution, SaveCheckpoint(x)
  PROVE  InvestigationInv' /\ checkpoint'.version >= checkpoint.version
<1>1. PICK q : q = inquiry[x]
  OBVIOUS
<1>2. /\ q \in InquiryRow /\ InquiryFits(q) /\ checkpoint.version \in Nat /\ q.version \in Nat
      /\ q.at \in {"saving", "saving_again", "saving_last"}
      /\ UNCHANGED <<scenarioVars, granted>> /\ Accounted(q)
      /\ policy \in {"fail_fast", "degrading", "dynamic"}
  BY <1>1 DEF InvestigationInv, SaveCheckpoint, InquiryFits, InquiryRow
<1>3. policy = "dynamic"
  BY <1>2 DEF InquiryFits, OfPlan
<1>4. ASSUME checkpoint' = IF NotOlder(x) THEN [version |-> inquiry[x].version, by |-> x]
                           ELSE checkpoint,
             Now(x, IF inquiry[x].at = "saving_last" THEN "collected" ELSE "continuing")
      PROVE  InvestigationInv' /\ checkpoint'.version >= checkpoint.version
  <2>1. checkpoint'.version \in Nat /\ checkpoint'.version >= checkpoint.version
    BY <1>1, <1>2, <1>4 DEF NotOlder
  <2>2. PICK s \in {"collected", "continuing"} : Now(x, s)
    BY <1>4
  <2>3. s \in InquiryStages
    BY DEF InquiryStages
  <2> QED BY <1>2, <1>3, <2>1, <2>2, <2>3, NowKeeps
<1>5. ASSUME inquiry' = [inquiry EXCEPT ![x] = IF inquiry[x].at = "saving"
                           THEN [Counted(@, FALSE) EXCEPT !.at = "saving_again"]
                           ELSE [@ EXCEPT !.at = "lost"]],
             checkpoint' = checkpoint
      PROVE  InvestigationInv' /\ checkpoint'.version >= checkpoint.version
  <2>1. checkpoint'.version \in Nat /\ checkpoint'.version >= checkpoint.version
    BY <1>2, <1>5
  <2>2. CASE q.at = "saving"
    <3>1. inquiry' = [inquiry EXCEPT ![x] =
                        [Counted(inquiry[x], FALSE) EXCEPT !.at = "saving_again"]]
      BY <1>1, <1>5, <2>2, Zenon
    <3>2. q.tool \in Tools
      BY <1>2, <2>2 DEF Accounted
    <3> QED BY <1>1, <1>2, <1>5, <2>1, <2>2, <3>1, <3>2, CountedKeeps
  <2>3. CASE q.at # "saving"
    <3>1. Now(x, "lost")
      BY <1>1, <1>5, <2>3 DEF Now
    <3>2. "lost" \in InquiryStages
      BY DEF InquiryStages, Ceased
    <3> QED BY <1>2, <2>1, <3>1, <3>2, NowKeeps
  <2> QED BY <2>2, <2>3
<1> QED BY <1>4, <1>5, Zenon DEF SaveCheckpoint

----------------------------------------------------------------------------
(* Reports.                                                                 *)

LEMMA CappedIsEarned ==
  ASSUME InvestigationInv, NEW x \in Execution, NEW confidence \in {3, 9},
         inquiry[x].evidence # {}
  PROVE  /\ Capped(x, confidence) \in Int
         /\ Capped(x, confidence) > 4 /\ policy = "dynamic" =>
              inquiry[x].stop = "EVIDENCE_SUFFICIENT"
         /\ Capped(x, confidence) > 4 /\ policy # "dynamic" => inquiry[x].failed = {}
<1>1. CASE policy = "dynamic"
  BY <1>1 DEF Capped, Lower
<1>2. CASE policy # "dynamic"
  <2>1. PICK q : q = inquiry[x]
    OBVIOUS
  <2>2. OfPlan(q)
    BY <1>2, <2>1 DEF InvestigationInv, InquiryFits
  <2>3. Cardinality(q.evidence) \in Nat
    <3>1. IsFiniteSet(q.visited) /\ q.evidence \subseteq q.visited
      BY <2>2 DEF OfPlan, FirstOfPlan
    <3> QED BY <3>1, FS_Subset, FS_CardinalityType
  <2>4. Len(Plan) \in Nat \ {0}
    <3>1. q.visited # {}
      BY <2>1, <2>2 DEF OfPlan
    <3>2. PICK n \in 0..Len(Plan) : q.visited = {Plan[m] : m \in 1..n}
      BY <2>2 DEF OfPlan, FirstOfPlan
    <3>3. Len(Plan) \in Nat
      BY PlanIsOfTools
    <3>4. n # 0
      BY <3>1, <3>2
    <3> QED BY <3>2, <3>3, <3>4
  <2>5. PICK coverage : coverage = (10 * Cardinality(q.evidence)) \div Len(Plan)
    OBVIOUS
  <2>6. coverage \in Int
    BY <2>3, <2>4, <2>5
  <2>7. Capped(x, confidence) =
          Lower(confidence, IF q.failed = {} THEN coverage ELSE Lower(coverage, 4))
    BY <1>2, <2>1, <2>5 DEF Capped
  <2> QED BY <1>2, <2>1, <2>6, <2>7 DEF Lower
<1> QED BY <1>1, <1>2

LEMMA ReportKeeps ==
  ASSUME InvestigationInv, NEW x \in Execution, Report(x)
  PROVE  InvestigationInv'
<1>1. PICK q : q = inquiry[x]
  OBVIOUS
<1>2. /\ q \in InquiryRow /\ InquiryFits(q) /\ checkpoint'.version \in Nat /\ q.at = "collected"
      /\ UNCHANGED <<scenarioVars, granted, checkpoint>> /\ Accounted(q)
  BY <1>1 DEF InvestigationInv, Report, InquiryFits
<1>3. CASE Now(x, "failed")
  BY <1>2, <1>3, OnlyStages
<1>4. CASE ~Now(x, "failed")
  <2>1. PICK confidence \in {3, 9} :
          inquiry' = [inquiry EXCEPT ![x].at = "reported",
                        ![x].confidence = Capped(x, confidence), ![x].named = inquiry[x].failed]
    BY <1>4 DEF Report
  <2>2. q.evidence # {}
    BY <1>1, <1>4 DEF Report
  <2>3. PICK capped : capped = Capped(x, confidence)
    OBVIOUS
  <2>4. /\ capped \in Int
        /\ capped > 4 /\ policy = "dynamic" => q.stop = "EVIDENCE_SUFFICIENT"
        /\ capped > 4 /\ policy # "dynamic" => q.failed = {}
    BY <1>1, <2>2, <2>3, CappedIsEarned
  <2>5. PICK r : r = [q EXCEPT !.at = "reported", !.confidence = capped, !.named = q.failed]
    OBVIOUS
  <2>6. q = [at |-> q.at, tool |-> q.tool, checked |-> q.checked, steps |-> q.steps,
             visited |-> q.visited, done |-> q.done, failed |-> q.failed,
             signals |-> q.signals, evidence |-> q.evidence, invoked |-> q.invoked,
             version |-> q.version, stop |-> q.stop, late |-> q.late,
             confidence |-> q.confidence, named |-> q.named]
    BY <1>2, AllOfRow
  <2>7. r = [at |-> "reported", tool |-> q.tool, checked |-> q.checked, steps |-> q.steps,
             visited |-> q.visited, done |-> q.done, failed |-> q.failed,
             signals |-> q.signals, evidence |-> q.evidence, invoked |-> q.invoked,
             version |-> q.version, stop |-> q.stop, late |-> q.late, confidence |-> capped,
             named |-> q.failed]
    BY <2>5, <2>6
  <2>8. inquiry' = [inquiry EXCEPT ![x] = r]
    BY <1>1, <2>1, <2>3, <2>5
  <2>9. r \in InquiryRow
    BY <1>2, <2>4, <2>7 DEF InquiryRow, InquiryStages, Ceased
  <2>10. Accounted(r)
    BY <1>2, <2>2, <2>7 DEF Accounted
  <2>11. ASSUME policy = "dynamic" PROVE OfChoice(r)
    BY <1>2, <2>4, <2>7, <2>11 DEF InquiryFits, OfChoice
  <2>12. ASSUME policy # "dynamic" PROVE OfPlan(r)
    BY <1>2, <2>4, <2>7, <2>12 DEF InquiryFits, OfPlan
  <2>13. InquiryFits(r)
    BY <2>9, <2>10, <2>11, <2>12 DEF InquiryFits
  <2> QED BY <1>2, <2>8, <2>13, InquiryMoves
<1> QED BY <1>3, <1>4

----------------------------------------------------------------------------
LEMMA RevokeGrantKeeps ==
  ASSUME InvestigationInv, RevokeGrant
  PROVE  InvestigationInv'
<1>1. UNCHANGED <<policy, surroundings, maxSteps, inquiry, checkpoint>> /\ granted' = FALSE
  BY DEF RevokeGrant, scenarioVars
<1>2. ASSUME NEW x \in Execution PROVE InquiryFits(inquiry[x])'
  BY <1>1 DEF InvestigationInv, InquiryFits, OfChoice
<1> QED BY <1>1, <1>2 DEF InvestigationInv

LEMMA InvestigationStep ==
  ASSUME InvestigationInv, InvestigationNext \/ UNCHANGED investigationVars
  PROVE  InvestigationInv' /\ checkpoint'.version >= checkpoint.version
<1>1. checkpoint.version \in Nat
  BY DEF InvestigationInv
<1>2. CASE UNCHANGED investigationVars
  <2>1. UNCHANGED <<policy, surroundings, maxSteps, granted, inquiry, checkpoint>>
    BY <1>2 DEF investigationVars
  <2>2. ASSUME NEW x \in Execution PROVE InquiryFits(inquiry[x])'
    BY <2>1 DEF InvestigationInv, InquiryFits, OfChoice
  <2> QED BY <1>1, <2>1, <2>2 DEF InvestigationInv
<1>3. CASE RevokeGrant
  <2>1. checkpoint' = checkpoint
    BY <1>3 DEF RevokeGrant
  <2> QED BY <1>1, <1>3, <2>1, RevokeGrantKeeps
<1>4. ASSUME NEW x \in Execution, SaveCheckpoint(x)
      PROVE  InvestigationInv' /\ checkpoint'.version >= checkpoint.version
  BY <1>4, SaveKeeps
<1>5. ASSUME NEW x \in Execution,
             \/ StartPlan(x) \/ PrepareStep(x) \/ CallOfPlan(x) \/ CallEnds(x)
             \/ LoadContext(x) \/ Choose(x) \/ CheckPermission(x) \/ BeginCall(x)
             \/ DynamicCallEnds(x) \/ Report(x) \/ CancelExecution(x)
      PROVE  InvestigationInv' /\ checkpoint'.version >= checkpoint.version
  <2>1. UNCHANGED <<scenarioVars, granted, checkpoint>>
    BY <1>5 DEF StartPlan, PrepareStep, CallOfPlan, CallEnds, LoadContext, Choose,
                CheckPermission, BeginCall, DynamicCallEnds, Report, CancelExecution
  <2>2. InvestigationInv'
    BY <1>5, <2>1, OnlyStages, PrepareKeeps, CallOfPlanKeeps, CallEndsKeeps, ChooseKeeps,
       CheckedKeeps, BeginCallKeeps, DynamicCallEndsKeeps, ReportKeeps
  <2> QED BY <1>1, <2>1, <2>2
<1> QED BY <1>2, <1>3, <1>4, <1>5 DEF InvestigationNext

LEMMA InvestigationIsSound ==
  ASSUME InvestigationInv
  PROVE  InvestigationsAreSound
<1>1. ASSUME NEW x \in Execution
      PROVE  LET q == inquiry[x] IN
             /\ q \in InquiryRow /\ Accounted(q)
             /\ policy = "dynamic" => OfChoice(q)
             /\ policy # "dynamic" => OfPlan(q)
  BY DEF InvestigationInv, InquiryFits
<1>2. EvidenceIsAccounted
  BY <1>1 DEF EvidenceIsAccounted, Accounted
<1>3. CallsWithinBudget
  BY <1>1 DEF CallsWithinBudget, OfChoice
<1>4. RevocationIsFelt
  <2>1. SUFFICES ASSUME NEW x \in Execution, policy = "dynamic"
                 PROVE  Cardinality(inquiry[x].late) <= 1
    BY DEF RevocationIsFelt
  <2>2. inquiry[x].late = {} \/ \E t : inquiry[x].late = {t}
    BY <1>1, <2>1 DEF OfChoice
  <2>3. CASE inquiry[x].late = {}
    <3>1. Cardinality(inquiry[x].late) = 0
      BY <2>3, FS_EmptySet
    <3> QED BY <3>1
  <2>4. ASSUME NEW t, inquiry[x].late = {t} PROVE Cardinality(inquiry[x].late) <= 1
    <3>1. Cardinality(inquiry[x].late) = 1
      BY <2>4, FS_Singleton
    <3> QED BY <3>1
  <2> QED BY <2>2, <2>3, <2>4
<1>5. PlansAreAllowedWhole
  BY <1>1 DEF PlansAreAllowedWhole, OfPlan
<1>6. ConfidenceIsEarned
  BY <1>1 DEF ConfidenceIsEarned, OfPlan, OfChoice, Core
<1> QED BY <1>2, <1>3, <1>4, <1>5, <1>6 DEF InvestigationsAreSound

\* Whatever becomes of its calls, permissions, checkpoints and successors: an
\* investigation accounts for its evidence, keeps its budget, feels a revocation
\* at its next choice, and is sure only of what it finished; and the checkpoint
\* of the incident never falls back.
THEOREM InvestigationsAlwaysSound ==
  ASSUME NEW S, InquestAsks(S)
  PROVE  InvestigationStart(S) /\ [][InvestigationNext]_investigationVars =>
           []InvestigationsAreSound /\ CheckpointsAdvance
<1>1. InvestigationStart(S) => InvestigationInv
  BY InvestigationBegins
<1>2. InvestigationInv /\ [InvestigationNext]_investigationVars => InvestigationInv'
  BY InvestigationStep
<1>3. InvestigationInv /\ [InvestigationNext]_investigationVars =>
        [checkpoint'.version >= checkpoint.version]_investigationVars
  BY InvestigationStep
<1>4. InvestigationInv => InvestigationsAreSound
  BY InvestigationIsSound
<1> QED BY <1>1, <1>2, <1>3, <1>4, PTL DEF CheckpointsAdvance

----------------------------------------------------------------------------
(* Reports by a language model, for any number of requests and providers.  A *)
(* permit is as old as the breaker it was given by, or is out of date       *)
(* (PermitFits), so a probe has its place alone and an answer from before the *)
(* breaker opened does not close it.                                        *)

PermitRow == [generation : Int, half_open : BOOLEAN]
AskerRow == [at : {"idle", "asking", "done"}, provider : 0..Providers, since : 0..LastTick,
             permit : PermitRow]
BreakerRow == [generation : Nat, failures : 0..(FailureThreshold - 1),
               open_until : Int, half_open : BOOLEAN]

GenerationTyped ==
  /\ breaker \in BreakerRow
  /\ breaker.open_until \in Closed0..(LastTick + RecoveryTimeout)
  /\ asking \in [Asker -> AskerRow]
  /\ tick \in 0..LastTick
  /\ DOMAIN produced = Asker

\* A permit is not younger than the breaker's state; one that is as old is a probe's
\* if and only if the breaker is open.
PermitFits(c) ==
  asking[c].at = "asking" =>
    /\ asking[c].permit.generation <= breaker.generation
    /\ Current(c) => (asking[c].permit.half_open <=> ~ClosedNow)

\* What a model's report says is a candidate's.
Supported(r) ==
  r.by = "model" =>
    /\ r.status # "CONFIRMED"
    /\ r.status \in {"CANDIDATE", "NO_ACTIONABLE_ROOT_CAUSE"} =>
         \E k \in DOMAIN candidates :
           /\ candidates[k].id = r.candidate
           /\ candidates[k].score >= 5
           /\ r.confidence > 7 => candidates[k].score >= 8 /\ candidates[k].clean
           /\ r.status = "NO_ACTIONABLE_ROOT_CAUSE" => candidates[k].kind = "no_action"
Producible(r) == r.by \in {"none", "rules", "model"} /\ Supported(r)

GenerationInv ==
  /\ GenerationTyped /\ ProbeIsHeld
  /\ \A c \in Asker : PermitFits(c)
  /\ \A c \in Asker : Producible(produced[c])

GenerationStart(R) == GenerationInit /\ candidates \in R

LEMMA GenerationNumbers ==
  /\ Providers \in Nat /\ FailureThreshold \in Nat /\ RecoveryTimeout \in Nat
  /\ ModelTimeout \in Nat /\ Providers > 0 /\ FailureThreshold > 0 /\ RecoveryTimeout > 0
  /\ ModelTimeout > 0 /\ LastTick \in Nat /\ Closed0 = -1
BY GenerationAssumption DEF Closed0

----------------------------------------------------------------------------
\* A candidate that is chosen by its id is one of them.
LEMMA ChosenIsThere ==
  ASSUME NEW id \in Ids
  PROVE  \E k \in DOMAIN candidates : candidates[k] = CandidateOf(id) /\ candidates[k].id = id
<1>1. \E c \in {candidates[i] : i \in DOMAIN candidates} : c.id = id
  BY DEF Ids
<1>2. CandidateOf(id) \in {candidates[i] : i \in DOMAIN candidates} /\ CandidateOf(id).id = id
  BY <1>1 DEF CandidateOf
<1> QED BY <1>2

\* What an answer is worth is supported by the candidates.
LEMMA WorthIsSupported ==
  ASSUME NEW S, candidates \in Seq(S), NEW r \in Worth
  PROVE  Producible(r)
<1>0. Producible(Deterministic)
  BY DEF Producible, Supported, Deterministic
<1>1. PICK a \in ModelAnswers : r = IF Acceptable(a) THEN ReportOf(a) ELSE Deterministic
  BY DEF Worth
<1>2. CASE Acceptable(a)
  <2>1. /\ r.status = a.status /\ r.candidate = Selected(a) /\ r.confidence = Cap(Selected(a))
        /\ r.by = "model"
    BY <1>1, <1>2 DEF ReportOf
  <2>2. a.status # "CONFIRMED"
    BY <1>2 DEF Acceptable
  <2>3. ASSUME a.status # "UNDETERMINED"
        PROVE  \E k \in DOMAIN candidates :
                 /\ candidates[k].id = r.candidate
                 /\ candidates[k].score >= 5
                 /\ r.confidence > 7 => candidates[k].score >= 8 /\ candidates[k].clean
                 /\ r.status = "NO_ACTIONABLE_ROOT_CAUSE" => candidates[k].kind = "no_action"
    <3>1. /\ Selected(a) # "none" /\ CandidateOf(Selected(a)).score >= 5
          /\ a.status = "NO_ACTIONABLE_ROOT_CAUSE" => CandidateOf(Selected(a)).kind = "no_action"
      BY <1>2, <2>3 DEF Acceptable
    <3>2. Selected(a) \in Ids
      <4>1. CASE candidates = <<>>
        <5>1. Ids = {}
          BY <4>1 DEF Ids
        <5>2. Cardinality(Ids) = 0
          BY <5>1, FS_EmptySet
        <5> QED BY <3>1, <2>3, <4>1, <5>1, <5>2 DEF Selected
      <4>2. CASE candidates # <<>>
        <5>1. 1 \in DOMAIN candidates
          BY <4>2
        <5>2. candidates[1].id \in Ids
          BY <5>1 DEF Ids
        <5> QED BY <3>1, <2>3, <5>2 DEF Selected
      <4> QED BY <4>1, <4>2
    <3>3. PICK k \in DOMAIN candidates : /\ candidates[k] = CandidateOf(Selected(a))
                                         /\ candidates[k].id = Selected(a)
      BY <3>2, ChosenIsThere
    <3>4. r.confidence > 7 => candidates[k].score >= 8 /\ candidates[k].clean
      BY <2>1, <3>1, <3>3 DEF Cap
    <3> QED BY <2>1, <3>1, <3>3, <3>4
  <2> QED BY <2>1, <2>2, <2>3 DEF Producible, Supported
<1>3. CASE ~Acceptable(a)
  BY <1>0, <1>1, <1>3
<1> QED BY <1>2, <1>3
----------------------------------------------------------------------------
LEMMA GenerationBegins ==
  ASSUME NEW R, GenerationStart(R)
  PROVE  GenerationInv
<1>1. /\ GenerationInit /\ tick = 0
      /\ breaker = [generation |-> 0, failures |-> 0, open_until |-> Closed0,
                    half_open |-> FALSE]
      /\ asking = [c \in Asker |-> [at |-> "idle", provider |-> 0, since |-> 0,
                                    permit |-> NoPermit]]
      /\ produced = [c \in Asker |-> NoReport]
  BY DEF GenerationStart, GenerationInit
<1>2. NoPermit \in PermitRow
  BY DEF NoPermit, PermitRow
<1>3. GenerationTyped
  <2>1. [at |-> "idle", provider |-> 0, since |-> 0, permit |-> NoPermit] \in AskerRow
    BY <1>2, GenerationNumbers DEF AskerRow
  <2>2. asking \in [Asker -> AskerRow]
    BY <1>1, <2>1
  <2>3. breaker \in BreakerRow /\ breaker.open_until \in Closed0..(LastTick + RecoveryTimeout)
    BY <1>1, GenerationNumbers DEF BreakerRow
  <2>4. tick \in 0..LastTick /\ DOMAIN produced = Asker
    BY <1>1, GenerationNumbers
  <2> QED BY <2>2, <2>3, <2>4 DEF GenerationTyped
<1>4. \A c \in Asker : asking[c].at = "idle"
  BY <1>1
<1>5. ProbeIsHeld /\ \A c \in Asker : PermitFits(c)
  BY <1>1, <1>4 DEF ProbeIsHeld, Probing, PermitFits
<1>6. Producible(NoReport)
  BY DEF Producible, Supported, NoReport
<1> QED BY <1>1, <1>3, <1>5, <1>6 DEF GenerationInv

----------------------------------------------------------------------------
(* The breaker when a request ends.                                        *)

\* The breaker as a request leaves it that was asking: as it was, in a new
\* generation, without the probe that the request was, or with another count.
LeftAs(c) ==
  \/ breaker' = breaker /\ ~Probing(c)
  \/ /\ Current(c) /\ breaker'.generation = breaker.generation + 1 /\ ~breaker'.half_open
     /\ breaker'.open_until \in Closed0..(LastTick + RecoveryTimeout)
     /\ asking[c].permit.half_open \/ ClosedNow
  \/ /\ Probing(c) /\ breaker'.generation = breaker.generation /\ ~breaker'.half_open
     /\ breaker'.open_until = breaker.open_until
  \/ /\ ~asking[c].permit.half_open /\ breaker'.generation = breaker.generation
     /\ breaker'.half_open = breaker.half_open /\ breaker'.open_until = breaker.open_until

\* Every way a request ends leaves the breaker in one of these.
LEMMA BreakerIsLeft ==
  ASSUME GenerationInv, NEW c \in Asker, asking[c].at = "asking",
         Succeed(c) \/ Fail(c) \/ ReleaseProbe(c)
  PROVE  LeftAs(c) /\ breaker' \in BreakerRow
<1>1. /\ breaker \in BreakerRow /\ asking \in [Asker -> AskerRow] /\ tick \in 0..LastTick
      /\ breaker.open_until \in Closed0..(LastTick + RecoveryTimeout)
  BY DEF GenerationInv, GenerationTyped
<1>2. /\ breaker.generation \in Nat /\ breaker.failures \in 0..(FailureThreshold - 1)
      /\ breaker.open_until \in Int /\ breaker.half_open \in BOOLEAN
  BY <1>1 DEF BreakerRow
<1>3. asking[c].permit \in PermitRow
  BY <1>1 DEF AskerRow
<1>4. asking[c].permit.half_open \in BOOLEAN
  BY <1>3 DEF PermitRow
<1>5. Current(c) => (asking[c].permit.half_open <=> ~ClosedNow)
  BY DEF GenerationInv, PermitFits
<1>6. CASE ~Current(c)
  <2>1. breaker' = breaker
    BY <1>6 DEF Succeed, Fail, ReleaseProbe
  <2> QED BY <1>1, <1>6, <2>1 DEF LeftAs, Probing
<1>7. CASE Current(c) /\ Succeed(c)
  <2>1. CASE asking[c].permit.half_open
    <3>1. breaker' = [generation |-> breaker.generation + 1, failures |-> 0,
                      open_until |-> Closed0, half_open |-> FALSE]
      BY <1>7, <2>1 DEF Succeed
    <3> QED BY <1>2, <1>7, <2>1, <3>1, GenerationNumbers DEF LeftAs, BreakerRow
  <2>2. CASE ~asking[c].permit.half_open
    <3>1. breaker' = [breaker EXCEPT !.failures = 0]
      BY <1>7, <2>2 DEF Succeed
    <3>2. breaker' = [generation |-> breaker.generation, failures |-> 0,
                      open_until |-> breaker.open_until, half_open |-> breaker.half_open]
      BY <1>1, <3>1 DEF BreakerRow
    <3> QED BY <1>2, <2>2, <3>2, GenerationNumbers DEF LeftAs, BreakerRow
  <2> QED BY <2>1, <2>2
<1>8. CASE Current(c) /\ Fail(c)
  <2>1. CASE asking[c].permit.half_open \/ breaker.failures + 1 >= FailureThreshold
    <3>1. breaker' = [generation |-> breaker.generation + 1, failures |-> 0,
                      open_until |-> tick + RecoveryTimeout, half_open |-> FALSE]
      BY <1>8, <2>1 DEF Fail
    <3>2. tick + RecoveryTimeout \in Closed0..(LastTick + RecoveryTimeout)
      BY <1>1, GenerationNumbers
    <3>3. asking[c].permit.half_open \/ ClosedNow
      BY <1>5, <1>8
    <3>4. LeftAs(c)
      BY <1>8, <3>1, <3>2, <3>3 DEF LeftAs
    <3>5. tick + RecoveryTimeout \in Int
      BY <3>2, GenerationNumbers
    <3>6. breaker' \in BreakerRow
      BY <1>2, <3>1, <3>5, GenerationNumbers DEF BreakerRow
    <3> QED BY <3>4, <3>6
  <2>2. CASE ~(asking[c].permit.half_open \/ breaker.failures + 1 >= FailureThreshold)
    <3>1. breaker' = [breaker EXCEPT !.failures = @ + 1]
      BY <1>8, <2>2 DEF Fail
    <3>2. breaker' = [generation |-> breaker.generation, failures |-> breaker.failures + 1,
                      open_until |-> breaker.open_until, half_open |-> breaker.half_open]
      BY <1>1, <3>1 DEF BreakerRow
    <3> QED BY <1>2, <2>2, <3>2, GenerationNumbers DEF LeftAs, BreakerRow
  <2> QED BY <2>1, <2>2
<1>9. CASE Current(c) /\ ReleaseProbe(c)
  <2>1. CASE asking[c].permit.half_open
    <3>1. breaker' = [breaker EXCEPT !.half_open = FALSE]
      BY <1>9, <2>1 DEF ReleaseProbe
    <3>2. breaker' = [generation |-> breaker.generation, failures |-> breaker.failures,
                      open_until |-> breaker.open_until, half_open |-> FALSE]
      BY <1>1, <3>1 DEF BreakerRow
    <3>3. Probing(c)
      BY <1>9, <2>1 DEF Probing
    <3> QED BY <1>2, <3>2, <3>3 DEF LeftAs, BreakerRow
  <2>2. CASE ~asking[c].permit.half_open
    BY <1>1, <1>9, <2>2 DEF ReleaseProbe, LeftAs, Probing
  <2> QED BY <2>1, <2>2
<1> QED BY <1>6, <1>7, <1>8, <1>9

\* A request that was asking and is not any more: the place of the probe, and
\* the permits of the others, are as they should be.
LEMMA RequestLeaves ==
  ASSUME GenerationInv, NEW c \in Asker, asking[c].at = "asking", asking'[c].at = "done",
         \A d \in Asker : d # c => asking'[d] = asking[d],
         LeftAs(c), breaker' \in BreakerRow
  PROVE  /\ ProbeIsHeld' /\ \A d \in Asker : PermitFits(d)'
         /\ breaker'.open_until \in Closed0..(LastTick + RecoveryTimeout)
         /\ ~ClosedNow /\ breaker'.open_until # breaker.open_until => Probing(c)
<1>1. /\ breaker \in BreakerRow /\ asking \in [Asker -> AskerRow]
      /\ breaker.open_until \in Closed0..(LastTick + RecoveryTimeout)
  BY DEF GenerationInv, GenerationTyped
<1>2. \A d \in Asker : /\ asking[d].permit.generation \in Int
                       /\ asking[d].permit.half_open \in BOOLEAN
  <2>1. \A d \in Asker : asking[d].permit \in PermitRow
    BY <1>1 DEF AskerRow
  <2> QED BY <2>1 DEF PermitRow
<1>3. /\ breaker.generation \in Nat /\ breaker'.generation \in Nat
      /\ breaker.half_open \in BOOLEAN /\ breaker'.half_open \in BOOLEAN
  BY <1>1 DEF BreakerRow
<1>4. /\ \A d \in Asker : asking[d].at = "asking" =>
           /\ asking[d].permit.generation <= breaker.generation
           /\ asking[d].permit.generation = breaker.generation =>
                (asking[d].permit.half_open <=> ~ClosedNow)
      /\ breaker.half_open <=> \E d \in Asker : Probing(d)
      /\ \A d, e \in Asker : Probing(d) /\ Probing(e) => d = e
      /\ breaker.half_open => ~ClosedNow
  BY DEF GenerationInv, PermitFits, Current, ProbeIsHeld
<1>5. ~Probing(c)'
  BY DEF Probing
<1>6. CASE breaker' = breaker /\ ~Probing(c)
  <2>1. \A d \in Asker : Probing(d)' <=> Probing(d)
    BY <1>5, <1>6 DEF Probing, Current
  <2> QED BY <1>1, <1>4, <1>6, <2>1 DEF ProbeIsHeld, PermitFits, Current, ClosedNow
<1>7. CASE /\ Current(c) /\ breaker'.generation = breaker.generation + 1 /\ ~breaker'.half_open
           /\ breaker'.open_until \in Closed0..(LastTick + RecoveryTimeout)
           /\ asking[c].permit.half_open \/ ClosedNow
  <2>1. \A d \in Asker : asking'[d].at = "asking" =>
          asking'[d].permit.generation < breaker'.generation
    <3>1. SUFFICES ASSUME NEW d \in Asker, asking'[d].at = "asking"
                   PROVE  asking'[d].permit.generation < breaker'.generation
      OBVIOUS
    <3>2. d # c /\ asking'[d] = asking[d]
      BY <3>1
    <3>3. asking[d].permit.generation <= breaker.generation
      BY <1>4, <3>1, <3>2
    <3> QED BY <1>2, <1>3, <1>7, <3>2, <3>3
  <2>2. \A d \in Asker : asking'[d].at = "asking" =>
          /\ asking'[d].permit.generation \in Int
          /\ asking'[d].permit.generation <= breaker'.generation
          /\ asking'[d].permit.generation # breaker'.generation
    <3>1. SUFFICES ASSUME NEW d \in Asker, asking'[d].at = "asking"
                   PROVE  /\ asking'[d].permit.generation \in Int
                          /\ asking'[d].permit.generation <= breaker'.generation
                          /\ asking'[d].permit.generation # breaker'.generation
      OBVIOUS
    <3>2. asking'[d] = asking[d] /\ asking'[d].permit.generation \in Int
      BY <1>2, <3>1
    <3> QED BY <1>3, <2>1, <3>1, <3>2
  <2>3. \A d \in Asker : ~Probing(d)'
    BY <2>2 DEF Probing, Current
  <2>4. ProbeIsHeld' /\ \A d \in Asker : PermitFits(d)'
    BY <1>7, <2>2, <2>3 DEF ProbeIsHeld, PermitFits, Current
  <2> QED BY <1>7, <2>4 DEF Probing
<1>8. CASE /\ Probing(c) /\ breaker'.generation = breaker.generation /\ ~breaker'.half_open
           /\ breaker'.open_until = breaker.open_until
  <2>1. \A d \in Asker : ~Probing(d)'
    BY <1>4, <1>5, <1>8 DEF Probing, Current
  <2> QED BY <1>1, <1>4, <1>8, <2>1 DEF ProbeIsHeld, PermitFits, Current, ClosedNow
<1>9. CASE /\ ~asking[c].permit.half_open /\ breaker'.generation = breaker.generation
           /\ breaker'.half_open = breaker.half_open /\ breaker'.open_until = breaker.open_until
  <2>1. \A d \in Asker : Probing(d)' <=> Probing(d)
    BY <1>5, <1>9 DEF Probing, Current
  <2> QED BY <1>1, <1>4, <1>9, <2>1 DEF ProbeIsHeld, PermitFits, Current, ClosedNow
<1> QED BY <1>6, <1>7, <1>8, <1>9 DEF LeftAs

----------------------------------------------------------------------------
(* The operations.  Each keeps the invariant, and an open breaker's time.   *)

KeepsTime ==
  /\ \A c \in Asker :
       asking'[c].at = "asking" /\ asking[c].at = "idle" =>
         ClosedNow \/ breaker.open_until <= tick
  /\ ~ClosedNow /\ breaker'.open_until # breaker.open_until =>
       \E c \in Asker : Probing(c) /\ asking'[c].at = "done"

\* A request ends that was asking.
LEMMA RequestEnds ==
  ASSUME GenerationInv, NEW c \in Asker, asking[c].at = "asking", asking' = Settled(c),
         Succeed(c) \/ Fail(c) \/ ReleaseProbe(c),
         \A d \in Asker : Producible(produced[d])', DOMAIN produced' = Asker,
         UNCHANGED <<candidates, tick>>
  PROVE  GenerationInv' /\ KeepsTime
<1>1. /\ breaker \in BreakerRow /\ asking \in [Asker -> AskerRow] /\ tick \in 0..LastTick
  BY DEF GenerationInv, GenerationTyped
<1>2. asking' = [asking EXCEPT ![c].at = "done"]
  BY DEF Settled
<1>3. PICK entry : entry = [asking[c] EXCEPT !.at = "done"]
  OBVIOUS
<1>4. entry = [at |-> "done", provider |-> asking[c].provider, since |-> asking[c].since,
             permit |-> asking[c].permit]
  BY <1>1, <1>3 DEF AskerRow
<1>5. entry \in AskerRow
  BY <1>1, <1>4 DEF AskerRow
<1>6. asking' = [asking EXCEPT ![c] = entry]
  BY <1>2, <1>3
<1>7. /\ asking' \in [Asker -> AskerRow] /\ asking'[c].at = "done"
      /\ \A d \in Asker : d # c => asking'[d] = asking[d]
  BY <1>1, <1>4, <1>5, <1>6
<1>8. LeftAs(c) /\ breaker' \in BreakerRow
  BY BreakerIsLeft
<1>9. /\ ProbeIsHeld' /\ \A d \in Asker : PermitFits(d)'
      /\ breaker'.open_until \in Closed0..(LastTick + RecoveryTimeout)
      /\ ~ClosedNow /\ breaker'.open_until # breaker.open_until => Probing(c)
  BY <1>7, <1>8, RequestLeaves
<1>10. GenerationTyped'
  BY <1>1, <1>7, <1>8, <1>9 DEF GenerationTyped
<1>11. KeepsTime
  <2>1. \A d \in Asker : asking'[d].at = "asking" => asking[d].at # "idle"
    BY <1>7
  <2> QED BY <1>7, <1>9, <2>1 DEF KeepsTime
<1> QED BY <1>9, <1>10, <1>11 DEF GenerationInv

\* The other requests' reports are still supported.
LEMMA ReportGiven ==
  ASSUME GenerationInv, NEW c \in Asker, NEW report, Producible(report),
         Give(c, report), candidates' = candidates
  PROVE  (\A d \in Asker : Producible(produced[d])') /\ DOMAIN produced' = Asker
<1>1. DOMAIN produced = Asker /\ \A d \in Asker : Producible(produced[d])
  BY DEF GenerationInv, GenerationTyped
<1>2. /\ DOMAIN produced' = Asker
      /\ \A d \in Asker : produced'[d] = IF d = c THEN report ELSE produced[d]
  BY <1>1 DEF Give
<1>3. \A d \in Asker : Producible(produced'[d])
  BY <1>1, <1>2
<1>4. ASSUME NEW d \in Asker
      PROVE  Producible(produced[d])'
  <2>1. Producible(produced'[d])
    BY <1>3
  <2> QED BY <2>1 DEF Producible, Supported
<1> QED BY <1>2, <1>4

LEMMA RulesAreProducible == Producible(Deterministic) /\ Producible(NoReport)
BY DEF Producible, Supported, Deterministic, NoReport

LEMMA AskModelKeepsAll ==
  ASSUME GenerationInv, NEW c \in Asker, AskModel(c)
  PROVE  GenerationInv' /\ KeepsTime
<1>1. /\ breaker \in BreakerRow /\ asking \in [Asker -> AskerRow] /\ tick \in 0..LastTick
      /\ breaker.open_until \in Closed0..(LastTick + RecoveryTimeout)
      /\ DOMAIN produced = Asker /\ \A d \in Asker : Producible(produced[d])
  BY DEF GenerationInv, GenerationTyped
<1>2. /\ breaker.generation \in Nat /\ breaker.failures \in 0..(FailureThreshold - 1)
      /\ breaker.open_until \in Int /\ breaker.half_open \in BOOLEAN
  BY <1>1 DEF BreakerRow
<1>3. /\ \A d \in Asker : asking[d].at = "asking" =>
           /\ asking[d].permit.generation <= breaker.generation
           /\ asking[d].permit.generation = breaker.generation =>
                (asking[d].permit.half_open <=> ~ClosedNow)
      /\ breaker.half_open <=> \E d \in Asker : Probing(d)
      /\ \A d, e \in Asker : Probing(d) /\ Probing(e) => d = e
      /\ breaker.half_open => ~ClosedNow
  BY DEF GenerationInv, PermitFits, Current, ProbeIsHeld
<1>4. asking[c].at = "idle" /\ candidates' = candidates /\ tick' = tick
  BY DEF AskModel
<1>5. CASE ClosedNow \/ (breaker.open_until <= tick /\ ~breaker.half_open)
  <2> DEFINE permit == [generation |-> breaker.generation, half_open |-> ~ClosedNow]
             entry == [at |-> "asking", provider |-> 1, since |-> tick, permit |-> permit]
  <2>1. /\ asking' = [asking EXCEPT ![c] = entry]
        /\ breaker' = [breaker EXCEPT !.half_open = @ \/ ~ClosedNow]
        /\ produced' = produced
    BY <1>5 DEF AskModel
  <2>2. breaker' = [generation |-> breaker.generation, failures |-> breaker.failures,
                    open_until |-> breaker.open_until,
                    half_open |-> breaker.half_open \/ ~ClosedNow]
    BY <1>1, <2>1 DEF BreakerRow
  <2>3. /\ breaker'.generation = breaker.generation /\ breaker'.failures = breaker.failures
        /\ breaker'.open_until = breaker.open_until
        /\ breaker'.half_open = (breaker.half_open \/ ~ClosedNow)
    BY <2>2
  <2>4. breaker' \in BreakerRow
    BY <1>2, <2>2 DEF BreakerRow
  <2>5. permit \in PermitRow
    <3>1. breaker.generation \in Int /\ (~ClosedNow) \in BOOLEAN
      BY <1>2
    <3> QED BY <3>1 DEF PermitRow
  <2>6. entry \in AskerRow
    <3>1. 1 \in 0..Providers
      BY GenerationNumbers
    <3> HIDE DEF permit
    <3> QED BY <1>1, <2>5, <3>1 DEF AskerRow
  <2>7. /\ asking' \in [Asker -> AskerRow] /\ asking'[c] = entry
        /\ \A d \in Asker : d # c => asking'[d] = asking[d]
    <3> HIDE DEF entry
    <3> QED BY <1>1, <2>1, <2>6
  <2>8. /\ asking'[c].at = "asking" /\ asking'[c].permit.generation = breaker.generation
        /\ asking'[c].permit.half_open = ~ClosedNow
    BY <2>7
  <2>9. GenerationTyped'
    BY <1>1, <1>4, <2>1, <2>3, <2>4, <2>7 DEF GenerationTyped
  <2>10. ClosedNow' <=> ClosedNow
    BY <2>3 DEF ClosedNow
  <2>11. /\ \A d \in Asker : d # c => (Probing(d)' <=> Probing(d))
         /\ Probing(c)' <=> ~ClosedNow
    BY <2>3, <2>7, <2>8 DEF Probing, Current
  <2>12. ~Probing(c)
    BY <1>4 DEF Probing
  <2>13. ProbeIsHeld'
    <3>1. CASE ClosedNow
      <4>1. ~breaker.half_open
        BY <1>3, <3>1
      <4>2. \A d \in Asker : ~Probing(d)'
        BY <1>3, <2>11, <3>1, <4>1
      <4>3. ~breaker'.half_open
        BY <2>3, <3>1, <4>1
      <4> QED BY <4>2, <4>3 DEF ProbeIsHeld
    <3>2. CASE ~ClosedNow
      <4>1. ~breaker.half_open
        BY <1>5, <3>2
      <4>2. \A d \in Asker : Probing(d)' <=> d = c
        BY <1>3, <2>11, <3>2, <4>1
      <4>3. breaker'.half_open
        BY <2>3, <3>2
      <4> QED BY <2>10, <3>2, <4>2, <4>3 DEF ProbeIsHeld
    <3> QED BY <3>1, <3>2
  <2>14. \A d \in Asker : PermitFits(d)'
    <3>1. ASSUME NEW d \in Asker, d # c
          PROVE  PermitFits(d)'
      BY <1>3, <2>3, <2>7, <2>10, <3>1 DEF PermitFits, Current
    <3>2. PermitFits(c)'
      <4>1. asking'[c].permit.generation <= breaker'.generation
        BY <1>2, <2>3, <2>8
      <4>2. asking'[c].permit.half_open <=> ~ClosedNow'
        BY <2>8, <2>10, Zenon
      <4> QED BY <4>1, <4>2 DEF PermitFits, Current
    <3> QED BY <3>1, <3>2
  <2>15. \A d \in Asker : Producible(produced[d])'
    BY <1>1, <1>4, <2>1 DEF Producible, Supported
  <2>16. KeepsTime
    <3>1. \A d \in Asker : asking'[d].at = "asking" /\ asking[d].at = "idle" =>
            ClosedNow \/ breaker.open_until <= tick
      BY <1>5
    <3> QED BY <2>3, <3>1 DEF KeepsTime
  <2> HIDE DEF permit, entry
  <2> QED BY <2>9, <2>13, <2>14, <2>15, <2>16 DEF GenerationInv
<1>6. CASE ~(ClosedNow \/ (breaker.open_until <= tick /\ ~breaker.half_open))
  <2>1. asking' = [asking EXCEPT ![c].at = "done"] /\ Give(c, Deterministic)
        /\ breaker' = breaker
    BY <1>6 DEF AskModel, Settled
  <2>2. (\A d \in Asker : Producible(produced[d])') /\ DOMAIN produced' = Asker
    BY <1>4, <2>1, ReportGiven, RulesAreProducible
  <2>3. PICK entry : entry = [asking[c] EXCEPT !.at = "done"]
    OBVIOUS
  <2>4. entry = [at |-> "done", provider |-> asking[c].provider, since |-> asking[c].since,
               permit |-> asking[c].permit]
    BY <1>1, <2>3 DEF AskerRow
  <2>5. entry \in AskerRow
    BY <1>1, <2>4 DEF AskerRow
  <2>6. asking' = [asking EXCEPT ![c] = entry]
    BY <2>1, <2>3
  <2>7. /\ asking' \in [Asker -> AskerRow] /\ asking'[c].at = "done"
        /\ \A d \in Asker : d # c => asking'[d] = asking[d]
    BY <1>1, <2>4, <2>5, <2>6
  <2>8. GenerationTyped'
    BY <1>1, <1>4, <2>1, <2>2, <2>7 DEF GenerationTyped
  <2>9. \A d \in Asker : Probing(d)' <=> Probing(d)
    BY <1>4, <2>1, <2>7 DEF Probing, Current
  <2>10. ProbeIsHeld'
    BY <1>3, <2>1, <2>9 DEF ProbeIsHeld, ClosedNow
  <2>11. \A d \in Asker : PermitFits(d)'
    BY <1>3, <2>1, <2>7 DEF PermitFits, Current, ClosedNow
  <2>12. KeepsTime
    BY <1>4, <2>1, <2>7 DEF KeepsTime
  <2> QED BY <2>2, <2>8, <2>10, <2>11, <2>12 DEF GenerationInv
<1> QED BY <1>5, <1>6

LEMMA ProviderAnswersKeepsAll ==
  ASSUME GenerationInv, NEW S, candidates \in Seq(S), NEW c \in Asker, ProviderAnswers(c)
  PROVE  GenerationInv' /\ KeepsTime
<1>1. PICK report \in Worth :
        Give(c, report) /\ IF report.by = "model" THEN Succeed(c) ELSE Fail(c)
  BY DEF ProviderAnswers
<1>2. Producible(report)
  BY WorthIsSupported
<1>3. asking[c].at = "asking" /\ asking' = Settled(c) /\ UNCHANGED <<candidates, tick>>
  BY DEF ProviderAnswers
<1>4. (\A d \in Asker : Producible(produced[d])') /\ DOMAIN produced' = Asker
  BY <1>1, <1>2, <1>3, ReportGiven
<1>5. Succeed(c) \/ Fail(c) \/ ReleaseProbe(c)
  BY <1>1
<1> QED BY <1>3, <1>4, <1>5, RequestEnds

LEMMA ProviderFailsKeepsAll ==
  ASSUME GenerationInv, NEW c \in Asker, ProviderFails(c)
  PROVE  GenerationInv' /\ KeepsTime
<1>1. asking[c].at = "asking" /\ UNCHANGED <<candidates, tick>>
  BY DEF ProviderFails
<1>2. CASE asking[c].provider < Providers
  <2>1. /\ breaker \in BreakerRow /\ asking \in [Asker -> AskerRow]
        /\ tick \in 0..LastTick /\ DOMAIN produced = Asker
        /\ \A d \in Asker : Producible(produced[d])
    BY DEF GenerationInv, GenerationTyped
  <2>2. /\ asking' = [asking EXCEPT ![c].provider = @ + 1]
        /\ UNCHANGED <<breaker, produced>>
    BY <1>2 DEF ProviderFails
  <2>3. PICK entry : entry = [asking[c] EXCEPT !.provider = asking[c].provider + 1]
    OBVIOUS
  <2>4. entry = [at |-> asking[c].at, provider |-> asking[c].provider + 1,
               since |-> asking[c].since, permit |-> asking[c].permit]
    BY <2>1, <2>3 DEF AskerRow
  <2>5. asking[c].provider \in 0..Providers
    BY <2>1 DEF AskerRow
  <2>6. asking[c].provider + 1 \in 0..Providers
    BY <1>2, <2>5, GenerationNumbers
  <2>7. entry \in AskerRow
    BY <2>1, <2>4, <2>6 DEF AskerRow
  <2>8. asking' = [asking EXCEPT ![c] = entry]
    BY <2>2, <2>3
  <2>9. /\ asking' \in [Asker -> AskerRow]
        /\ \A d \in Asker : asking'[d].at = asking[d].at /\ asking'[d].permit = asking[d].permit
    BY <2>1, <2>4, <2>7, <2>8
  <2>10. GenerationTyped'
    BY <1>1, <2>2, <2>9 DEF GenerationInv, GenerationTyped
  <2>11. \A d \in Asker : Probing(d)' <=> Probing(d)
    BY <2>2, <2>9 DEF Probing, Current
  <2>12. ProbeIsHeld'
    BY <2>2, <2>11 DEF GenerationInv, ProbeIsHeld, ClosedNow
  <2>13. \A d \in Asker : PermitFits(d)'
    BY <2>2, <2>9 DEF GenerationInv, PermitFits, Current, ClosedNow
  <2>14. \A d \in Asker : Producible(produced[d])'
    BY <1>1, <2>1, <2>2 DEF Producible, Supported
  <2>15. KeepsTime
    BY <2>2, <2>9 DEF KeepsTime
  <2> QED BY <2>10, <2>12, <2>13, <2>14, <2>15 DEF GenerationInv
<1>3. CASE ~(asking[c].provider < Providers)
  <2>1. asking' = Settled(c) /\ Fail(c) /\ Give(c, Deterministic)
    BY <1>3 DEF ProviderFails
  <2>2. (\A d \in Asker : Producible(produced[d])') /\ DOMAIN produced' = Asker
    BY <1>1, <2>1, ReportGiven, RulesAreProducible
  <2> QED BY <1>1, <2>1, <2>2, RequestEnds
<1> QED BY <1>2, <1>3

LEMMA ModelTimesOutKeepsAll ==
  ASSUME GenerationInv, NEW c \in Asker, ModelTimesOut(c)
  PROVE  GenerationInv' /\ KeepsTime
<1>1. /\ asking[c].at = "asking" /\ UNCHANGED <<candidates, tick>>
      /\ asking' = Settled(c) /\ Fail(c) /\ Give(c, Deterministic)
  BY DEF ModelTimesOut
<1>2. (\A d \in Asker : Producible(produced[d])') /\ DOMAIN produced' = Asker
  BY <1>1, ReportGiven, RulesAreProducible
<1> QED BY <1>1, <1>2, RequestEnds

LEMMA CancellationKeepsAll ==
  ASSUME GenerationInv, NEW c \in Asker, GenerationCancelled(c)
  PROVE  GenerationInv' /\ KeepsTime
<1>1. /\ asking[c].at = "asking" /\ UNCHANGED <<produced, candidates, tick>>
      /\ asking' = Settled(c) /\ ReleaseProbe(c)
  BY DEF GenerationCancelled
<1>2. (\A d \in Asker : Producible(produced[d])') /\ DOMAIN produced' = Asker
  BY <1>1 DEF GenerationInv, GenerationTyped, Producible, Supported
<1> QED BY <1>1, <1>2, RequestEnds

LEMMA NextRequestKeepsAll ==
  ASSUME GenerationInv, NEW c \in Asker, NextRequest(c)
  PROVE  GenerationInv' /\ KeepsTime
<1>1. /\ breaker \in BreakerRow /\ asking \in [Asker -> AskerRow] /\ tick \in 0..LastTick
  BY DEF GenerationInv, GenerationTyped
<1> DEFINE entry == [at |-> "idle", provider |-> 0, since |-> 0, permit |-> NoPermit]
<1>2. /\ asking[c].at = "done" /\ asking' = [asking EXCEPT ![c] = entry]
      /\ Give(c, NoReport) /\ UNCHANGED <<breaker, candidates, tick>>
  BY DEF NextRequest
<1>3. (\A d \in Asker : Producible(produced[d])') /\ DOMAIN produced' = Asker
  BY <1>2, ReportGiven, RulesAreProducible
<1>4. entry \in AskerRow
  <2>1. NoPermit \in PermitRow
    BY DEF NoPermit, PermitRow
  <2> QED BY <2>1, GenerationNumbers DEF AskerRow
<1>5. /\ asking' \in [Asker -> AskerRow] /\ asking'[c].at = "idle"
      /\ \A d \in Asker : d # c => asking'[d] = asking[d]
  BY <1>1, <1>2, <1>4
<1> HIDE DEF entry
<1>6. GenerationTyped'
  BY <1>2, <1>3, <1>5 DEF GenerationInv, GenerationTyped
<1>7. \A d \in Asker : Probing(d)' <=> Probing(d)
  BY <1>2, <1>5 DEF Probing, Current
<1>8. ProbeIsHeld'
  BY <1>2, <1>7 DEF GenerationInv, ProbeIsHeld, ClosedNow
<1>9. \A d \in Asker : PermitFits(d)'
  BY <1>2, <1>5 DEF GenerationInv, PermitFits, Current, ClosedNow
<1>10. KeepsTime
  BY <1>2, <1>5 DEF KeepsTime
<1> QED BY <1>3, <1>6, <1>8, <1>9, <1>10 DEF GenerationInv

LEMMA TickKeepsAll ==
  ASSUME GenerationInv, TickPasses \/ UNCHANGED generationVars
  PROVE  GenerationInv' /\ KeepsTime
<1>1. /\ UNCHANGED <<breaker, asking, produced, candidates>> /\ tick \in 0..LastTick
      /\ tick' \in 0..LastTick
  BY GenerationNumbers DEF GenerationInv, GenerationTyped, TickPasses, generationVars
<1>2. GenerationTyped'
  BY <1>1 DEF GenerationInv, GenerationTyped
<1>3. \A d \in Asker : Probing(d)' <=> Probing(d)
  BY <1>1 DEF Probing, Current
<1>4. ProbeIsHeld' /\ \A d \in Asker : PermitFits(d)'
  BY <1>1, <1>3 DEF GenerationInv, ProbeIsHeld, PermitFits, Current, ClosedNow
<1>5. \A d \in Asker : Producible(produced[d])'
  BY <1>1 DEF GenerationInv, Producible, Supported
<1>6. KeepsTime
  BY <1>1 DEF KeepsTime
<1> QED BY <1>2, <1>4, <1>5, <1>6 DEF GenerationInv

LEMMA GenerationGoesOn ==
  ASSUME GenerationInv, NEW S, candidates \in Seq(S), [GenerationNext]_generationVars
  PROVE  GenerationInv' /\ KeepsTime /\ candidates' = candidates
<1>1. candidates' = candidates
  BY DEF GenerationNext, generationVars, TickPasses, AskModel, ProviderAnswers,
         ProviderFails, ModelTimesOut, GenerationCancelled, NextRequest
<1>2. CASE \E c \in Asker : \/ AskModel(c) \/ ProviderAnswers(c) \/ ProviderFails(c)
                           \/ ModelTimesOut(c) \/ GenerationCancelled(c) \/ NextRequest(c)
  <2>1. PICK c \in Asker : \/ AskModel(c) \/ ProviderAnswers(c) \/ ProviderFails(c)
                           \/ ModelTimesOut(c) \/ GenerationCancelled(c) \/ NextRequest(c)
    BY <1>2
  <2> QED BY <1>1, <2>1, AskModelKeepsAll, ProviderAnswersKeepsAll, ProviderFailsKeepsAll,
             ModelTimesOutKeepsAll, CancellationKeepsAll, NextRequestKeepsAll
<1>3. CASE TickPasses \/ UNCHANGED generationVars
  BY <1>1, <1>3, TickKeepsAll
<1> QED BY <1>2, <1>3 DEF GenerationNext

LEMMA GenerationIsSound ==
  ASSUME GenerationInv
  PROVE  GenerationTypeOK /\ ReportingIsSound
<1>1. /\ breaker \in BreakerRow /\ asking \in [Asker -> AskerRow] /\ tick \in 0..LastTick
      /\ breaker.open_until \in Closed0..(LastTick + RecoveryTimeout)
      /\ \A d \in Asker : Producible(produced[d])
  BY DEF GenerationInv, GenerationTyped
<1>2. GenerationTypeOK
  BY <1>1 DEF GenerationTypeOK, BreakerRow, AskerRow, Producible
<1>3. ReportsAreSupported
  BY <1>1 DEF ReportsAreSupported, Producible, Supported
<1> QED BY <1>2, <1>3 DEF ReportingIsSound, GenerationInv

\* Orders of candidates are sequences of those there are.
LEMMA OrdersAreSequences ==
  ASSUME NEW R, \A r \in R : r \in Seq({r[n] : n \in DOMAIN r})
  PROVE  R \subseteq Seq(UNION {{r[n] : n \in DOMAIN r} : r \in R})
<1> DEFINE S == UNION {{r[n] : n \in DOMAIN r} : r \in R}
<1>1. ASSUME NEW r \in R PROVE r \in Seq(S)
  <2>1. PICK T : T = {r[n] : n \in DOMAIN r}
    OBVIOUS
  <2>2. r \in Seq(T) /\ T \subseteq S
    BY <2>1
  <2> HIDE DEF S
  <2>3. Len(r) \in Nat /\ DOMAIN r = 1..Len(r) /\ r = [n \in 1..Len(r) |-> r[n]]
    BY <2>2
  <2>4. \A n \in 1..Len(r) : r[n] \in S
    BY <2>2
  <2> QED BY <2>3, <2>4
<1> QED BY <1>1

\* Whatever the number of requests and providers, the thresholds, the times
\* and the candidates: the place of a probe is held by one request and given
\* back, every report says no more than a candidate supports, and an open
\* breaker keeps its time.  llm_report_generator.py:110-655.
THEOREM ReportingAlwaysSound ==
  ASSUME NEW CONSTANT R, RankingAsks(R)
  PROVE  GenerationStart(R) /\ [][GenerationNext]_generationVars =>
           [](GenerationTypeOK /\ ReportingIsSound) /\ OpenKeepsItsTime
<1> DEFINE Inv == GenerationInv /\ candidates \in R
<1>1. GenerationStart(R) => Inv
  BY GenerationBegins DEF GenerationStart
<1>2. Inv /\ [GenerationNext]_generationVars => Inv' /\ KeepsTime
  <2> DEFINE S == UNION {{r[n] : n \in DOMAIN r} : r \in R}
  <2>1. R \subseteq Seq(S)
    BY OrdersAreSequences DEF RankingAsks
  <2> HIDE DEF S
  <2> QED BY <2>1, GenerationGoesOn
<1>3. Inv => GenerationTypeOK /\ ReportingIsSound
  BY GenerationIsSound
<1> HIDE DEF Inv
<1>4. GenerationStart(R) /\ [][GenerationNext]_generationVars =>
        []Inv /\ [][KeepsTime]_generationVars
  BY <1>1, <1>2, PTL
<1> QED BY <1>3, <1>4, PTL DEF OpenKeepsItsTime, KeepsTime
=============================================================================
