--------------------------- MODULE ProcessProofs ---------------------------
(* A process and what keeps it going, each part alone: its settings, its start *)
(* and shutdown, its readiness, logins, the edge, the loops of its workers and *)
(* what scrapes show of them; for any number of requests, tokens, sources,     *)
(* cycles and scrapes.  Each section has the inductive invariant of one module *)
(* and the theorem that follows from it.                                       *)
EXTENDS Configuration, Lifecycle, Readiness, SigningKeys, HttpEdge, WorkerLoops,
        Monitoring, FiniteSetTheorems, TLAPS

----------------------------------------------------------------------------
(* Settings.  Every bound a setting has, and every check of two of them, holds of *)
(* what was loaded; nothing changes them afterwards.                            *)

\* What was loaded is accepted, and what runs was built of it.
ConfigurationInv ==
  /\ given \in Setting
  /\ phase \in {"given", "loaded", "built", "refused"} /\ sick \subseteq {"reclaim"}
  /\ phase \in {"loaded", "built"} => Accepts(given)
  /\ phase = "built" => Builds(given)

LEMMA ConfigurationSteps ==
  ASSUME ConfigurationInv, [ConfigurationNext]_configurationVars PROVE ConfigurationInv'
<1>1. CASE UNCHANGED configurationVars
  BY <1>1 DEF ConfigurationInv, configurationVars
<1>2. CASE LoadSettings
  BY <1>2 DEF ConfigurationInv, LoadSettings
<1>3. CASE BuildRuntime
  BY <1>3 DEF ConfigurationInv, BuildRuntime, Sick
<1> QED BY <1>1, <1>2, <1>3 DEF ConfigurationNext

\* A part of a batch takes no longer than the whole.
LEMMA PartsAreShorter ==
  ASSUME NEW b \in Nat, NEW p \in Nat, NEW k \in 1..b PROVE k * p <= b * p
<1>1. b - k \in Nat
  OBVIOUS
<1>2. (b - k) * p \in Nat
  BY <1>1
<1>3. b * p = k * p + (b - k) * p
  OBVIOUS
<1>4. k * p \in Nat /\ b * p \in Nat
  OBVIOUS
<1> QED BY <1>2, <1>3, <1>4

\* The times alone: what their bounds and their order give.
LEMMA TimesHold ==
  ASSUME NEW batch \in Bounds.batch, NEW publish \in Bounds.publish,
         NEW outboxLease \in Bounds.outbox_lease, NEW lease \in Bounds.lease,
         NEW outbox \in BOOLEAN, outbox => batch * publish < outboxLease
  PROVE  /\ lease >= 10
         /\ outbox => \A k \in 1..batch : k * publish < outboxLease
<1>0. batch \in Nat /\ publish \in Nat /\ outboxLease \in Nat
  BY DEF Bounds
<1>1. lease >= 10
  BY DEF Bounds
<1>2. ASSUME outbox, NEW k \in 1..batch PROVE k * publish < outboxLease
  <2>1. batch * publish < outboxLease
    BY <1>2
  <2>2. batch \in Nat /\ publish \in Nat /\ outboxLease \in Nat /\ k \in Nat
    BY <1>0
  <2>3. k * publish <= batch * publish
    BY <2>2, <1>2, PartsAreShorter
  <2>4. k * publish \in Nat /\ batch * publish \in Nat
    BY <2>2
  <2> QED BY <2>1, <2>2, <2>3, <2>4
<1> QED BY <1>1, <1>2

LEMMA BuiltIsSafe ==
  ASSUME NEW s, s.tempo \in Address, s.controller \in Address, s.outbox \in BOOLEAN,
         Accepts(s), Builds(s)
  PROVE  SafeToRun(s)
<1>0. FieldBounds(s) /\ TimesFit(s)
  BY Zenon DEF Accepts
<1>2. /\ s.batch \in Bounds.batch /\ s.publish \in Bounds.publish
      /\ s.outbox_lease \in Bounds.outbox_lease /\ s.lease \in Bounds.lease
  BY <1>0, Zenon DEF FieldBounds
<1>3. s.heartbeat < s.execution /\ s.heartbeat < s.lease
  BY <1>0, Zenon DEF TimesFit
<1>4. ProtocolTimes(s)
  <2>1. s.execute => s.remediation_timeout < s.remediation_lease
    BY Zenon DEF Accepts, RemediationIsSet
  <2>2. s.outbox => s.batch * s.publish < s.outbox_lease
    BY Zenon DEF Builds, DispatcherBuilds
  <2>3. s.lease >= 10 /\ (s.outbox => \A k \in 1..s.batch : k * s.publish < s.outbox_lease)
    BY <1>2, <2>2, TimesHold, Zenon
  <2> QED BY <1>3, <2>1, <2>3, Zenon DEF ProtocolTimes
<1>5. StreamsAreApart(s)
  BY DEF Accepts, ConsumersAreSet, StreamsAreApart
<1>6. NothingIsMissing(s)
  <2>1. s.tempo \in Address /\ s.controller \in Address
    OBVIOUS
  <2>2. /\ s.rca => s.tempo # "bad"
        /\ s.rca /\ s.policy \in {"fixed_default", "bounded_dynamic_v1"} => s.tempo # "none"
    BY DEF Accepts, ConsumersAreSet
  <2>3. s.execute => s.controller # "none" /\ s.tenants # {} /\ s.catalog = "good"
    BY DEF Accepts, RemediationIsSet, Builds, RemediationBuilds
  <2>4. s.controller # "bad"
    BY DEF Accepts, AddressFields
  <2>5. s.tickets => s.http_json \/ s.jira \/ s.servicenow
    BY DEF Builds, GatewaysBuild
  <2>6. s.report => s.rca /\ s.key = "good"
    BY DEF Accepts, ReportsAreSet, ProviderIsSet
  <2> QED BY <2>1, <2>2, <2>3, <2>4, <2>5, <2>6 DEF NothingIsMissing, Address
<1>7. ProductionIsGuarded(s)
  BY DEF Accepts, Builds, AuthenticationIsSet, AuthenticatorBuilds, TicketingIsSet, RemediationIsSet,
         ProductionIsGuarded
<1> QED BY <1>4, <1>5, <1>6, <1>7 DEF SafeToRun

LEMMA ConfigurationBegins ==
  given \in Setting /\ ConfigurationInit => ConfigurationInv
BY DEF ConfigurationInit, ConfigurationInv

LEMMA ConfigurationRunsSafely ==
  ASSUME ConfigurationInv PROVE RunningIsSafe
<1>1. given \in Setting => /\ given.tempo \in Address /\ given.controller \in Address
                           /\ given.outbox \in BOOLEAN
  BY DEF Setting
<1> QED BY <1>1, BuiltIsSafe DEF ConfigurationInv, RunningIsSafe

\* Whatever the environment gives, a process that was built can keep the promises of its
\* protocols.
THEOREM RunningAlwaysSafe ==
  given \in Setting /\ ConfigurationInit /\ [][ConfigurationNext]_configurationVars
    => []RunningIsSafe
BY ConfigurationBegins, ConfigurationSteps, ConfigurationRunsSafely, PTL

----------------------------------------------------------------------------
(* Starting and shutting down.  What a start opened stays open while a worker that *)
(* uses it lives, and a shutdown has had its turn with what it left behind.     *)

Gone(w) == task[w] \in Over \cup {"none"} \/ w \in abandoned

\* What a start has opened stays open until every worker has been waited for.
StartedFits ==
  /\ stage \in {"checking", "connecting"} => \A w \in Enabled : task[w] = "none"
  /\ stage \in Starting \cup {"up"} => abandoned = {}
  /\ stage \in Starting \cup {"up"} => \A w \in Enabled : task[w] \in Over => w \in failure
  /\ stage \notin {"releasing", "closed"} =>
       /\ broken = {}
       /\ Resource \ {"publisher"} \subseteq open
       /\ (\E w \in Enabled : task[w] # "none") => open = Resource

\* A shutdown leaves behind what it had its turn with.
ClosingFits ==
  /\ stage \in {"awaiting", "forcing"} =>
       \A i \in DOMAIN Order : i < turn /\ Order[i] \in Enabled => Gone(Order[i])
  /\ stage \in {"releasing", "closed"} => \A w \in Enabled : Gone(w)
  /\ stage = "releasing" =>
       \A i \in DOMAIN Resources :
         IF i < turn THEN Resources[i] \in open => Resources[i] \in broken
         ELSE Resources[i] \notin broken
  /\ stage = "closed" => open \subseteq broken

LifecycleInv == LifecycleTypeOK /\ StartedFits /\ ClosingFits

\* What a worker's own steps do to it.
WorkerMoves(w) ==
  /\ task[w] \in Living
  /\ \E at \in Living \cup Over :
       /\ task' = [task EXCEPT ![w] = at]
       /\ at \in Over /\ stage \in Starting \cup {"up"} => w \in failure'
  /\ failure' \in {failure, failure \cup {w}}
  /\ why' \in [Enabled -> Over] /\ cancel' \in [Enabled -> BOOLEAN]
  /\ UNCHANGED <<stage, turn, open, broken, stop, abandoned>>

LEMMA OrderFacts ==
  /\ DOMAIN Order = 1..5 /\ Len(Order) = 5
  /\ \A w \in Enabled : \E i \in 1..5 : Order[i] = w
  /\ DOMAIN Resources = 1..4 /\ Len(Resources) = 4
  /\ \A x \in Resource : \E i \in 1..4 : Resources[i] = x
  /\ \A i \in 1..4 : Resources[i] \in Resource
<1>1. DOMAIN Order = 1..5 /\ Len(Order) = 5
  BY DEF Order
<1>2. DOMAIN Resources = 1..4 /\ Len(Resources) = 4
  BY DEF Resources
<1>3. \A w \in Enabled : \E i \in 1..5 : Order[i] = w
  BY <1>1, LifecycleAssumption
<1> QED BY <1>1, <1>2, <1>3 DEF Resource

LEMMA StageFacts ==
  stage \in Closing \cup {"closed"} \/ stage \in Starting \cup {"up"} \/ ~LifecycleTypeOK
BY DEF LifecycleTypeOK

LEMMA LifecycleBegins ==
  ASSUME LifecycleInit PROVE LifecycleInv
<1>1. LifecycleTypeOK
  <2>1. open \subseteq Resource /\ turn \in 1..(Len(Order) + Len(Resources) + 1)
    BY OrderFacts DEF LifecycleInit
  <2> QED BY <2>1 DEF LifecycleInit, LifecycleTypeOK, Starting, Over
<1>2. StartedFits
  BY DEF LifecycleInit, StartedFits, Starting, Over
<1>3. ClosingFits
  BY DEF LifecycleInit, ClosingFits
<1> QED BY <1>1, <1>2, <1>3 DEF LifecycleInv

LEMMA WorkersMove ==
  ASSUME LifecycleTypeOK, NEW w \in Enabled,
         Connect(w) \/ CycleEnds(w) \/ Wakes(w) \/ ConsumerCloses(w) \/ CancelArrives(w)
  PROVE  WorkerMoves(w)
<1> DEFINE To(at) == /\ task' = [task EXCEPT ![w] = at]
                     /\ at \in Over /\ stage \in Starting \cup {"up"} => w \in failure'
<1>1. ASSUME NEW how \in Over, Ends(w, how)
      PROVE  /\ \E at \in Living \cup Over : To(at)
             /\ failure' \in {failure, failure \cup {w}}
  <2>1. To(how)
    BY <1>1 DEF Ends, Starting, Closing
  <2>2. failure' \in {failure, failure \cup {w}}
    BY <1>1 DEF Ends
  <2> QED BY <2>1, <2>2
<1>2. ASSUME NEW how \in Over, Leaves(w, how)
      PROVE  /\ \E at \in Living \cup Over : To(at)
             /\ failure' \in {failure, failure \cup {w}} /\ why' \in [Enabled -> Over]
  <2>1. CASE w \in Consuming
    <3>1. To("stopping") /\ "stopping" \in Living
      BY <1>2, <2>1 DEF Leaves, Living, Over
    <3> QED BY <1>2, <2>1, <3>1 DEF Leaves, LifecycleTypeOK
  <2>2. CASE w \notin Consuming
    BY <1>1, <1>2, <2>2 DEF Leaves, LifecycleTypeOK
  <2> QED BY <2>1, <2>2
<1>3. ASSUME NEW at \in Living, Goes(w, at)
      PROVE  /\ \E to \in Living \cup Over : To(to)
             /\ failure' \in {failure, failure \cup {w}} /\ why' \in [Enabled -> Over]
  <2>1. To(at)
    BY <1>3 DEF Goes, Living, Over
  <2> QED BY <1>3, <2>1 DEF Goes, LifecycleTypeOK
<1>4. {"done", "failed", "cancelled"} \subseteq Over /\ {"cycle", "rest"} \subseteq Living
  BY DEF Over, Living
<1> HIDE DEF To
<1>5. CASE Connect(w) \/ CycleEnds(w) \/ Wakes(w)
  <2>1. /\ task[w] \in Living /\ UNCHANGED <<stage, turn, open, broken, stop, abandoned>>
        /\ cancel' \in [Enabled -> BOOLEAN]
    BY <1>5 DEF Connect, CycleEnds, Wakes, Living, runtimeVars, LifecycleTypeOK
  <2>2. Leaves(w, "done") \/ Leaves(w, "failed") \/ Goes(w, "cycle") \/ Goes(w, "rest")
    BY <1>5 DEF Connect, CycleEnds, Wakes
  <2>3. /\ \E at \in Living \cup Over : To(at)
        /\ failure' \in {failure, failure \cup {w}} /\ why' \in [Enabled -> Over]
    BY <1>2, <1>3, <1>4, <2>2
  <2> QED BY <2>1, <2>3 DEF WorkerMoves, To
<1>6. CASE ConsumerCloses(w)
  <2>1. PICK how \in {why[w], "failed"} : Ends(w, how)
    BY <1>6 DEF ConsumerCloses
  <2>2. how \in Over
    BY <1>4 DEF LifecycleTypeOK
  <2>3. /\ task[w] \in Living /\ UNCHANGED <<stage, turn, open, broken, stop, abandoned>>
        /\ cancel' \in [Enabled -> BOOLEAN] /\ why' \in [Enabled -> Over]
    BY <1>6 DEF ConsumerCloses, Living, runtimeVars, LifecycleTypeOK
  <2> QED BY <1>1, <2>1, <2>2, <2>3 DEF WorkerMoves, To
<1>7. CASE CancelArrives(w)
  <2>1. /\ task[w] \in Living /\ UNCHANGED <<stage, turn, open, broken, stop, abandoned>>
        /\ cancel' \in [Enabled -> BOOLEAN]
    BY <1>7 DEF CancelArrives, Living, runtimeVars, LifecycleTypeOK
  <2>2. /\ \E at \in Living \cup Over : To(at)
        /\ failure' \in {failure, failure \cup {w}} /\ why' \in [Enabled -> Over]
    <3>1. CASE task[w] = "stopping"
      <4>1. Ends(w, "cancelled") /\ why' = why
        BY <1>7, <3>1 DEF CancelArrives
      <4>2. why' \in [Enabled -> Over]
        BY <4>1 DEF LifecycleTypeOK
      <4> QED BY <1>1, <1>4, <4>1, <4>2
    <3>2. CASE task[w] # "stopping"
      BY <1>2, <1>4, <1>7, <3>2 DEF CancelArrives
    <3> QED BY <3>1, <3>2
  <2> QED BY <2>1, <2>2 DEF WorkerMoves, To
<1> QED BY <1>5, <1>6, <1>7

LEMMA WorkerStep ==
  ASSUME LifecycleInv, NEW w \in Enabled, WorkerMoves(w)
  PROVE  LifecycleInv'
<1>1. PICK at \in Living \cup Over :
        /\ task' = [task EXCEPT ![w] = at]
        /\ at \in Over /\ stage \in Starting \cup {"up"} => w \in failure'
  BY DEF WorkerMoves
<1>2. LifecycleTypeOK'
  BY <1>1 DEF WorkerMoves, LifecycleInv, LifecycleTypeOK
<1>3. "none" \notin Living \cup Over /\ Living \cap Over = {}
  BY DEF Living, Over
<1>4. /\ task[w] \in Living /\ task[w] # "none" /\ task'[w] = at
      /\ \A v \in Enabled \ {w} : task'[v] = task[v]
  BY <1>1, <1>3 DEF WorkerMoves, LifecycleInv, LifecycleTypeOK
<1>5. StartedFits'
  BY <1>1, <1>3, <1>4 DEF WorkerMoves, LifecycleInv, StartedFits
<1>6. \A v \in Enabled : Gone(v) => Gone(v)'
  BY <1>3, <1>4 DEF WorkerMoves, Gone
<1>7. ClosingFits'
  BY <1>6 DEF WorkerMoves, LifecycleInv, ClosingFits
<1> QED BY <1>2, <1>5, <1>7 DEF LifecycleInv

\* A shutdown begins with every resource a worker may need.
LEMMA ClosingBegins ==
  ASSUME LifecycleInv, stage \in Starting \cup {"up"}, CloseResources,
         UNCHANGED <<open, broken, task, why, cancel, failure, abandoned>>
  PROVE  LifecycleInv'
<1>1. LifecycleTypeOK'
  <2>1. turn' \in 1..(Len(Order) + Len(Resources) + 1)
    BY OrderFacts DEF CloseResources
  <2> QED BY <2>1 DEF CloseResources, LifecycleInv, LifecycleTypeOK, Closing
<1>2. StartedFits'
  BY DEF CloseResources, LifecycleInv, StartedFits, Starting
<1>3. ClosingFits'
  BY OrderFacts DEF CloseResources, ClosingFits
<1> QED BY <1>1, <1>2, <1>3 DEF LifecycleInv

LEMMA StartStep ==
  ASSUME LifecycleInv, CheckDatabase \/ StartWorkers \/ VerifyWorkers \/ StartFails \/ Close
  PROVE  LifecycleInv'
<1>1. CASE CheckDatabase
  BY <1>1 DEF CheckDatabase, taskVars, LifecycleInv, LifecycleTypeOK, StartedFits, ClosingFits, Starting
<1>2. CASE StartWorkers
  <2>0. "publisher" \in Resource
    BY DEF Resource, Resources
  <2>1. /\ task' \in [Enabled -> {"starting", "cycle"}] /\ stage' = "spawned"
        /\ open' = Resource /\ broken' = {} /\ abandoned' = {}
    BY <1>2, <2>0 DEF StartWorkers, LifecycleInv, LifecycleTypeOK, StartedFits, Starting
  <2>2. LifecycleTypeOK'
    BY <1>2, <2>1 DEF StartWorkers, LifecycleInv, LifecycleTypeOK, Starting, Living
  <2>3. StartedFits' /\ ClosingFits'
    BY <2>1 DEF StartedFits, ClosingFits, Over
  <2> QED BY <2>2, <2>3 DEF LifecycleInv
<1>3. CASE VerifyWorkers
  <2>1. CASE \E w \in Enabled : task[w] = "failed"
    BY <1>3, <2>1, ClosingBegins DEF VerifyWorkers, Starting
  <2>2. CASE ~ \E w \in Enabled : task[w] = "failed"
    <3>1. stage = "spawned" /\ stage' = "up"
          /\ UNCHANGED <<turn, stop, open, broken, task, why, cancel, failure, abandoned>>
      BY <1>3, <2>2 DEF VerifyWorkers
    <3> QED BY <3>1 DEF LifecycleInv, LifecycleTypeOK, StartedFits, ClosingFits, Starting
  <2> QED BY <2>1, <2>2
<1>4. CASE StartFails
  BY <1>4, ClosingBegins DEF StartFails
<1>5. CASE Close
  BY <1>5, ClosingBegins DEF Close
<1> QED BY <1>1, <1>2, <1>3, <1>4, <1>5

LEMMA AwaitStep ==
  ASSUME LifecycleInv,
         GraceEnds \/ CancelForwarded \/ WorkerAwaited \/ WaitCancelled \/ AllAwaited
  PROVE  LifecycleInv'
<1>0. /\ turn \in 1..10 /\ DOMAIN Order = 1..5 /\ Len(Order) = 5
  BY OrderFacts DEF LifecycleInv, LifecycleTypeOK
<1>1. CASE GraceEnds \/ CancelForwarded
  <2>1. LifecycleTypeOK'
    BY <1>1 DEF GraceEnds, CancelForwarded, LifecycleInv, LifecycleTypeOK, Closing
  <2>2. StartedFits' /\ ClosingFits'
    BY <1>1 DEF GraceEnds, CancelForwarded, LifecycleInv, StartedFits, ClosingFits, Gone, Starting
  <2> QED BY <2>1, <2>2 DEF LifecycleInv
<1>2. CASE WorkerAwaited \/ WaitCancelled
  <2>0. PICK v : v = Order[turn]
    OBVIOUS
  <2>1. /\ stage \in {"awaiting", "forcing"} /\ stage' = "awaiting" /\ turn' = turn + 1 /\ turn <= 5
        /\ UNCHANGED <<open, broken, task, why, stop, cancel, failure>>
        /\ abandoned \subseteq abandoned' /\ abandoned' \subseteq Enabled
        /\ v \in Enabled => Gone(v)'
    BY <1>0, <1>2, <2>0 DEF WorkerAwaited, WaitCancelled, Awaited, Gone, taskVars, LifecycleInv, LifecycleTypeOK
  <2>2. LifecycleTypeOK'
    <3>1. turn' \in 1..(Len(Order) + Len(Resources) + 1)
      BY <1>0, <2>1, OrderFacts
    <3> QED BY <2>1, <3>1 DEF LifecycleInv, LifecycleTypeOK, Closing
  <2>3. StartedFits'
    BY <2>1 DEF LifecycleInv, StartedFits, Starting
  <2>4. ClosingFits'
    <3>1. ASSUME NEW i \in DOMAIN Order, i < turn', Order[i] \in Enabled PROVE Gone(Order[i])'
      <4>1. CASE i = turn
        BY <2>0, <2>1, <3>1, <4>1
      <4>2. CASE i # turn
        <5>1. i < turn
          BY <1>0, <2>1, <3>1, <4>2
        <5>2. Gone(Order[i])
          BY <2>1, <3>1, <5>1 DEF LifecycleInv, ClosingFits
        <5> QED BY <2>1, <5>2 DEF Gone
      <4> QED BY <4>1, <4>2
    <3> QED BY <2>1, <3>1 DEF ClosingFits
  <2> QED BY <2>2, <2>3, <2>4 DEF LifecycleInv
<1>3. CASE AllAwaited
  <2>1. /\ stage = "awaiting" /\ turn > 5 /\ stage' = "releasing" /\ turn' = 1
        /\ UNCHANGED <<open, broken, task, why, stop, cancel, failure, abandoned>>
    BY <1>0, <1>3 DEF AllAwaited, taskVars
  <2>2. LifecycleTypeOK'
    <3>1. turn' \in 1..(Len(Order) + Len(Resources) + 1)
      BY <2>1, OrderFacts
    <3> QED BY <2>1, <3>1 DEF LifecycleInv, LifecycleTypeOK, Closing
  <2>3. StartedFits'
    BY <2>1 DEF StartedFits, Starting
  <2>4. ASSUME NEW w \in Enabled PROVE Gone(w)
    <3>1. PICK i \in 1..5 : Order[i] = w
      BY OrderFacts
    <3>2. i < turn
      BY <1>0, <2>1
    <3> QED BY <1>0, <2>1, <2>4, <3>1, <3>2 DEF LifecycleInv, ClosingFits
  <2>5. ClosingFits'
    <3>1. broken' = {}
      BY <2>1 DEF LifecycleInv, StartedFits
    <3> QED BY <2>1, <2>4, <3>1, OrderFacts DEF ClosingFits, Gone
  <2> QED BY <2>2, <2>3, <2>5 DEF LifecycleInv
<1> QED BY <1>1, <1>2, <1>3

LEMMA ReleaseStep ==
  ASSUME LifecycleInv, Release \/ Closed
  PROVE  LifecycleInv'
<1>0. /\ turn \in 1..10 /\ DOMAIN Resources = 1..4 /\ Len(Resources) = 4
  BY OrderFacts DEF LifecycleInv, LifecycleTypeOK
<1>1. CASE Release
  <2>0. PICK x : x = Resources[turn]
    OBVIOUS
  <2>1. /\ stage = "releasing" /\ stage' = stage /\ turn' = turn + 1 /\ turn <= 4
        /\ UNCHANGED <<task, why, stop, cancel, failure, abandoned>>
        /\ \/ open' = open \ {x} /\ broken' = broken
           \/ x \in open /\ broken' = broken \cup {x} /\ open' = open
    BY <1>0, <1>1, <2>0 DEF Release, taskVars
  <2>2. x \notin broken /\ broken \subseteq open /\ open \subseteq Resource
    BY <1>0, <2>0, <2>1 DEF LifecycleInv, ClosingFits, LifecycleTypeOK
  <2>3. LifecycleTypeOK'
    <3>1. turn' \in 1..(Len(Order) + Len(Resources) + 1)
      BY <1>0, <2>1, OrderFacts
    <3> QED BY <2>1, <2>2, <3>1 DEF LifecycleInv, LifecycleTypeOK
  <2>4. StartedFits'
    BY <2>1 DEF StartedFits, Starting
  <2>5. ASSUME NEW i \in DOMAIN Resources
        PROVE  IF i < turn' THEN Resources[i] \in open' => Resources[i] \in broken'
               ELSE Resources[i] \notin broken'
    <3>1. CASE i = turn
      BY <1>0, <2>0, <2>1, <2>2, <3>1
    <3>2. CASE i # turn
      <4>1. Resources[i] # x /\ turn \in 1..4
        BY <1>0, <2>0, <2>1, <2>5, <3>2 DEF Resources
      <4>2. i < turn' <=> i < turn
        BY <1>0, <2>1, <2>5, <3>2
      <4> QED BY <2>1, <4>1, <4>2 DEF LifecycleInv, ClosingFits
    <3> QED BY <3>1, <3>2
  <2>6. ClosingFits'
    BY <2>1, <2>5 DEF LifecycleInv, ClosingFits, Gone
  <2> QED BY <2>3, <2>4, <2>6 DEF LifecycleInv
<1>2. CASE Closed
  <2>1. /\ stage = "releasing" /\ stage' = "closed" /\ turn > 4
        /\ UNCHANGED <<turn, open, broken, task, why, stop, cancel, failure, abandoned>>
    BY <1>0, <1>2 DEF Closed, taskVars
  <2>2. open \subseteq broken
    <3>1. ASSUME NEW x \in open PROVE x \in broken
      <4>1. PICK i \in 1..4 : Resources[i] = x
        BY <3>1, OrderFacts DEF LifecycleInv, LifecycleTypeOK
      <4> QED BY <1>0, <2>1, <3>1, <4>1 DEF LifecycleInv, ClosingFits
    <3> QED BY <3>1
  <2>3. LifecycleTypeOK' /\ StartedFits'
    BY <2>1 DEF LifecycleInv, LifecycleTypeOK, StartedFits, Starting
  <2>4. ClosingFits'
    BY <2>1, <2>2 DEF LifecycleInv, ClosingFits, Gone
  <2> QED BY <2>3, <2>4 DEF LifecycleInv
<1> QED BY <1>1, <1>2

LEMMA LifecycleSteps ==
  ASSUME LifecycleInv, [LifecycleNext]_lifecycleVars PROVE LifecycleInv'
<1>1. CASE UNCHANGED lifecycleVars
  BY <1>1 DEF LifecycleInv, LifecycleTypeOK, StartedFits, ClosingFits, Gone, lifecycleVars,
              runtimeVars, taskVars
<1>2. CASE CheckDatabase \/ StartWorkers \/ VerifyWorkers \/ StartFails \/ Close
  BY <1>2, StartStep
<1>3. CASE GraceEnds \/ CancelForwarded \/ WorkerAwaited \/ WaitCancelled \/ AllAwaited
  BY <1>3, AwaitStep
<1>4. CASE Release \/ Closed
  BY <1>4, ReleaseStep
<1>5. ASSUME NEW w \in Enabled,
             Connect(w) \/ CycleEnds(w) \/ Wakes(w) \/ ConsumerCloses(w) \/ CancelArrives(w)
      PROVE  LifecycleInv'
  BY <1>5, WorkersMove, WorkerStep DEF LifecycleInv
<1> QED BY <1>1, <1>2, <1>3, <1>4, <1>5 DEF LifecycleNext

LEMMA LifecycleIsOrderly ==
  ASSUME LifecycleInv PROVE ShutdownIsOrderly
<1>0. Living \cap Over = {} /\ "none" \notin Living
  BY DEF Living, Over
<1>1. ResourcesOutliveWorkers
  <2>1. ASSUME NEW w \in Enabled, task[w] \in Living, w \notin abandoned
        PROVE  Needs(w) \subseteq open
    <3>1. stage \notin {"releasing", "closed"} /\ task[w] # "none"
      BY <1>0, <2>1 DEF LifecycleInv, ClosingFits, Gone
    <3>2. open = Resource
      BY <2>1, <3>1 DEF LifecycleInv, StartedFits
    <3>3. Needs(w) \subseteq Resource
      BY DEF Needs, Resource, Resources
    <3> QED BY <3>2, <3>3
  <2> QED BY <2>1 DEF ResourcesOutliveWorkers
<1>2. NothingIsLeftBehind
  BY DEF LifecycleInv, LifecycleTypeOK, ClosingFits, Gone, NothingIsLeftBehind
<1>3. NoSilentDeath
  BY DEF LifecycleInv, StartedFits, NoSilentDeath
<1> QED BY <1>1, <1>2, <1>3 DEF ShutdownIsOrderly

\* Shutdown, of a started or of a half started process, keeps its order: whatever workers
\* are switched on, and however they end.
THEOREM ShutdownAlwaysOrderly ==
  LifecycleInit /\ [][LifecycleNext]_lifecycleVars => [](LifecycleTypeOK /\ ShutdownIsOrderly)
<1>1. LifecycleInit => LifecycleInv
  BY LifecycleBegins
<1>2. LifecycleInv /\ [LifecycleNext]_lifecycleVars => LifecycleInv'
  BY LifecycleSteps
<1>3. LifecycleInv => LifecycleTypeOK /\ ShutdownIsOrderly
  BY LifecycleIsOrderly DEF LifecycleInv
<1> QED BY <1>1, <1>2, <1>3, PTL

----------------------------------------------------------------------------
(* Readiness.  A probe that asks the database holds the lock, and not for longer *)
(* than it may, so a stored result is of lately.                                *)

\* A probe is under way while its request holds the lock, and not for longer than it may be.
ProbeFits(p) ==
  /\ probe[p] \in {"sent", "answered"} <=> probeLock = p
  /\ probeLock = p => sentAt[p] \in 0..instant /\ instant <= sentAt[p] + ProbeTimeout
  /\ probe[p] = "answered" => sentAt[p] <= lastSeen
  /\ probe[p] = "ready" => lastSeen # Never /\ instant - lastSeen <= CacheTtl + ProbeTimeout

\* A result that says the database is up was stored soon after it answered.
CacheFits ==
  /\ lastSeen <= instant /\ checkedAt <= instant
  /\ cached = "up" => lastSeen # Never /\ checkedAt - lastSeen <= ProbeTimeout
  /\ runtime = "closed" => workerDown

ReadinessInv == ReadinessTypeOK /\ CacheFits /\ \A p \in Prober : ProbeFits(p)
----------------------------------------------------------------------------
LEMMA ReadinessBegins ==
  ASSUME ReadinessInit PROVE ReadinessInv
<1>1. ReadinessTypeOK
  <2>1. /\ -1 \in -1..LastInstant /\ 0 \in 0..LastInstant
    BY ReadinessAssumption
  <2>2. workerDown \in BOOLEAN /\ database \in BOOLEAN
    BY DEF ReadinessInit
  <2> QED BY <2>1, <2>2 DEF ReadinessInit, ReadinessTypeOK, Never
<1>2. CacheFits
  BY DEF ReadinessInit, CacheFits, Never
<1>3. ASSUME NEW p \in Prober PROVE ProbeFits(p)
  BY <1>3, ReadinessAssumption DEF ReadinessInit, ProbeFits, Never
<1> QED BY <1>1, <1>2, <1>3 DEF ReadinessInv

LEMMA FreshMeansSeen ==
  ASSUME ReadinessInv, CacheIsFresh, cached = "up"
  PROVE  lastSeen # Never /\ instant - lastSeen <= CacheTtl + ProbeTimeout
BY ReadinessAssumption DEF ReadinessInv, ReadinessTypeOK, CacheFits, CacheIsFresh, Never

LEMMA ReadinessSteps ==
  ASSUME ReadinessInv, [ReadinessNext]_readinessVars PROVE ReadinessInv'
<1> USE ReadinessAssumption DEF ReadinessInv
<1>1. CASE UNCHANGED readinessVars
  BY <1>1 DEF readinessVars, ReadinessTypeOK, CacheFits, ProbeFits
<1>2. CASE RuntimeStarts
  BY <1>2 DEF RuntimeStarts, ReadinessTypeOK, CacheFits, ProbeFits, Never
<1>3. CASE RuntimeCloses
  BY <1>3 DEF RuntimeCloses, ReadinessTypeOK, CacheFits, ProbeFits
<1>4. CASE WorkerGoes
  BY <1>4 DEF WorkerGoes, ReadinessTypeOK, CacheFits, ProbeFits
<1>5. CASE DatabaseFlips
  BY <1>5 DEF DatabaseFlips, ReadinessTypeOK, CacheFits, ProbeFits
<1>6. CASE TimePasses
  <2>1. ReadinessTypeOK' /\ CacheFits'
    BY <1>6 DEF TimePasses, ReadinessTypeOK, CacheFits, Never
  <2>2. ASSUME NEW p \in Prober PROVE ProbeFits(p)'
    BY <1>6, <2>2 DEF TimePasses, ReadinessTypeOK, ProbeFits, Never
  <2> QED BY <2>1, <2>2
<1>7. ASSUME NEW p \in Prober, CheckReadiness(p) PROVE ReadinessInv'
  <2>1. PICK at \in {"not_ready", "ready", "waiting"} :
          /\ probe' = [probe EXCEPT ![p] = at] /\ probe[p] = "idle"
          /\ at = "ready" => CacheIsFresh /\ cached = "up"
    BY <1>7 DEF CheckReadiness, Verdict
  <2>2. ReadinessTypeOK' /\ CacheFits'
    BY <1>7, <2>1 DEF CheckReadiness, ReadinessTypeOK, CacheFits
  <2>3. ASSUME NEW q \in Prober PROVE ProbeFits(q)'
    BY <1>7, <2>1, <2>3, FreshMeansSeen DEF CheckReadiness, ReadinessTypeOK, ProbeFits
  <2> QED BY <2>2, <2>3
<1>8. ASSUME NEW p \in Prober, TakeTurn(p) PROVE ReadinessInv'
  <2>1. CASE CacheIsFresh
    <3>1. PICK at \in {"not_ready", "ready"} :
            /\ probe' = [probe EXCEPT ![p] = at] /\ probe[p] = "waiting"
            /\ at = "ready" => cached = "up"
      BY <1>8, <2>1 DEF TakeTurn, Verdict
    <3>2. ReadinessTypeOK' /\ CacheFits'
      BY <1>8, <2>1, <3>1 DEF TakeTurn, ReadinessTypeOK, CacheFits
    <3>3. ASSUME NEW q \in Prober PROVE ProbeFits(q)'
      BY <1>8, <2>1, <3>1, <3>3, FreshMeansSeen DEF TakeTurn, ReadinessTypeOK, ProbeFits
    <3> QED BY <3>2, <3>3
  <2>2. CASE ~CacheIsFresh
    <3>1. ReadinessTypeOK' /\ CacheFits'
      BY <1>8, <2>2 DEF TakeTurn, ReadinessTypeOK, CacheFits, Never
    <3>2. ASSUME NEW q \in Prober PROVE ProbeFits(q)'
      BY <1>8, <2>2, <3>2 DEF TakeTurn, ReadinessTypeOK, ProbeFits, Never
    <3> QED BY <3>1, <3>2
  <2> QED BY <2>1, <2>2
<1>9. ASSUME NEW p \in Prober, DatabaseAnswers(p) PROVE ReadinessInv'
  <2>1. ReadinessTypeOK' /\ CacheFits'
    BY <1>9 DEF DatabaseAnswers, ReadinessTypeOK, CacheFits, Never
  <2>2. ASSUME NEW q \in Prober PROVE ProbeFits(q)'
    BY <1>9, <2>2 DEF DatabaseAnswers, ReadinessTypeOK, ProbeFits, CacheFits, Never
  <2> QED BY <2>1, <2>2
<1>10. ASSUME NEW p \in Prober, ProbeEnds(p) PROVE ReadinessInv'
  <2>1. PICK up \in BOOLEAN :
          /\ IF up THEN probe[p] = "answered" ELSE probe[p] \in {"sent", "answered"}
          /\ cached' = IF up THEN "up" ELSE "down"
          /\ probe' = [probe EXCEPT ![p] = Verdict(up)]
    BY <1>10 DEF ProbeEnds
  <2>2. Verdict(up) \in {"ready", "not_ready"} /\ (Verdict(up) = "ready" => up)
    BY DEF Verdict
  <2>3. probeLock = p
    BY <2>1 DEF ProbeFits
  <2>4. up => lastSeen # Never /\ instant - lastSeen <= ProbeTimeout
    BY <2>1, <2>3 DEF ProbeFits, ReadinessTypeOK, Never
  <2>5. ReadinessTypeOK' /\ CacheFits'
    BY <1>10, <2>1, <2>2, <2>4 DEF ProbeEnds, ReadinessTypeOK, CacheFits, Never
  <2>6. ASSUME NEW q \in Prober PROVE ProbeFits(q)'
    BY <1>10, <2>1, <2>2, <2>3, <2>4, <2>6 DEF ProbeEnds, ReadinessTypeOK, ProbeFits, Never
  <2> QED BY <2>5, <2>6
<1>11. ASSUME NEW p \in Prober, ClientGone(p) PROVE ReadinessInv'
  <2>1. ReadinessTypeOK' /\ CacheFits'
    BY <1>11 DEF ClientGone, ReadinessTypeOK, CacheFits, Never
  <2>2. ASSUME NEW q \in Prober PROVE ProbeFits(q)'
    BY <1>11, <2>2 DEF ClientGone, ReadinessTypeOK, ProbeFits, Never
  <2> QED BY <2>1, <2>2
<1>12. ASSUME NEW p \in Prober, Answered(p) PROVE ReadinessInv'
  <2>1. ReadinessTypeOK' /\ CacheFits'
    BY <1>12 DEF Answered, ReadinessTypeOK, CacheFits, Never
  <2>2. ASSUME NEW q \in Prober PROVE ProbeFits(q)'
    BY <1>12, <2>2 DEF Answered, ReadinessTypeOK, ProbeFits, Never
  <2> QED BY <2>1, <2>2
<1> QED BY <1>1, <1>2, <1>3, <1>4, <1>5, <1>6, <1>7, <1>8, <1>9, <1>10, <1>11, <1>12 DEF ReadinessNext

\* Queries are spaced, and nobody hears "ready" from a closed runtime.
LEMMA ProbesAreSpaced ==
  ASSUME ReadinessInv, [ReadinessNext]_readinessVars
  PROVE  /\ [\A p \in Prober :
               probe'[p] = "sent" /\ probe[p] # "sent" =>
                 /\ ~CacheIsFresh
                 /\ \A q \in Prober : probe[q] \notin {"sent", "answered"}]_readinessVars
         /\ [\A p \in Prober :
               probe'[p] = "ready" /\ probe[p] # "ready" => runtime # "closed"]_readinessVars
<1> SUFFICES ASSUME ReadinessNext, NEW p \in Prober
             PROVE  /\ probe'[p] = "sent" /\ probe[p] # "sent" =>
                         /\ ~CacheIsFresh
                         /\ \A q \in Prober : probe[q] \notin {"sent", "answered"}
                    /\ probe'[p] = "ready" /\ probe[p] # "ready" => runtime # "closed"
  OBVIOUS
<1>0. probe \in [Prober -> {"idle", "waiting", "sent", "answered", "ready", "not_ready"}]
      /\ (probeLock = NoProber => \A q \in Prober : probe[q] \notin {"sent", "answered"})
      /\ (runtime = "closed" => workerDown)
  BY ReadinessAssumption DEF ReadinessInv, ReadinessTypeOK, ProbeFits, CacheFits
<1>1. CASE probe' = probe
  BY <1>1
<1>2. ASSUME NEW q \in Prober,
             \/ CheckReadiness(q) \/ TakeTurn(q) \/ DatabaseAnswers(q) \/ ProbeEnds(q)
             \/ ClientGone(q) \/ Answered(q)
      PROVE  /\ probe'[p] = "sent" /\ probe[p] # "sent" =>
                  /\ ~CacheIsFresh
                  /\ \A r \in Prober : probe[r] \notin {"sent", "answered"}
             /\ probe'[p] = "ready" /\ probe[p] # "ready" => runtime # "closed"
  <2>1. CASE CheckReadiness(q)
    BY <1>0, <2>1 DEF CheckReadiness, Verdict
  <2>2. CASE TakeTurn(q)
    BY <1>0, <2>2 DEF TakeTurn, Verdict
  <2>3. CASE DatabaseAnswers(q)
    BY <1>0, <2>3 DEF DatabaseAnswers
  <2>4. CASE ProbeEnds(q)
    BY <1>0, <2>4 DEF ProbeEnds, Verdict
  <2>5. CASE ClientGone(q) \/ Answered(q)
    BY <1>0, <2>5 DEF ClientGone, Answered
  <2> QED BY <1>2, <2>1, <2>2, <2>3, <2>4, <2>5
<1>3. RuntimeStarts \/ RuntimeCloses \/ WorkerGoes \/ DatabaseFlips \/ TimePasses => probe' = probe
  BY DEF RuntimeStarts, RuntimeCloses, WorkerGoes, DatabaseFlips, TimePasses
<1> QED BY <1>1, <1>2, <1>3 DEF ReadinessNext

LEMMA ReadinessIsTrue ==
  ASSUME ReadinessInv PROVE ReadyMeansSeen
BY DEF ReadinessInv, ProbeFits, ReadyMeansSeen

\* Whoever hears "ready" has a database that answered lately, requests that find the
\* result too old cause one query, and a closed runtime is not ready: for any requests.
THEOREM ReadinessAlwaysTrue ==
  ReadinessInit /\ [][ReadinessNext]_readinessVars => []ReadyMeansSeen /\ ReadinessIsSpaced
<1> DEFINE Spaced ==
             \A p \in Prober :
               probe'[p] = "sent" /\ probe[p] # "sent" =>
                 /\ ~CacheIsFresh
                 /\ \A q \in Prober : probe[q] \notin {"sent", "answered"}
           Silent ==
             \A p \in Prober : probe'[p] = "ready" /\ probe[p] # "ready" => runtime # "closed"
<1>1. ReadinessInit => ReadinessInv
  BY ReadinessBegins
<1>2. ReadinessInv /\ [ReadinessNext]_readinessVars => ReadinessInv'
  BY ReadinessSteps
<1>3. ReadinessInv => ReadyMeansSeen
  BY ReadinessIsTrue
<1>4. ReadinessInv /\ [ReadinessNext]_readinessVars => [Spaced]_readinessVars /\ [Silent]_readinessVars
  BY ProbesAreSpaced
<1>5. ReadinessIsSpaced <=> [][Spaced]_readinessVars /\ [][Silent]_readinessVars
  BY DEF ReadinessIsSpaced, QueriesAreSpaced, ClosedIsNotReady
<1> HIDE DEF Spaced, Silent
<1> QED BY <1>1, <1>2, <1>3, <1>4, <1>5, PTL

----------------------------------------------------------------------------
(* Logins.  Documents of keys that were fetched are right of every key but those *)
(* the provider changed since.                                                  *)

\* A document, of which it is known since when it may be out of date.
AsSince(document, since) ==
  \A k \in Kid : document[k] = provider.of[k] \/ provider.changed[k] >= since

KeysFit ==
  /\ provider \in [of : [Kid -> Algorithm \cup {NoKeyThere, "weak"}], changed : [Kid -> Int],
                   rotations : Int]
  /\ keys \in [of : [Kid -> Algorithm \cup {NoKeyThere}], began : Int, ended : Int]
  /\ missing \in [Kid -> Int] /\ blockedUntil \in Int /\ authOpen \in BOOLEAN /\ beat \in 0..LastBeat
  /\ keys.began <= keys.ended /\ keys.ended <= beat
  /\ AsSince(keys.of, keys.began)
  /\ blockedUntil <= keys.ended + UnknownWindow
  /\ BlockCoversMissing

LoginAt == {"idle", "waiting", "fetching", "reading", "ended"}
LoginTold == {"nothing", "accepted", "unknown", "unavailable", "invalid", "cancelled"}
Document == [Kid -> Algorithm \cup {NoKeyThere, "weak"}]
LoginRow(T) ==
  [token : T, at : LoginAt, told : LoginTold, document : Document, since : Int, fetched : Int,
   when : Int]

\* What a login was told follows from the document it was told by.
LoginFits(x) ==
  /\ x.since <= beat
  /\ x.at # "ended" => x.told = "nothing"
  /\ x.at = "reading" => AsSince(x.document, x.since)
  /\ x.told = "accepted" =>
       /\ provider.of[x.token.kid] = x.token.alg \/ provider.changed[x.token.kid] >= x.since
       /\ x.when - x.fetched < KeysTtl
  /\ x.told = "unknown" =>
       /\ provider.of[x.token.kid] # x.token.alg \/ provider.changed[x.token.kid] >= x.since
       /\ x.when - x.fetched < UnknownWindow

QueueFits ==
  /\ lockQueue \in Seq(Login)
  /\ \A l \in Login :
       /\ login[l].at \in {"waiting", "fetching", "reading"} =>
            \E i \in 1..Len(lockQueue) : lockQueue[i] = l
       /\ login[l].at \in {"fetching", "reading"} => lockQueue[1] = l

SigningInv(T) ==
  /\ KeysFit /\ QueueFits
  /\ login \in [Login -> LoginRow(T)]
  /\ \A l \in Login : LoginFits(login[l])

SigningStart(T) ==
  /\ SigningInit
  /\ \E tokens \in [Login -> T] : Bearing(tokens)
----------------------------------------------------------------------------
LEMMA SigningNumbers ==
  KeysTtl \in Nat /\ KeysTtl > 0 /\ UnknownWindow \in Nat /\ UnknownWindow > 0 /\ LongAgo \in Int
  /\ LongAgo = -KeysTtl /\ LastBeat \in Nat
BY SigningAssumption DEF LongAgo

\* The row of login l as a whole.
LoginBecomes(l, x) == login' = [login EXCEPT ![l] = x]
EndedRow(x, told, since, fetched, when) ==
  [token |-> x.token, at |-> "ended", told |-> told, document |-> NoKeys, since |-> since,
   fetched |-> fetched, when |-> when]

LEMMA NoKeysFits == NoKeys \in Document /\ NoKeys \in [Kid -> Algorithm \cup {NoKeyThere}]
BY DEF NoKeys, Document

LEMMA TellBecomes ==
  ASSUME NEW T, login \in [Login -> LoginRow(T)], NEW l \in Login, NEW told, TellLogin(l, told)
  PROVE  LoginBecomes(l, EndedRow(login[l], told, keys.began, keys.ended, beat))
<1>0. PICK x \in [token : T, at : LoginAt, told : LoginTold, document : Document, since : Int,
               fetched : Int, when : Int] : x = login[l]
  BY DEF LoginRow
<1>1. PICK y : y = [x EXCEPT !.at = "ended", !.told = told, !.since = keys.began,
                             !.fetched = keys.ended, !.when = beat, !.document = NoKeys]
  OBVIOUS
<1>2. y = EndedRow(x, told, keys.began, keys.ended, beat)
  BY <1>1 DEF EndedRow
<1>3. login' = [login EXCEPT ![l] = y]
  BY <1>0, <1>1 DEF TellLogin
<1> QED BY <1>0, <1>2, <1>3 DEF LoginBecomes

LEMMA GiveUpBecomes ==
  ASSUME NEW T, login \in [Login -> LoginRow(T)], NEW l \in Login, NEW told, GiveUp(l, told)
  PROVE  LoginBecomes(l, EndedRow(login[l], told, LongAgo, login[l].fetched, login[l].when))
<1>0. PICK x \in [token : T, at : LoginAt, told : LoginTold, document : Document, since : Int,
               fetched : Int, when : Int] : x = login[l]
  BY DEF LoginRow
<1>1. PICK y : y = [x EXCEPT !.at = "ended", !.told = told, !.since = LongAgo, !.document = NoKeys]
  OBVIOUS
<1>2. y = EndedRow(x, told, LongAgo, x.fetched, x.when)
  BY <1>1 DEF EndedRow
<1>3. login' = [login EXCEPT ![l] = y]
  BY <1>0, <1>1 DEF GiveUp
<1> QED BY <1>0, <1>2, <1>3 DEF LoginBecomes

\* One login's row changes.
LEMMA OneLoginMoves ==
  ASSUME NEW T, login \in [Login -> LoginRow(T)], NEW l \in Login, NEW x \in LoginRow(T),
         LoginBecomes(l, x)
  PROVE  /\ login' \in [Login -> LoginRow(T)] /\ login'[l] = x
         /\ \A m \in Login \ {l} : login'[m] = login[m]
BY DEF LoginBecomes

LEMMA EndedFields ==
  ASSUME NEW T, NEW x \in LoginRow(T), NEW told \in LoginTold, NEW since \in Int,
         NEW fetched \in Int, NEW when \in Int
  PROVE  /\ EndedRow(x, told, since, fetched, when) \in LoginRow(T)
         /\ EndedRow(x, told, since, fetched, when).token = x.token
         /\ EndedRow(x, told, since, fetched, when).at = "ended"
         /\ EndedRow(x, told, since, fetched, when).told = told
         /\ EndedRow(x, told, since, fetched, when).since = since
         /\ EndedRow(x, told, since, fetched, when).fetched = fetched
         /\ EndedRow(x, told, since, fetched, when).when = when
<1>1. "ended" \in LoginAt
  BY DEF LoginAt
<1> QED BY <1>1, NoKeysFits DEF EndedRow, LoginRow
----------------------------------------------------------------------------
\* The queue at the lock.
LEMMA QueueShrinks ==
  ASSUME lockQueue \in Seq(Login), NEW l \in Login, LeaveQueue(l)
  PROVE  /\ lockQueue' \in Seq(Login)
         /\ \A m \in Login \ {l} :
              /\ (\E i \in 1..Len(lockQueue) : lockQueue[i] = m)
                   => \E i \in 1..Len(lockQueue') : lockQueue'[i] = m
              /\ Len(lockQueue) > 0 /\ lockQueue[1] = m => lockQueue'[1] = m
<1>1. PICK n \in 1..Len(lockQueue) :
        /\ lockQueue[n] = l
        /\ lockQueue' = [j \in 1..(Len(lockQueue) - 1) |-> lockQueue[IF j < n THEN j ELSE j + 1]]
  BY DEF LeaveQueue
<1>2. \A j \in 1..(Len(lockQueue) - 1) :
        (IF j < n THEN j ELSE j + 1) \in 1..Len(lockQueue)
  OBVIOUS
<1>3. \A j \in 1..(Len(lockQueue) - 1) : lockQueue'[j] \in Login
  BY <1>1, <1>2
<1>4. /\ lockQueue' \in Seq(Login) /\ Len(lockQueue') = Len(lockQueue) - 1
  <2>1. Len(lockQueue) - 1 \in Nat
    OBVIOUS
  <2>2. lockQueue' \in [1..(Len(lockQueue) - 1) -> Login]
    BY <1>1, <1>3
  <2> QED BY <2>1, <2>2
<1>5. ASSUME NEW m \in Login \ {l}, NEW i \in 1..Len(lockQueue), lockQueue[i] = m
      PROVE  /\ \E j \in 1..Len(lockQueue') : lockQueue'[j] = m
             /\ i = 1 => lockQueue'[1] = m
  <2>1. i # n
    BY <1>1, <1>5
  <2>2. CASE i < n
    <3>1. i \in 1..(Len(lockQueue) - 1) /\ lockQueue'[i] = m
      BY <1>1, <1>5, <2>2
    <3> QED BY <1>4, <3>1
  <2>3. CASE i > n
    <3>1. i - 1 \in 1..(Len(lockQueue) - 1) /\ ~(i - 1 < n) /\ (i - 1) + 1 = i
      BY <1>1, <1>5, <2>3
    <3>2. lockQueue'[i - 1] = m /\ i # 1
      BY <1>1, <1>5, <3>1, <2>3
    <3> QED BY <1>4, <3>1, <3>2
  <2> QED BY <2>1, <2>2, <2>3
<1> QED BY <1>4, <1>5

\* A login that ends leaves the queue of the others as it was, or leaves it.
LEMMA QueueGoesOn ==
  ASSUME NEW T, SigningInv(T), NEW l \in Login, NEW x \in LoginRow(T), LoginBecomes(l, x),
         x.at = "ended", UNCHANGED lockQueue \/ LeaveQueue(l)
  PROVE  QueueFits'
<1>0. /\ login'[l] = x /\ \A m \in Login \ {l} : login'[m] = login[m]
      /\ lockQueue \in Seq(Login)
  BY OneLoginMoves DEF SigningInv, QueueFits
<1>1. lockQueue' \in Seq(Login)
  BY <1>0, QueueShrinks
<1>2. ASSUME NEW m \in Login \ {l}
      PROVE  /\ (\E i \in 1..Len(lockQueue) : lockQueue[i] = m)
                   => \E i \in 1..Len(lockQueue') : lockQueue'[i] = m
             /\ Len(lockQueue) > 0 /\ lockQueue[1] = m => lockQueue'[1] = m
  BY <1>0, QueueShrinks
<1>3. ASSUME NEW m \in Login
      PROVE  /\ login'[m].at \in {"waiting", "fetching", "reading"} =>
                   \E i \in 1..Len(lockQueue') : lockQueue'[i] = m
             /\ login'[m].at \in {"fetching", "reading"} => lockQueue'[1] = m
  <2>1. CASE m = l
    BY <1>0, <2>1
  <2>2. CASE m # l
    <3>1. login[m].at \in {"waiting", "fetching", "reading"} => Len(lockQueue) > 0
      BY <1>0 DEF SigningInv, QueueFits
    <3> QED BY <1>0, <1>2, <2>2, <3>1 DEF SigningInv, QueueFits
  <2> QED BY <2>1, <2>2
<1> QED BY <1>1, <1>3 DEF QueueFits

\* The others keep what they were told.
LEMMA OtherLoginsFit ==
  ASSUME NEW T, SigningInv(T), NEW l \in Login, NEW x \in LoginRow(T), LoginBecomes(l, x),
         UNCHANGED <<provider, beat>>, LoginFits(x)
  PROVE  \A m \in Login : LoginFits(login[m])'
<1>0. /\ login'[l] = x /\ \A m \in Login \ {l} : login'[m] = login[m]
  BY OneLoginMoves DEF SigningInv
<1>1. ASSUME NEW m \in Login PROVE LoginFits(login[m])'
  <2>1. PICK y : y = login'[m]
    OBVIOUS
  <2>2. LoginFits(y)
    BY <1>0, <2>1 DEF SigningInv
  <2>3. LoginFits(y) => LoginFits(login[m])'
    BY <2>1 DEF LoginFits, AsSince
  <2> QED BY <2>2, <2>3
<1> QED BY <1>1

\* What a login is told at once, from the document in use.
LEMMA ToldFits ==
  ASSUME NEW T, SigningInv(T), BearerAsks(T), NEW l \in Login,
         NEW told \in LoginTold,
         told = "accepted" => Cached(login[l].token),
         told = "unknown" => ~Cached(login[l].token) /\ KnownMissing(login[l].token)
  PROVE  LoginFits(EndedRow(login[l], told, keys.began, keys.ended, beat))
<1> DEFINE x == EndedRow(login[l], told, keys.began, keys.ended, beat)
<1>0. login[l] \in LoginRow(T) /\ KeysFit
  BY DEF SigningInv
<1>1. /\ keys.began \in Int /\ keys.ended \in Int /\ beat \in Int
      /\ keys.began <= keys.ended /\ keys.ended <= beat /\ blockedUntil \in Int
      /\ missing \in [Kid -> Int]
  BY <1>0 DEF KeysFit
<1>2. /\ x.token = login[l].token /\ x.at = "ended" /\ x.told = told /\ x.since = keys.began
      /\ x.fetched = keys.ended /\ x.when = beat
  BY DEF EndedRow
<1>3. login[l].token \in T
  BY <1>0 DEF LoginRow
<1>4. PICK k \in Kid : k = login[l].token.kid
  BY <1>3 DEF BearerAsks
<1>5. keys.of[k] = provider.of[k] \/ provider.changed[k] >= keys.began
  BY <1>0, <1>4 DEF KeysFit, AsSince
<1>6. told = "unknown" => beat - keys.ended < UnknownWindow
  <2>1. told = "unknown" => beat < blockedUntil \/ beat < missing[k]
    BY <1>4 DEF KnownMissing
  <2>2. missing[k] > beat => missing[k] <= blockedUntil
    BY <1>0, <1>4 DEF KeysFit, BlockCoversMissing
  <2>3. blockedUntil <= keys.ended + UnknownWindow
    BY <1>0 DEF KeysFit
  <2>4. missing[k] \in Int
    BY <1>1, <1>4
  <2> QED BY <1>1, <2>1, <2>2, <2>3, <2>4, SigningNumbers
<1>7. told = "accepted" =>
        /\ provider.of[k] = login[l].token.alg \/ provider.changed[k] >= keys.began
        /\ beat - keys.ended < KeysTtl
  BY <1>4, <1>5 DEF Cached, KeysAreFresh
<1>8. told = "unknown" => provider.of[k] # login[l].token.alg \/ provider.changed[k] >= keys.began
  BY <1>4, <1>5 DEF Cached, KnownMissing
<1> HIDE DEF x
<1>9. LoginFits(x)
  BY <1>1, <1>2, <1>4, <1>6, <1>7, <1>8 DEF LoginFits
<1> QED BY <1>9 DEF x

\* A login ends without a change to the document in use.
LEMMA LoginEnds ==
  ASSUME NEW T, SigningInv(T), NEW l \in Login, NEW x \in LoginRow(T), LoginBecomes(l, x),
         x.at = "ended", LoginFits(x), UNCHANGED lockQueue \/ LeaveQueue(l),
         UNCHANGED <<provider, keys, missing, blockedUntil, authOpen, beat>>
  PROVE  SigningInv(T)'
<1>1. KeysFit'
  BY DEF SigningInv, KeysFit, AsSince, BlockCoversMissing
<1>2. QueueFits'
  BY QueueGoesOn
<1>3. \A m \in Login : LoginFits(login[m])'
  BY OtherLoginsFit
<1>4. login' \in [Login -> LoginRow(T)]
  BY OneLoginMoves DEF SigningInv
<1> QED BY <1>1, <1>2, <1>3, <1>4 DEF SigningInv

LEMMA TellStep ==
  ASSUME NEW T, SigningInv(T), BearerAsks(T), NEW l \in Login, NEW told \in LoginTold,
         TellLogin(l, told), told = "accepted" => Cached(login[l].token),
         told = "unknown" => ~Cached(login[l].token) /\ KnownMissing(login[l].token),
         UNCHANGED lockQueue \/ LeaveQueue(l),
         UNCHANGED <<provider, keys, missing, blockedUntil, authOpen, beat>>
  PROVE  SigningInv(T)'
<1>1. PICK x : x = EndedRow(login[l], told, keys.began, keys.ended, beat)
  OBVIOUS
<1>2. /\ login[l] \in LoginRow(T) /\ keys.began \in Int /\ keys.ended \in Int /\ beat \in Int
  BY DEF SigningInv, KeysFit
<1>3. x \in LoginRow(T) /\ x.at = "ended"
  BY <1>1, <1>2, EndedFields
<1>4. LoginBecomes(l, x)
  BY <1>1, TellBecomes DEF SigningInv
<1>5. LoginFits(x)
  BY <1>1, ToldFits
<1> QED BY <1>3, <1>4, <1>5, LoginEnds

LEMMA GiveUpStep ==
  ASSUME NEW T, SigningInv(T), NEW l \in Login, NEW told \in LoginTold,
         GiveUp(l, told), told \notin {"accepted", "unknown"},
         UNCHANGED lockQueue \/ LeaveQueue(l),
         UNCHANGED <<provider, keys, missing, blockedUntil, authOpen, beat>>
  PROVE  SigningInv(T)'
<1>1. PICK x : x = EndedRow(login[l], told, LongAgo, login[l].fetched, login[l].when)
  OBVIOUS
<1>2. login[l] \in LoginRow(T) /\ login[l].fetched \in Int /\ login[l].when \in Int /\ beat \in Nat
  BY DEF SigningInv, KeysFit, LoginRow
<1>3. x \in LoginRow(T) /\ x.at = "ended" /\ x.told = told /\ x.since = LongAgo
  BY <1>1, <1>2, EndedFields, SigningNumbers
<1>4. LoginBecomes(l, x)
  BY <1>1, GiveUpBecomes DEF SigningInv
<1>5. LoginFits(x)
  BY <1>2, <1>3, SigningNumbers DEF LoginFits
<1> QED BY <1>3, <1>4, <1>5, LoginEnds

LEMMA TellWords ==
  /\ "accepted" \in LoginTold /\ "unknown" \in LoginTold /\ "unavailable" \in LoginTold
  /\ "invalid" \in LoginTold /\ "cancelled" \in LoginTold
BY DEF LoginTold

\* A login that goes on: it waits, sends its fetch or has its document.
LEMMA LoginGoesOn ==
  ASSUME NEW T, SigningInv(T), NEW l \in Login, NEW x \in LoginRow(T), LoginBecomes(l, x),
         LoginFits(x), x.at # "idle",
         \/ login[l].at \in {"waiting", "fetching", "reading"} /\ UNCHANGED lockQueue
              /\ (x.at \in {"fetching", "reading"} => lockQueue[1] = l)
         \/ x.at = "waiting" /\ lockQueue' = Append(lockQueue, l),
         UNCHANGED <<provider, keys, missing, blockedUntil, authOpen, beat>>
  PROVE  SigningInv(T)'
<1>0. /\ login'[l] = x /\ \A m \in Login \ {l} : login'[m] = login[m]
      /\ lockQueue \in Seq(Login)
  BY OneLoginMoves DEF SigningInv, QueueFits
<1>1. KeysFit'
  BY DEF SigningInv, KeysFit, AsSince, BlockCoversMissing
<1>2. QueueFits'
  <2>1. CASE login[l].at \in {"waiting", "fetching", "reading"} /\ UNCHANGED lockQueue
              /\ (x.at \in {"fetching", "reading"} => lockQueue[1] = l)
    BY <1>0, <2>1 DEF SigningInv, QueueFits
  <2>2. CASE x.at = "waiting" /\ lockQueue' = Append(lockQueue, l)
    <3>1. /\ lockQueue' \in Seq(Login) /\ Len(lockQueue') = Len(lockQueue) + 1
          /\ lockQueue'[Len(lockQueue) + 1] = l
          /\ \A i \in 1..Len(lockQueue) : lockQueue'[i] = lockQueue[i]
      BY <1>0, <2>2
    <3>2. \E i \in 1..Len(lockQueue') : lockQueue'[i] = l
      BY <1>0, <3>1
    <3>3. ASSUME NEW m \in Login \ {l}, login[m].at \in {"waiting", "fetching", "reading"}
          PROVE  /\ \E i \in 1..Len(lockQueue') : lockQueue'[i] = m
                 /\ login[m].at \in {"fetching", "reading"} => lockQueue'[1] = m
      <4>1. PICK i \in 1..Len(lockQueue) : lockQueue[i] = m
        BY <3>3 DEF SigningInv, QueueFits
      <4>2. i \in 1..Len(lockQueue') /\ lockQueue'[i] = m
        BY <1>0, <3>1, <4>1
      <4>3. 1 \in 1..Len(lockQueue)
        BY <1>0, <4>1
      <4> QED BY <3>1, <3>3, <4>2, <4>3 DEF SigningInv, QueueFits
    <3> QED BY <1>0, <2>2, <3>1, <3>2, <3>3 DEF QueueFits
  <2> QED BY <2>1, <2>2
<1>3. \A m \in Login : LoginFits(login[m])'
  BY OtherLoginsFit
<1>4. login' \in [Login -> LoginRow(T)]
  BY OneLoginMoves DEF SigningInv
<1> QED BY <1>1, <1>2, <1>3, <1>4 DEF SigningInv

LEMMA AuthenticateStep ==
  ASSUME NEW T, SigningInv(T), BearerAsks(T), NEW l \in Login, Authenticate(l)
  PROVE  SigningInv(T)'
<1>0. UNCHANGED <<provider, keys, missing, blockedUntil, authOpen, beat>> /\ login[l].at = "idle"
  BY DEF Authenticate
<1>1. CASE UNCHANGED lockQueue /\ (GiveUp(l, "unavailable") \/ GiveUp(l, "invalid"))
  BY <1>0, <1>1, GiveUpStep, TellWords
<1>2. CASE Cached(login[l].token) /\ TellLogin(l, "accepted") /\ UNCHANGED lockQueue
  BY <1>0, <1>2, TellStep, TellWords
<1>3. CASE /\ ~Cached(login[l].token) /\ KnownMissing(login[l].token)
           /\ TellLogin(l, "unknown") /\ UNCHANGED lockQueue
  BY <1>0, <1>3, TellStep, TellWords
<1>4. CASE login' = [login EXCEPT ![l].at = "waiting"] /\ lockQueue' = Append(lockQueue, l)
  <2>0. PICK x \in [token : T, at : LoginAt, told : LoginTold, document : Document, since : Int,
                    fetched : Int, when : Int] : x = login[l]
    BY DEF LoginRow, SigningInv
  <2>1. PICK y : y = [x EXCEPT !.at = "waiting"]
    OBVIOUS
  <2>2. y = [token |-> x.token, at |-> "waiting", told |-> x.told, document |-> x.document,
             since |-> x.since, fetched |-> x.fetched, when |-> x.when]
    BY <2>1
  <2>3. y \in LoginRow(T) /\ y.at = "waiting"
    <3>1. "waiting" \in LoginAt
      BY DEF LoginAt
    <3> QED BY <2>0, <2>2, <3>1 DEF LoginRow
  <2>4. LoginFits(y)
    <3>1. LoginFits(x)
      BY <2>0 DEF SigningInv
    <3>2. y.token = x.token /\ y.told = x.told /\ y.since = x.since /\ y.fetched = x.fetched /\ y.when = x.when
      BY <2>2
    <3>3. x.told = "nothing"
      BY <1>0, <2>0, <3>1 DEF LoginFits
    <3> QED BY <2>3, <3>1, <3>2, <3>3 DEF LoginFits
  <2>5. LoginBecomes(l, y)
    BY <1>4, <2>0, <2>1 DEF LoginBecomes
  <2> QED BY <1>0, <1>4, <2>3, <2>4, <2>5, LoginGoesOn
<1> QED BY <1>1, <1>2, <1>3, <1>4 DEF Authenticate

LEMMA UnderLockStep ==
  ASSUME NEW T, SigningInv(T), BearerAsks(T), NEW l \in Login, UnderLock(l)
  PROVE  SigningInv(T)'
<1>0. /\ UNCHANGED <<provider, keys, missing, blockedUntil, authOpen, beat>>
      /\ login[l].at = "waiting" /\ lockQueue[1] = l
  BY DEF UnderLock
<1>1. CASE GiveUp(l, "unavailable") /\ LeaveQueue(l)
  BY <1>0, <1>1, GiveUpStep, TellWords
<1>2. CASE Cached(login[l].token) /\ TellLogin(l, "accepted") /\ LeaveQueue(l)
  BY <1>0, <1>2, TellStep, TellWords
<1>3. CASE /\ ~Cached(login[l].token) /\ KnownMissing(login[l].token)
           /\ TellLogin(l, "unknown") /\ LeaveQueue(l)
  BY <1>0, <1>3, TellStep, TellWords
<1>4. CASE login' = [login EXCEPT ![l].at = "fetching", ![l].since = beat] /\ UNCHANGED lockQueue
  <2>0. PICK x \in [token : T, at : LoginAt, told : LoginTold, document : Document, since : Int,
                    fetched : Int, when : Int] : x = login[l]
    BY DEF LoginRow, SigningInv
  <2>6. x.told = "nothing"
    BY <1>0, <2>0 DEF SigningInv, LoginFits
  <2>1. PICK y : y = [x EXCEPT !.at = "fetching", !.since = beat]
    OBVIOUS
  <2>2. y = [token |-> x.token, at |-> "fetching", told |-> x.told, document |-> x.document,
             since |-> beat, fetched |-> x.fetched, when |-> x.when]
    BY <2>1
  <2>3. y \in LoginRow(T) /\ y.at = "fetching" /\ y.told = "nothing" /\ y.since = beat /\ beat \in Int
    <3>1. "fetching" \in LoginAt
      BY DEF LoginAt
    <3>2. beat \in Int
      BY DEF SigningInv, KeysFit
    <3> QED BY <2>0, <2>2, <2>6, <3>1, <3>2 DEF LoginRow
  <2>4. LoginFits(y)
    BY <2>3, SigningNumbers DEF LoginFits
  <2>5. LoginBecomes(l, y)
    BY <1>4, <2>0, <2>1 DEF LoginBecomes
  <2> QED BY <1>0, <1>4, <2>3, <2>4, <2>5, LoginGoesOn
<1> QED BY <1>1, <1>2, <1>3, <1>4 DEF UnderLock

LEMMA DocumentStep ==
  ASSUME NEW T, SigningInv(T), NEW l \in Login, DocumentAnswers(l)
  PROVE  SigningInv(T)'
<1>0. /\ UNCHANGED <<provider, keys, missing, blockedUntil, lockQueue, authOpen, beat>>
      /\ login[l].at = "fetching" /\ lockQueue[1] = l
  BY DEF DocumentAnswers, SigningInv, QueueFits
<1>1. PICK x \in [token : T, at : LoginAt, told : LoginTold, document : Document, since : Int,
                  fetched : Int, when : Int] : x = login[l]
  BY DEF LoginRow, SigningInv
<1>2. LoginFits(x) /\ x.told = "nothing" /\ provider.of \in Document
  BY <1>0, <1>1 DEF SigningInv, KeysFit, LoginFits, Document
<1>3. PICK y : y = [x EXCEPT !.at = "reading", !.document = provider.of]
  OBVIOUS
<1>4. y = [token |-> x.token, at |-> "reading", told |-> x.told, document |-> provider.of,
           since |-> x.since, fetched |-> x.fetched, when |-> x.when]
  BY <1>3
<1>5. /\ y \in LoginRow(T) /\ y.at = "reading" /\ y.told = "nothing" /\ y.since = x.since
      /\ y.document = provider.of
  <2>1. "reading" \in LoginAt
    BY DEF LoginAt
  <2> QED BY <1>1, <1>2, <1>4, <2>1 DEF LoginRow
<1>6. LoginFits(y)
  BY <1>2, <1>5 DEF LoginFits, AsSince
<1>7. LoginBecomes(l, y)
  BY <1>1, <1>3 DEF LoginBecomes, DocumentAnswers
<1> QED BY <1>0, <1>5, <1>6, <1>7, LoginGoesOn

\* The document becomes the one in use, or what it does not have is remembered.
LEMMA RefreshStep ==
  ASSUME NEW T, SigningInv(T), BearerAsks(T), NEW l \in Login, RefreshSucceeds(l)
  PROVE  SigningInv(T)'
<1>0. /\ UNCHANGED <<provider, authOpen, beat>> /\ login[l].at = "reading"
      /\ Readable(login[l].document) /\ LeaveQueue(l)
      /\ keys' = [of |-> login[l].document, began |-> login[l].since, ended |-> beat]
  BY DEF RefreshSucceeds
<1>1. PICK x \in [token : T, at : LoginAt, told : LoginTold, document : Document, since : Int,
                  fetched : Int, when : Int] : x = login[l]
  BY DEF LoginRow, SigningInv
<1>2. PICK k \in Kid : k = x.token.kid
  BY <1>1 DEF BearerAsks
<1>3. PICK found \in BOOLEAN : found <=> x.document[k] = x.token.alg
  <2>1. (x.document[k] = x.token.alg) \in BOOLEAN
    OBVIOUS
  <2> QED BY <2>1
<1>4. PICK told : told = IF found THEN "accepted" ELSE "unknown"
  OBVIOUS
<1>5. LoginFits(x) /\ AsSince(x.document, x.since) /\ x.since <= beat
  BY <1>0, <1>1 DEF SigningInv, LoginFits
<1>6. /\ beat \in Nat /\ blockedUntil \in Int /\ missing \in [Kid -> Int]
      /\ keys.ended \in Int /\ keys.ended <= beat /\ blockedUntil <= keys.ended + UnknownWindow
  BY DEF SigningInv, KeysFit
<1>7. LoginBecomes(l, EndedRow(x, told, x.since, beat, beat))
  <2>1. PICK y : y = [x EXCEPT !.at = "ended", !.fetched = beat, !.when = beat, !.document = NoKeys,
                              !.told = told]
    OBVIOUS
  <2>2. y = EndedRow(x, told, x.since, beat, beat)
    BY <2>1 DEF EndedRow
  <2>3. login' = [login EXCEPT ![l] = y]
    BY <1>1, <1>2, <1>3, <1>4, <2>1 DEF RefreshSucceeds
  <2> QED BY <2>2, <2>3 DEF LoginBecomes
<1>8. PICK y : y = EndedRow(x, told, x.since, beat, beat)
  OBVIOUS
<1>9. /\ y \in LoginRow(T) /\ y.at = "ended" /\ y.token = x.token /\ y.told = told
      /\ y.since = x.since /\ y.fetched = beat /\ y.when = beat
  <2>1. x \in LoginRow(T) /\ x.since \in Int /\ told \in LoginTold
    BY <1>1, <1>4 DEF LoginRow, LoginTold
  <2> QED BY <1>6, <1>8, <2>1, EndedFields
<1>10. LoginFits(y)
  <2>1. provider.of[k] = x.document[k] \/ provider.changed[k] >= x.since
    BY <1>5 DEF AsSince
  <2>2. beat - beat < KeysTtl /\ beat - beat < UnknownWindow
    BY <1>6, SigningNumbers
  <2> QED BY <1>2, <1>3, <1>4, <1>5, <1>9, <2>1, <2>2 DEF LoginFits
<1>11. KeysFit'
  <2>1. x.document \in [Kid -> Algorithm \cup {NoKeyThere}]
    BY <1>0, <1>1 DEF Readable, Document
  <2>2. keys' \in [of : [Kid -> Algorithm \cup {NoKeyThere}], began : Int, ended : Int]
    BY <1>0, <1>1, <1>6, <2>1
  <2>3. keys'.began = x.since /\ keys'.ended = beat /\ keys'.of = x.document
    BY <1>0, <1>1
  <2>4. /\ missing' \in [Kid -> Int] /\ blockedUntil' \in Int
        /\ blockedUntil' <= beat + UnknownWindow /\ blockedUntil <= blockedUntil'
        /\ \A j \in Kid : missing'[j] > beat => missing'[j] = missing[j] \/ missing'[j] <= blockedUntil'
    <3>1. Passed(missing) \in [Kid -> Int]
          /\ \A j \in Kid : Passed(missing)[j] > beat => Passed(missing)[j] = missing[j]
      BY <1>6 DEF Passed
    <3>2. CASE found
      <4>1. missing' = [Passed(missing) EXCEPT ![k] = 0] /\ blockedUntil' = blockedUntil
        BY <1>1, <1>2, <1>3, <3>2 DEF RefreshSucceeds
      <4> QED BY <1>6, <3>1, <4>1, SigningNumbers
    <3>3. CASE ~found
      <4>1. missing' = [Passed(missing) EXCEPT ![k] = beat + UnknownWindow]
            /\ blockedUntil' = beat + UnknownWindow
        BY <1>1, <1>2, <1>3, <3>3 DEF RefreshSucceeds
      <4> QED BY <1>6, <3>1, <4>1, SigningNumbers
    <3> QED BY <3>2, <3>3
  <2>5. BlockCoversMissing'
    <3>1. \A j \in Kid : missing[j] > beat => missing[j] <= blockedUntil
      BY DEF SigningInv, KeysFit, BlockCoversMissing
    <3> QED BY <1>0, <1>6, <2>4, <3>1 DEF BlockCoversMissing
  <2>6. AsSince(keys.of, keys.began)'
    BY <1>0, <1>5, <2>3 DEF AsSince
  <2> QED BY <1>0, <1>5, <1>6, <2>2, <2>3, <2>4, <2>5, <2>6 DEF SigningInv, KeysFit
<1>12. QueueFits'
  BY <1>0, <1>7, <1>8, <1>9, QueueGoesOn
<1>13. \A m \in Login : LoginFits(login[m])'
  BY <1>0, <1>7, <1>8, <1>9, <1>10, OtherLoginsFit
<1>14. login' \in [Login -> LoginRow(T)]
  BY <1>7, <1>8, <1>9, OneLoginMoves DEF SigningInv
<1> QED BY <1>11, <1>12, <1>13, <1>14 DEF SigningInv

\* The provider changes its keys: what was read of them is out of date from now on.
LEMMA RotatesStep ==
  ASSUME NEW T, SigningInv(T), BearerAsks(T), Rotates
  PROVE  SigningInv(T)'
<1>1. PICK k \in Kid, a \in Algorithm \cup {NoKeyThere, "weak"} :
        provider' = [of |-> [provider.of EXCEPT ![k] = a],
                     changed |-> [provider.changed EXCEPT ![k] = beat],
                     rotations |-> provider.rotations + 1]
  BY DEF Rotates
<1>2. UNCHANGED <<keys, missing, blockedUntil, login, lockQueue, authOpen, beat>>
  BY DEF Rotates
<1>3. beat \in Int
  BY DEF SigningInv, KeysFit
<1>4. /\ provider' \in [of : [Kid -> Algorithm \cup {NoKeyThere, "weak"}], changed : [Kid -> Int],
                         rotations : Int]
      /\ \A j \in Kid : /\ provider'.of[j] = provider.of[j] \/ provider'.changed[j] = beat
                        /\ provider'.changed[j] \in {provider.changed[j], beat}
  <2>1. /\ provider.of \in [Kid -> Algorithm \cup {NoKeyThere, "weak"}]
        /\ provider.changed \in [Kid -> Int] /\ provider.rotations \in Int
    BY DEF SigningInv, KeysFit
  <2>2. /\ provider'.of = [provider.of EXCEPT ![k] = a]
        /\ provider'.changed = [provider.changed EXCEPT ![k] = beat]
    BY <1>1
  <2>3. /\ provider'.of \in [Kid -> Algorithm \cup {NoKeyThere, "weak"}]
        /\ provider'.changed \in [Kid -> Int]
    BY <1>3, <2>1, <2>2
  <2> QED BY <1>1, <2>1, <2>2, <2>3
<1>5. ASSUME NEW d, NEW t, AsSince(d, t), t <= beat PROVE AsSince(d, t)'
  BY <1>4, <1>5 DEF AsSince
<1>6. KeysFit'
  <2>1. /\ keys.began <= keys.ended /\ keys.ended <= beat /\ keys.began \in Int /\ keys.ended \in Int
        /\ AsSince(keys.of, keys.began)
    BY DEF SigningInv, KeysFit
  <2>2. AsSince(keys.of, keys.began)'
    BY <1>2, <1>3, <1>4, <2>1 DEF AsSince
  <2> QED BY <1>2, <1>4, <2>2 DEF SigningInv, KeysFit, BlockCoversMissing
<1>7. ASSUME NEW l \in Login PROVE LoginFits(login[l])'
  <2>1. PICK x : x = login[l]
    OBVIOUS
  <2>2. LoginFits(x) /\ x.token.kid \in Kid
    BY <2>1 DEF SigningInv, LoginRow, BearerAsks
  <2>3. x = login'[l]
    BY <1>2, <2>1
  <2>4. LoginFits(x)'
    BY <1>2, <1>4, <2>2 DEF LoginFits, AsSince
  <2> QED BY <2>3, <2>4 DEF LoginFits, AsSince
<1>8. QueueFits'
  BY <1>2 DEF SigningInv, QueueFits
<1> QED BY <1>2, <1>6, <1>7, <1>8 DEF SigningInv

LEMMA SigningRest ==
  ASSUME NEW T, SigningInv(T), AuthenticatorCloses \/ BeatPasses \/ UNCHANGED signingVars
  PROVE  SigningInv(T)'
<1>1. /\ UNCHANGED <<provider, keys, missing, blockedUntil, login, lockQueue>>
      /\ beat' \in {beat, beat + 1} /\ beat' \in 0..LastBeat /\ authOpen' \in BOOLEAN
      /\ beat \in 0..LastBeat
  <2>0. beat \in 0..LastBeat /\ authOpen \in BOOLEAN
    BY DEF SigningInv, KeysFit
  <2>1. CASE AuthenticatorCloses
    BY <2>0, <2>1 DEF AuthenticatorCloses
  <2>2. CASE BeatPasses
    BY <2>0, <2>2, SigningNumbers DEF BeatPasses
  <2>3. CASE UNCHANGED signingVars
    BY <2>0, <2>3 DEF signingVars
  <2> QED BY <2>1, <2>2, <2>3
<1>2. KeysFit'
  <2>1. /\ keys.ended <= beat /\ keys.ended \in Int
        /\ \A k \in Kid : missing[k] \in Int
    BY DEF SigningInv, KeysFit
  <2>2. keys.ended <= beat'
    BY <1>1, <2>1
  <2>3. BlockCoversMissing'
    BY <1>1, <2>1 DEF SigningInv, KeysFit, BlockCoversMissing
  <2> QED BY <1>1, <2>2, <2>3 DEF SigningInv, KeysFit, AsSince
<1>3. ASSUME NEW l \in Login PROVE LoginFits(login[l])'
  <2>1. login[l].since <= beat /\ login[l].since \in Int
    BY DEF SigningInv, LoginFits, LoginRow
  <2>2. login[l].since <= beat'
    BY <1>1, <2>1
  <2> QED BY <1>1, <2>2 DEF SigningInv, LoginFits, AsSince
<1>4. QueueFits'
  BY <1>1 DEF SigningInv, QueueFits
<1> QED BY <1>1, <1>2, <1>3, <1>4 DEF SigningInv

LEMMA SigningSteps ==
  ASSUME NEW T, SigningInv(T), BearerAsks(T), [SigningNext]_signingVars
  PROVE  SigningInv(T)'
<1>1. ASSUME NEW l \in Login, RefreshFails(l) PROVE SigningInv(T)'
  BY <1>1, GiveUpStep, TellWords DEF RefreshFails
<1>2. ASSUME NEW l \in Login, LoginCancelled(l) PROVE SigningInv(T)'
  BY <1>2, GiveUpStep, TellWords DEF LoginCancelled
<1> QED BY <1>1, <1>2, AuthenticateStep, UnderLockStep, DocumentStep, RefreshStep, RotatesStep,
           SigningRest DEF SigningNext

LEMMA SigningBegins ==
  ASSUME NEW T, SigningStart(T), BearerAsks(T) PROVE SigningInv(T)
<1>1. PICK tokens \in [Login -> T] : Bearing(tokens)
  BY DEF SigningStart
<1>2. PICK k \in Kid, a \in Algorithm :
        provider = [of |-> [NoKeys EXCEPT ![k] = a], changed |-> [j \in Kid |-> LongAgo],
                    rotations |-> 0]
  BY DEF SigningStart, SigningInit
<1>3. /\ keys = [of |-> NoKeys, began |-> LongAgo, ended |-> LongAgo]
      /\ missing = [j \in Kid |-> 0] /\ blockedUntil = LongAgo
      /\ lockQueue = <<>> /\ authOpen = TRUE /\ beat = 0
  BY DEF SigningStart, SigningInit
<1>4. KeysFit
  <2>1. [NoKeys EXCEPT ![k] = a] \in [Kid -> Algorithm \cup {NoKeyThere, "weak"}]
    BY DEF NoKeys
  <2>2. provider \in [of : [Kid -> Algorithm \cup {NoKeyThere, "weak"}], changed : [Kid -> Int],
                      rotations : Int]
    BY <1>2, <2>1, SigningNumbers
  <2>3. /\ keys \in [of : [Kid -> Algorithm \cup {NoKeyThere}], began : Int, ended : Int]
        /\ keys.began = LongAgo /\ keys.ended = LongAgo
    BY <1>3, NoKeysFits, SigningNumbers
  <2>4. \A j \in Kid : provider.changed[j] = LongAgo
    BY <1>2
  <2>5. AsSince(keys.of, keys.began)
    BY <2>3, <2>4, SigningNumbers DEF AsSince
  <2>6. BlockCoversMissing /\ missing \in [Kid -> Int]
    BY <1>3 DEF BlockCoversMissing
  <2>7. blockedUntil <= keys.ended + UnknownWindow /\ keys.ended <= beat /\ keys.began <= keys.ended
    BY <1>3, <2>3, SigningNumbers
  <2>8. beat \in 0..LastBeat /\ blockedUntil \in Int /\ authOpen \in BOOLEAN
    BY <1>3, SigningNumbers, SigningAssumption
  <2> QED BY <2>2, <2>3, <2>5, <2>6, <2>7, <2>8 DEF KeysFit
<1>5. ASSUME NEW l \in Login
      PROVE  login[l] \in LoginRow(T) /\ LoginFits(login[l]) /\ login[l].at = "idle"
  <2>1. login[l] = [token |-> tokens[l], at |-> "idle", told |-> "nothing", document |-> NoKeys,
                    since |-> LongAgo, fetched |-> LongAgo, when |-> LongAgo]
    BY <1>1 DEF Bearing
  <2>2. "idle" \in LoginAt /\ "nothing" \in LoginTold
    BY DEF LoginAt, LoginTold
  <2>3. login[l] \in LoginRow(T)
    BY <2>1, <2>2, NoKeysFits, SigningNumbers DEF LoginRow
  <2> QED BY <1>3, <2>1, <2>3, SigningNumbers DEF LoginFits
<1>6. login \in [Login -> LoginRow(T)]
  BY <1>1, <1>5 DEF Bearing
<1>7. QueueFits
  BY <1>3, <1>5 DEF QueueFits
<1> QED BY <1>4, <1>5, <1>6, <1>7 DEF SigningInv

LEMMA LoginsKeepWord ==
  ASSUME NEW T, SigningInv(T), BearerAsks(T) PROVE LoginsAreSound /\ SigningTypeOK
<1>1. ASSUME NEW l \in Login PROVE LoginFits(login[l]) /\ login[l] \in LoginRow(T)
  BY DEF SigningInv
<1>2. AcceptedByRecentKeys /\ NewKeysAreFound
  BY <1>1 DEF AcceptedByRecentKeys, NewKeysAreFound, LoginFits, Told, At0
<1>3. OneLoginFetches /\ BlockCoversMissing
  BY DEF SigningInv, QueueFits, KeysFit, OneLoginFetches
<1>4. SigningTypeOK
  BY <1>1 DEF SigningInv, KeysFit, SigningTypeOK, LoginRow, LoginAt, LoginTold
<1> QED BY <1>2, <1>3, <1>4 DEF LoginsAreSound

\* Who is accepted has a key of the provider's, who is refused was looked for lately, and
\* one login fetches at a time: whatever the tokens, and however often keys change.
THEOREM LoginsAlwaysSound ==
  ASSUME NEW CONSTANT T, BearerAsks(T)
  PROVE  SigningStart(T) /\ [][SigningNext]_signingVars => [](SigningTypeOK /\ LoginsAreSound)
<1>1. SigningStart(T) => SigningInv(T)
  BY SigningBegins
<1>2. SigningInv(T) /\ [SigningNext]_signingVars => SigningInv(T)'
  BY SigningSteps
<1>3. SigningInv(T) => SigningTypeOK /\ LoginsAreSound
  BY LoginsKeepWord
<1> QED BY <1>1, <1>2, <1>3, PTL

----------------------------------------------------------------------------
(* Requests at the edge.  The windows of a source hold what was admitted of it since *)
(* they began; the gauge counts the requests inside.                            *)

\* Admissions a (the times of them) from lo on and before hi.
Slice(a, lo, hi) == {i \in 1..Len(a) : lo <= a[i] /\ a[i] < hi}

LEMMA EdgeNumbers ==
  /\ Quota \in Nat /\ Quota > 0 /\ WindowLength \in Nat /\ WindowLength > 0
  /\ MaxWindows \in Nat /\ MaxWindows > 0 /\ LastSecond \in Nat
BY EdgeAssumption

LEMMA SliceIsFinite ==
  ASSUME NEW a, Len(a) \in Nat, NEW lo, NEW hi
  PROVE  /\ IsFiniteSet(Slice(a, lo, hi)) /\ Cardinality(Slice(a, lo, hi)) \in Nat
         /\ Cardinality(Slice(a, lo, hi)) <= Len(a)
<1>1. IsFiniteSet(1..Len(a)) /\ Cardinality(1..Len(a)) = Len(a)
  <2>1. PICK n \in Nat : n = Len(a)
    OBVIOUS
  <2>2. IsFiniteSet(1..n) /\ Cardinality(1..n) = IF 1 > n THEN 0 ELSE n - 1 + 1
    BY FS_Interval
  <2> QED BY <2>1, <2>2
<1>2. Slice(a, lo, hi) \in SUBSET (1..Len(a))
  BY DEF Slice
<1> QED BY <1>1, <1>2, FS_Subset, FS_CardinalityType

LEMMA SliceGrows ==
  ASSUME NEW a \in Seq(Nat), NEW t \in Nat, NEW lo \in Nat, NEW hi \in Nat
  PROVE  Cardinality(Slice(Append(a, t), lo, hi))
           = Cardinality(Slice(a, lo, hi)) + (IF lo <= t /\ t < hi THEN 1 ELSE 0)
<1>1. /\ Len(Append(a, t)) = Len(a) + 1 /\ Len(a) \in Nat /\ Append(a, t)[Len(a) + 1] = t
      /\ \A i \in 1..Len(a) : Append(a, t)[i] = a[i]
  OBVIOUS
<1>2. Slice(Append(a, t), lo, hi)
        = Slice(a, lo, hi) \cup (IF lo <= t /\ t < hi THEN {Len(a) + 1} ELSE {})
  BY <1>1 DEF Slice
<1>3. Len(a) + 1 \notin Slice(a, lo, hi)
  BY <1>1 DEF Slice
<1>4. IsFiniteSet(Slice(a, lo, hi)) /\ Cardinality(Slice(a, lo, hi)) \in Nat
  BY <1>1, SliceIsFinite
<1>5. CASE lo <= t /\ t < hi
  <2>1. Slice(Append(a, t), lo, hi) = Slice(a, lo, hi) \cup {Len(a) + 1}
    BY <1>2, <1>5
  <2> QED BY <1>3, <1>4, <1>5, <2>1, FS_AddElement
<1>6. CASE ~(lo <= t /\ t < hi)
  <2>1. Slice(Append(a, t), lo, hi) = Slice(a, lo, hi)
    BY <1>2, <1>6
  <2> QED BY <1>4, <1>6, <2>1
<1> QED BY <1>5, <1>6

LEMMA SliceInside ==
  ASSUME NEW a \in Seq(Nat), NEW lo, NEW hi, NEW from, NEW to,
         \A i \in 1..Len(a) : lo <= a[i] /\ a[i] < hi => from <= a[i] /\ a[i] < to
  PROVE  Cardinality(Slice(a, lo, hi)) <= Cardinality(Slice(a, from, to))
<1>1. Slice(a, lo, hi) \in SUBSET Slice(a, from, to)
  BY DEF Slice
<1>2. IsFiniteSet(Slice(a, from, to))
  BY SliceIsFinite
<1> QED BY <1>1, <1>2, FS_Subset

LEMMA SliceSplits ==
  ASSUME NEW a \in Seq(Nat), NEW lo \in Nat, NEW at \in Nat, NEW hi \in Nat, NEW to \in Nat,
         \A i \in 1..Len(a) : lo <= a[i] /\ a[i] < hi /\ at <= a[i] => a[i] < to
  PROVE  Cardinality(Slice(a, lo, hi)) <= Cardinality(Slice(a, lo, at)) + Cardinality(Slice(a, at, to))
<1>1. Slice(a, lo, hi) \in SUBSET (Slice(a, lo, at) \cup Slice(a, at, to))
  <2>1. ASSUME NEW i \in Slice(a, lo, hi) PROVE i \in Slice(a, lo, at) \cup Slice(a, at, to)
    <3>1. i \in 1..Len(a) /\ lo <= a[i] /\ a[i] < hi /\ a[i] \in Nat
      BY <2>1 DEF Slice
    <3>2. CASE a[i] < at
      BY <3>1, <3>2 DEF Slice
    <3>3. CASE at <= a[i]
      BY <3>1, <3>3 DEF Slice
    <3> QED BY <3>1, <3>2, <3>3
  <2> QED BY <2>1
<1>2. /\ IsFiniteSet(Slice(a, lo, at)) /\ IsFiniteSet(Slice(a, at, to)) /\ IsFiniteSet(Slice(a, lo, hi))
      /\ Cardinality(Slice(a, lo, at)) \in Nat /\ Cardinality(Slice(a, at, to)) \in Nat
      /\ Cardinality(Slice(a, lo, hi)) \in Nat
  BY SliceIsFinite
<1> DEFINE X == Slice(a, lo, at)
           Y == Slice(a, at, to)
<1>3. /\ IsFiniteSet(X \cup Y) /\ Cardinality(X \cup Y) = Cardinality(X) + Cardinality(Y) - Cardinality(X \cap Y)
      /\ Cardinality(X \cap Y) \in Nat
  BY <1>2, FS_Union, FS_Intersection, FS_CardinalityType
<1>4. Cardinality(Slice(a, lo, hi)) <= Cardinality(X \cup Y)
  BY <1>1, <1>3, FS_Subset
<1>5. Cardinality(X \cup Y) \in Nat
  BY <1>3, FS_CardinalityType
<1> HIDE DEF X, Y
<1>6. Cardinality(Slice(a, lo, hi)) <= Cardinality(X) + Cardinality(Y)
  <2>1. Cardinality(X) \in Nat /\ Cardinality(Y) \in Nat
    BY <1>2 DEF X, Y
  <2> QED BY <1>2, <1>3, <1>4, <1>5, <2>1
<1> QED BY <1>6 DEF X, Y

----------------------------------------------------------------------------
VisitAt == {"outside", "checking", "inside", "handling", "answering", "ended"}
VisitClass == Classes \cup {"none"}
VisitRow == [source : Source, path : Paths, at : VisitAt, class : VisitClass, refused : BOOLEAN]
WindowRow == [source : Source, started : Nat, count : Nat]

\* Whom the gauge and the counter count.
BeingServed == {v \in Visit : Measured(v) /\ visit[v].at \notin {"outside", "ended"}}
ServedAs(c) == {v \in Visit : Measured(v) /\ visit[v].at = "ended" /\ visit[v].class = c}

EdgeTyped ==
  /\ visit \in [Visit -> VisitRow]
  /\ windows \in Seq(WindowRow) /\ Len(windows) <= MaxWindows
  /\ inProgress \in Nat /\ answered \in [Classes -> Nat]
  /\ serving \in {"starting", "up", "stopped"} /\ second \in 0..LastSecond
  /\ admitted \in [Source -> Seq(Nat)]

VisitsFit ==
  /\ \A v \in Visit : visit[v].at = "answering" => visit[v].class \in Classes
  /\ \A v \in Visit : visit[v].refused => Len(admitted[visit[v].source]) >= Quota

\* A window began with an admission, and what it counts came in its time.
WindowFits(w) ==
  /\ w.started <= second
  /\ admitted[w.source] # <<>>
  /\ w.count <= Quota
  /\ w.count <= Cardinality(Slice(admitted[w.source], w.started, w.started + WindowLength))

\* Whoever was admitted, as long as they are not more than there are windows.
Admitted == {s \in Source : admitted[s] # <<>>}
Calm == Cardinality(Admitted) <= MaxWindows

\* While nobody's window was taken: all that was admitted since it began is counted,
\* and no window's length before that has more than the quota.
WindowKnowsAll(w) ==
  LET a == admitted[w.source] IN
  /\ \A i \in 1..Len(a) : a[i] < w.started + WindowLength
  /\ Cardinality(Slice(a, w.started, w.started + WindowLength)) <= w.count
  /\ \A from \in Nat :
       from + WindowLength > w.started => Cardinality(Slice(a, from, w.started)) <= Quota

EdgeCalm ==
  /\ \A s \in Admitted : \E i \in 1..Len(windows) : windows[i].source = s
  /\ \A i \in 1..Len(windows) : WindowKnowsAll(windows[i])
  /\ \A s \in Source, from \in Nat :
       Cardinality(Slice(admitted[s], from, from + WindowLength)) <= 2 * Quota

WindowsFit ==
  /\ \A s \in Source : \A i \in 1..Len(admitted[s]) : admitted[s][i] <= second
  /\ \A i, j \in 1..Len(windows) : windows[i].source = windows[j].source => i = j
  /\ \A i \in 1..Len(windows) : WindowFits(windows[i])
  /\ Calm => EdgeCalm

EdgeInv == EdgeTyped /\ VisitsFit /\ CountsAreExact /\ WindowsFit

EdgeStart(W) == EdgeInit /\ \E ways \in [Visit -> W] : Visiting(ways)
----------------------------------------------------------------------------
(* The gauge and the counter.                                                 *)

\* Requests that stay on their side of the gauge leave the counts alone.
LEMMA CountsStay ==
  ASSUME CountsAreExact, UNCHANGED <<inProgress, answered>>,
         \A v \in Visit : /\ visit'[v].path = visit[v].path
                          /\ visit'[v].at \in {"outside", "ended"} <=> visit[v].at \in {"outside", "ended"}
                          /\ visit'[v].at = "ended" <=> visit[v].at = "ended"
                          /\ visit[v].at = "ended" => visit'[v].class = visit[v].class
  PROVE  CountsAreExact'
<1>1. BeingServed' = BeingServed
  BY DEF BeingServed, Measured
<1>2. ASSUME NEW c \in Classes PROVE ServedAs(c)' = ServedAs(c)
  BY DEF ServedAs, Measured
<1> QED BY <1>1, <1>2 DEF CountsAreExact, BeingServed, ServedAs

LEMMA ServedAreFinite ==
  /\ IsFiniteSet(BeingServed) /\ Cardinality(BeingServed) \in Nat
  /\ \A c : IsFiniteSet(ServedAs(c)) /\ Cardinality(ServedAs(c)) \in Nat
<1>1. BeingServed \in SUBSET Visit /\ \A c : ServedAs(c) \in SUBSET Visit
  BY DEF BeingServed, ServedAs
<1> QED BY <1>1, EdgeAssumption, FS_Subset, FS_CardinalityType

\* One request enters, or ends.
LEMMA CountsMove ==
  ASSUME CountsAreExact, EdgeTyped, NEW v \in Visit,
         \A u \in Visit \ {v} : visit'[u] = visit[u],
         visit'[v].path = visit[v].path,
         \/ /\ visit[v].at = "outside" /\ visit'[v].at \notin {"outside", "ended"}
            /\ inProgress' = (IF Measured(v) THEN inProgress + 1 ELSE inProgress)
            /\ UNCHANGED answered
         \/ /\ visit[v].at \notin {"outside", "ended"} /\ visit'[v].at = "ended"
            /\ inProgress' = (IF Measured(v) THEN inProgress - 1 ELSE inProgress)
            /\ \/ visit'[v].class \in Classes
                  /\ answered' = (IF Measured(v)
                                  THEN [answered EXCEPT ![visit'[v].class] = @ + 1] ELSE answered)
               \/ visit'[v].class \notin Classes /\ UNCHANGED answered
  PROVE  CountsAreExact' /\ inProgress' \in Nat /\ answered' \in [Classes -> Nat]
<1>0. inProgress = Cardinality(BeingServed) /\ \A c \in Classes : answered[c] = Cardinality(ServedAs(c))
  BY DEF CountsAreExact, BeingServed, ServedAs
<1>1. inProgress' = Cardinality(BeingServed') /\ inProgress' \in Nat
  <2>1. CASE visit[v].at = "outside"
    <3>1. v \notin BeingServed /\ BeingServed' = (IF Measured(v) THEN BeingServed \cup {v} ELSE BeingServed)
      BY <2>1 DEF BeingServed, Measured
    <3>2. Cardinality(BeingServed \cup {v}) = Cardinality(BeingServed) + 1
      BY <3>1, ServedAreFinite, FS_AddElement
    <3> QED BY <1>0, <2>1, <3>1, <3>2, ServedAreFinite
  <2>2. CASE visit[v].at # "outside"
    <3>1. BeingServed' = BeingServed \ {v} /\ (v \in BeingServed <=> Measured(v))
      BY <2>2 DEF BeingServed, Measured
    <3>2. IF v \in BeingServed THEN Cardinality(BeingServed \ {v}) = Cardinality(BeingServed) - 1
          ELSE BeingServed \ {v} = BeingServed
      <4>1. Cardinality(BeingServed \ {v})
              = IF v \in BeingServed THEN Cardinality(BeingServed) - 1 ELSE Cardinality(BeingServed)
        BY ServedAreFinite, FS_RemoveElement
      <4>2. v \notin BeingServed => BeingServed \ {v} = BeingServed
        OBVIOUS
      <4> QED BY <4>1, <4>2
    <3>3. Cardinality(BeingServed \ {v}) \in Nat
      BY ServedAreFinite, FS_RemoveElement, FS_CardinalityType
    <3> QED BY <1>0, <2>2, <3>1, <3>2, <3>3, ServedAreFinite
  <2> QED BY <2>1, <2>2
<1>2. /\ answered' \in [Classes -> Nat]
      /\ \A c \in Classes : answered'[c] = Cardinality(ServedAs(c)')
  <2>1. CASE visit'[v].at # "ended"
    <3>1. \A c \in Classes : ServedAs(c)' = ServedAs(c)
      BY <2>1 DEF ServedAs, Measured
    <3> QED BY <1>0, <2>1, <3>1 DEF EdgeTyped
  <2>2. CASE visit'[v].at = "ended"
    <3>1. \A c \in Classes :
            /\ v \notin ServedAs(c)
            /\ ServedAs(c)' = (IF Measured(v) /\ c = visit'[v].class THEN ServedAs(c) \cup {v} ELSE ServedAs(c))
      BY <2>2 DEF ServedAs, Measured
    <3>2. \A c \in Classes : Cardinality(ServedAs(c) \cup {v}) = Cardinality(ServedAs(c)) + 1
      BY <3>1, ServedAreFinite, FS_AddElement
    <3>3. CASE visit'[v].class \in Classes /\ Measured(v)
      <4>1. answered' = [answered EXCEPT ![visit'[v].class] = @ + 1]
        BY <2>2, <3>3
      <4> QED BY <1>0, <3>1, <3>2, <3>3, <4>1 DEF EdgeTyped
    <3>4. CASE ~(visit'[v].class \in Classes /\ Measured(v))
      BY <1>0, <2>2, <3>1, <3>4 DEF EdgeTyped
    <3> QED BY <3>3, <3>4
  <2> QED BY <2>1, <2>2
<1> QED BY <1>1, <1>2 DEF CountsAreExact, BeingServed, ServedAs

----------------------------------------------------------------------------
\* Rows of requests.
VisitBecomes(v, at, class, refused) ==
  /\ visit' \in [Visit -> VisitRow]
  /\ visit'[v].source = visit[v].source /\ visit'[v].path = visit[v].path
  /\ visit'[v].at = at /\ visit'[v].class = class /\ visit'[v].refused = refused
  /\ \A u \in Visit \ {v} : visit'[u] = visit[u]

LEMMA VisitMoves ==
  ASSUME EdgeTyped, NEW v \in Visit, NEW at \in VisitAt, NEW class \in VisitClass
  PROVE  /\ visit' = [visit EXCEPT ![v].at = at] => VisitBecomes(v, at, visit[v].class, visit[v].refused)
         /\ visit' = [visit EXCEPT ![v].at = at, ![v].class = class]
              => VisitBecomes(v, at, class, visit[v].refused)
         /\ visit' = [visit EXCEPT ![v].at = at, ![v].class = class, ![v].refused = TRUE]
              => VisitBecomes(v, at, class, TRUE)
<1>0. visit \in [Visit -> VisitRow]
  BY DEF EdgeTyped
<1>1. PICK x \in [source : Source, path : Paths, at : VisitAt, class : VisitClass, refused : BOOLEAN] :
        x = visit[v]
  BY <1>0 DEF VisitRow
<1>2. ASSUME NEW y \in VisitRow, y.source = x.source, y.path = x.path, visit' = [visit EXCEPT ![v] = y]
      PROVE  VisitBecomes(v, y.at, y.class, y.refused)
  BY <1>0, <1>1, <1>2 DEF VisitBecomes
<1>3. ASSUME visit' = [visit EXCEPT ![v].at = at]
      PROVE  VisitBecomes(v, at, visit[v].class, visit[v].refused)
  <2>1. PICK y : y = [x EXCEPT !.at = at]
    OBVIOUS
  <2>2. y = [source |-> x.source, path |-> x.path, at |-> at, class |-> x.class, refused |-> x.refused]
    BY <2>1
  <2>3. visit' = [visit EXCEPT ![v] = y]
    BY <1>1, <1>3, <2>1
  <2>4. /\ y \in VisitRow /\ y.source = x.source /\ y.path = x.path /\ y.at = at /\ y.class = x.class
        /\ y.refused = x.refused
    BY <1>1, <2>2 DEF VisitRow
  <2> QED BY <1>1, <1>2, <2>3, <2>4
<1>4. ASSUME visit' = [visit EXCEPT ![v].at = at, ![v].class = class]
      PROVE  VisitBecomes(v, at, class, visit[v].refused)
  <2>1. PICK y : y = [x EXCEPT !.at = at, !.class = class]
    OBVIOUS
  <2>2. y = [source |-> x.source, path |-> x.path, at |-> at, class |-> class, refused |-> x.refused]
    BY <2>1
  <2>3. visit' = [visit EXCEPT ![v] = y]
    BY <1>1, <1>4, <2>1
  <2>4. /\ y \in VisitRow /\ y.source = x.source /\ y.path = x.path /\ y.at = at /\ y.class = class
        /\ y.refused = x.refused
    BY <1>1, <2>2 DEF VisitRow
  <2> QED BY <1>1, <1>2, <2>3, <2>4
<1>5. ASSUME visit' = [visit EXCEPT ![v].at = at, ![v].class = class, ![v].refused = TRUE]
      PROVE  VisitBecomes(v, at, class, TRUE)
  <2>1. PICK y : y = [x EXCEPT !.at = at, !.class = class, !.refused = TRUE]
    OBVIOUS
  <2>2. y = [source |-> x.source, path |-> x.path, at |-> at, class |-> class, refused |-> TRUE]
    BY <2>1
  <2>3. visit' = [visit EXCEPT ![v] = y]
    BY <1>1, <1>5, <2>1
  <2>4. /\ y \in VisitRow /\ y.source = x.source /\ y.path = x.path /\ y.at = at /\ y.class = class
        /\ y.refused = TRUE
    BY <1>1, <2>2 DEF VisitRow
  <2> QED BY <1>1, <1>2, <2>3, <2>4
<1> QED BY <1>3, <1>4, <1>5

\* Windows and admissions stay.
LEMMA WindowsStay ==
  ASSUME EdgeInv, UNCHANGED <<windows, admitted>>, second' \in {second, second + 1}
  PROVE  WindowsFit'
<1>0. second \in Nat /\ second' \in Nat /\ second <= second' /\ windows \in Seq(WindowRow)
      /\ admitted \in [Source -> Seq(Nat)]
  BY EdgeNumbers DEF EdgeInv, EdgeTyped
<1>1. ASSUME NEW s \in Source, NEW i \in 1..Len(admitted[s]) PROVE admitted[s][i] <= second'
  BY <1>0 DEF EdgeInv, WindowsFit
<1>2. ASSUME NEW i \in 1..Len(windows) PROVE WindowFits(windows[i])'
  <2>1. windows[i] \in WindowRow
    BY <1>0
  <2>2. windows[i].started \in Nat
    BY <2>1 DEF WindowRow
  <2> QED BY <1>0, <2>2 DEF EdgeInv, WindowsFit, WindowFits
<1>3. (Calm => EdgeCalm)' <=> (Calm => EdgeCalm)
  BY DEF Calm, Admitted, EdgeCalm, WindowKnowsAll
<1> QED BY <1>1, <1>2, <1>3 DEF EdgeInv, WindowsFit

\* A request that moves without a window.
LEMMA VisitStep ==
  ASSUME EdgeInv, NEW v \in Visit, NEW at \in VisitAt, NEW class \in VisitClass,
         VisitBecomes(v, at, class, visit[v].refused),
         at = "answering" => class \in Classes,
         UNCHANGED <<windows, serving, admitted, second>>,
         CountsAreExact', inProgress' \in Nat, answered' \in [Classes -> Nat]
  PROVE  EdgeInv'
<1>1. EdgeTyped'
  BY DEF EdgeInv, EdgeTyped, VisitBecomes
<1>2. VisitsFit'
  BY DEF EdgeInv, VisitsFit, VisitBecomes
<1>3. WindowsFit'
  BY WindowsStay
<1> QED BY <1>1, <1>2, <1>3 DEF EdgeInv

LEMMA EdgeWords ==
  /\ VisitAt = {"outside", "checking", "inside", "handling", "answering", "ended"}
  /\ VisitClass = {"2xx", "4xx", "5xx", "none"} /\ Classes = {"2xx", "4xx", "5xx"}
BY DEF VisitAt, VisitClass, Classes

LEMMA PassingStep ==
  ASSUME EdgeInv, NEW v \in Visit,
         Enter(v) \/ TakeService(v) \/ Handled(v) \/ FinishVisit(v) \/ Abandon(v)
  PROVE  EdgeInv'
<1>0. EdgeTyped /\ CountsAreExact /\ visit[v].class \in VisitClass
      /\ inProgress \in Nat /\ answered \in [Classes -> Nat]
  BY DEF EdgeInv, EdgeTyped, VisitRow
<1>1. CASE Enter(v)
  <2>1. PICK at \in {"checking", "inside"} : visit' = [visit EXCEPT ![v].at = at]
    BY <1>1 DEF Enter
  <2>2. VisitBecomes(v, at, visit[v].class, visit[v].refused) /\ at \in VisitAt
    BY <1>0, <2>1, VisitMoves, EdgeWords
  <2>3. CountsAreExact' /\ inProgress' \in Nat /\ answered' \in [Classes -> Nat]
    BY <1>0, <1>1, <2>1, <2>2, CountsMove DEF Enter, VisitBecomes
  <2> QED BY <1>0, <1>1, <2>1, <2>2, <2>3, VisitStep DEF Enter
<1>2. CASE TakeService(v) \/ Handled(v)
  <2>1. PICK at \in VisitAt, class \in VisitClass :
          /\ visit' = [visit EXCEPT ![v].at = at, ![v].class = class]
          /\ at \in {"handling", "answering"} /\ (at = "answering" => class \in Classes)
    <3>1. CASE Handled(v)
      <4>1. PICK c \in Classes : visit' = [visit EXCEPT ![v].at = "answering", ![v].class = c]
        BY <3>1 DEF Handled
      <4> QED BY <4>1, EdgeWords
    <3>2. CASE TakeService(v) /\ (serving = "up" \/ visit[v].path # "api")
      <4>1. visit' = [visit EXCEPT ![v].at = "handling", ![v].class = visit[v].class]
        BY <3>2 DEF TakeService
      <4> QED BY <1>0, <4>1, EdgeWords
    <3>3. CASE TakeService(v) /\ ~(serving = "up" \/ visit[v].path # "api")
      <4>1. visit' = [visit EXCEPT ![v].at = "answering", ![v].class = "5xx"]
        BY <3>3 DEF TakeService
      <4> QED BY <1>0, <4>1, EdgeWords
    <3> QED BY <1>2, <3>1, <3>2, <3>3
  <2>2. VisitBecomes(v, at, class, visit[v].refused)
    BY <1>0, <2>1, VisitMoves
  <2>3. visit[v].at \in {"inside", "handling"}
        /\ UNCHANGED <<windows, inProgress, answered, serving, admitted, second>>
    BY <1>2 DEF TakeService, Handled
  <2>4. CountsAreExact'
    BY <1>0, <2>1, <2>2, <2>3, CountsStay DEF VisitBecomes
  <2> QED BY <1>0, <2>1, <2>2, <2>3, <2>4, VisitStep
<1>3. CASE FinishVisit(v)
  <2>1. visit[v].at = "answering" /\ visit[v].class \in Classes
        /\ visit' = [visit EXCEPT ![v].at = "ended"]
    BY <1>3 DEF FinishVisit, EdgeInv, VisitsFit
  <2>2. VisitBecomes(v, "ended", visit[v].class, visit[v].refused) /\ "ended" \in VisitAt
    BY <1>0, <2>1, VisitMoves, EdgeWords
  <2>3. CountsAreExact' /\ inProgress' \in Nat /\ answered' \in [Classes -> Nat]
    <3>1. /\ inProgress' = (IF Measured(v) THEN inProgress - 1 ELSE inProgress)
          /\ answered' = (IF Measured(v) THEN [answered EXCEPT ![visit[v].class] = @ + 1] ELSE answered)
      BY <1>3 DEF FinishVisit
    <3>2. visit'[v].class = visit[v].class /\ visit'[v].at = "ended" /\ visit'[v].path = visit[v].path
          /\ \A u \in Visit \ {v} : visit'[u] = visit[u]
      BY <2>2 DEF VisitBecomes
    <3> QED BY <1>0, <2>1, <3>1, <3>2, CountsMove
  <2> QED BY <1>0, <1>3, <2>1, <2>2, <2>3, VisitStep DEF FinishVisit
<1>4. CASE Abandon(v)
  <2>1. visit[v].at \in {"checking", "inside", "handling"}
        /\ visit' = [visit EXCEPT ![v].at = "ended", ![v].class = "none"]
    BY <1>4 DEF Abandon
  <2>2. VisitBecomes(v, "ended", "none", visit[v].refused) /\ "ended" \in VisitAt /\ "none" \in VisitClass
        /\ "none" \notin Classes
    BY <1>0, <2>1, VisitMoves, EdgeWords
  <2>3. CountsAreExact' /\ inProgress' \in Nat /\ answered' \in [Classes -> Nat]
    <3>1. inProgress' = (IF Measured(v) THEN inProgress - 1 ELSE inProgress) /\ UNCHANGED answered
      BY <1>4 DEF Abandon
    <3>2. visit'[v].class = "none" /\ visit'[v].at = "ended" /\ visit'[v].path = visit[v].path
          /\ \A u \in Visit \ {v} : visit'[u] = visit[u]
      BY <2>2 DEF VisitBecomes
    <3> QED BY <1>0, <2>1, <2>2, <3>1, <3>2, CountsMove
  <2> QED BY <1>0, <1>4, <2>1, <2>2, <2>3, VisitStep DEF Abandon
<1> QED BY <1>1, <1>2, <1>3, <1>4

LEMMA AroundStep ==
  ASSUME EdgeInv, ServingMoves \/ SecondPasses \/ UNCHANGED edgeVars
  PROVE  EdgeInv'
<1>1. /\ UNCHANGED <<visit, windows, inProgress, answered, admitted>>
      /\ second' \in {second, second + 1} /\ second' \in 0..LastSecond
      /\ serving' \in {"starting", "up", "stopped"}
  <2>1. CASE ServingMoves
    BY <2>1 DEF ServingMoves, EdgeInv, EdgeTyped
  <2>2. CASE SecondPasses
    BY <2>2, EdgeNumbers DEF SecondPasses, EdgeInv, EdgeTyped
  <2>3. CASE UNCHANGED edgeVars
    BY <2>3 DEF edgeVars, EdgeInv, EdgeTyped
  <2> QED BY <2>1, <2>2, <2>3
<1>2. WindowsFit'
  BY <1>1, WindowsStay
<1>3. EdgeTyped' /\ VisitsFit'
  BY <1>1 DEF EdgeInv, EdgeTyped, VisitsFit
<1>4. CountsAreExact'
  BY <1>1, CountsStay DEF EdgeInv
<1> QED BY <1>2, <1>3, <1>4 DEF EdgeInv
----------------------------------------------------------------------------
(* The windows.                                                               *)

\* What is left of the windows beside that of a source: all of them, or all but one.
Rest(base, s, whole) ==
  /\ base \in Seq(WindowRow) /\ Len(base) < MaxWindows
  /\ \A i \in 1..Len(base) :
       base[i].source # s /\ \E j \in 1..Len(windows) : base[i] = windows[j]
  /\ \A i, j \in 1..Len(base) : base[i].source = base[j].source => i = j
  /\ whole => \A j \in 1..Len(windows) :
                windows[j].source # s => \E i \in 1..Len(base) : base[i] = windows[j]

LEMMA OthersAreRest ==
  ASSUME EdgeInv, NEW s, NEW n \in Of0(s)
  PROVE  Rest(Others(n), s, TRUE)
<1>0. /\ windows \in Seq(WindowRow) /\ Len(windows) <= MaxWindows /\ n \in 1..Len(windows)
      /\ windows[n].source = s /\ Len(windows) \in Nat
      /\ \A i, j \in 1..Len(windows) : windows[i].source = windows[j].source => i = j
  BY DEF EdgeInv, EdgeTyped, WindowsFit, Of0
<1>1. PICK o : o = Others(n)
  OBVIOUS
<1>2. o = [j \in 1..(Len(windows) - 1) |-> windows[IF j < n THEN j ELSE j + 1]]
  BY <1>1 DEF Others
<1>3. \A j \in 1..(Len(windows) - 1) :
        /\ (IF j < n THEN j ELSE j + 1) \in 1..Len(windows)
        /\ (IF j < n THEN j ELSE j + 1) # n
  BY <1>0
<1>4. o \in Seq(WindowRow) /\ Len(o) = Len(windows) - 1
  <2>1. o \in [1..(Len(windows) - 1) -> WindowRow]
    BY <1>0, <1>2, <1>3
  <2>2. Len(windows) - 1 \in Nat
    BY <1>0
  <2> QED BY <2>1, <2>2
<1>5. ASSUME NEW j \in 1..Len(o) PROVE o[j].source # s /\ \E i \in 1..Len(windows) : o[j] = windows[i]
  BY <1>0, <1>2, <1>3, <1>4
<1>6. ASSUME NEW i \in 1..Len(o), NEW j \in 1..Len(o), o[i].source = o[j].source PROVE i = j
  <2>1. PICK p \in 1..Len(windows) : p = (IF i < n THEN i ELSE i + 1) /\ o[i] = windows[p]
    BY <1>2, <1>3, <1>4, <1>6
  <2>2. PICK q \in 1..Len(windows) : q = (IF j < n THEN j ELSE j + 1) /\ o[j] = windows[q]
    BY <1>2, <1>3, <1>4, <1>6
  <2>3. p = q
    BY <1>0, <1>6, <2>1, <2>2
  <2>4. i \in Nat /\ j \in Nat /\ n \in Nat
    BY <1>0, <1>4, <1>6
  <2> QED BY <2>1, <2>2, <2>3, <2>4
<1>7. ASSUME NEW j \in 1..Len(windows), windows[j].source # s
      PROVE  \E i \in 1..Len(o) : o[i] = windows[j]
  <2>1. j # n
    BY <1>0, <1>7
  <2>2. CASE j < n
    <3>1. j \in 1..(Len(windows) - 1) /\ o[j] = windows[j]
      BY <1>0, <1>2, <1>7, <2>2
    <3> QED BY <1>4, <3>1
  <2>3. CASE j > n
    <3>1. j - 1 \in 1..(Len(windows) - 1) /\ ~(j - 1 < n) /\ (j - 1) + 1 = j
      BY <1>0, <1>7, <2>3
    <3>2. o[j - 1] = windows[j]
      BY <1>2, <3>1
    <3> QED BY <1>4, <3>1, <3>2
  <2> QED BY <1>0, <1>7, <2>1, <2>2, <2>3
<1>8. Len(o) < MaxWindows
  BY <1>0, <1>4, EdgeNumbers
<1> QED BY <1>1, <1>4, <1>5, <1>6, <1>7, <1>8 DEF Rest

LEMMA NewIsRest ==
  ASSUME EdgeInv, NEW s, Of0(s) = {}
  PROVE  Rest(IF Len(windows) >= MaxWindows THEN Tail(windows) ELSE windows, s, Len(windows) < MaxWindows)
<1>0. /\ windows \in Seq(WindowRow) /\ Len(windows) <= MaxWindows /\ Len(windows) \in Nat
      /\ \A i, j \in 1..Len(windows) : windows[i].source = windows[j].source => i = j
      /\ \A i \in 1..Len(windows) : windows[i].source # s
  BY DEF EdgeInv, EdgeTyped, WindowsFit, Of0
<1>1. CASE Len(windows) < MaxWindows
  BY <1>0, <1>1, EdgeNumbers DEF Rest
<1>2. CASE ~(Len(windows) < MaxWindows)
  <2>1. windows # <<>> /\ Len(windows) >= MaxWindows /\ Len(windows) > 0
    BY <1>0, <1>2, EdgeNumbers
  <2>2. PICK o : o = Tail(windows)
    OBVIOUS
  <2>3. /\ o \in Seq(WindowRow) /\ Len(o) = Len(windows) - 1
        /\ \A i \in 1..Len(o) : o[i] = windows[i + 1] /\ i + 1 \in 1..Len(windows)
    BY <1>0, <2>1, <2>2
  <2>4. Len(o) < MaxWindows
    BY <1>0, <2>3, EdgeNumbers
  <2>5. ASSUME NEW i \in 1..Len(o), NEW j \in 1..Len(o), o[i].source = o[j].source PROVE i = j
    <3>1. PICK m \in 1..Len(windows) : m = i + 1 /\ o[i] = windows[m]
      BY <2>3, <2>5
    <3>2. PICK n \in 1..Len(windows) : n = j + 1 /\ o[j] = windows[n]
      BY <2>3, <2>5
    <3>3. m = n
      BY <1>0, <2>5, <3>1, <3>2
    <3>4. i \in Nat /\ j \in Nat
      BY <2>3, <2>5
    <3> QED BY <3>1, <3>2, <3>3, <3>4
  <2>6. Rest(o, s, Len(windows) < MaxWindows)
    BY <1>0, <1>2, <2>3, <2>4, <2>5 DEF Rest
  <2> QED BY <2>1, <2>2, <2>6
<1> QED BY <1>1, <1>2

\* The window of one source is written, first or again, behind the rest.
LEMMA WindowWritten ==
  ASSUME EdgeInv, NEW s \in Source, NEW whole \in BOOLEAN, NEW base, Rest(base, s, whole),
         NEW x \in WindowRow, x.source = s, windows' = Append(base, x), second' = second,
         admitted' \in [Source -> Seq(Nat)],
         \A u \in Source \ {s} : admitted'[u] = admitted[u],
         \A i \in 1..Len(admitted'[s]) : admitted'[s][i] <= second,
         WindowFits(x)',
         Calm' => /\ Calm /\ whole
                  /\ WindowKnowsAll(x)'
                  /\ \A from \in Nat :
                       Cardinality(Slice(admitted'[s], from, from + WindowLength)) <= 2 * Quota
  PROVE  WindowsFit' /\ windows' \in Seq(WindowRow) /\ Len(windows') <= MaxWindows
<1>0. /\ base \in Seq(WindowRow) /\ Len(base) \in Nat /\ Len(base) < MaxWindows
      /\ \A i \in 1..Len(base) :
           base[i].source # s /\ \E j \in 1..Len(windows) : base[i] = windows[j]
      /\ \A i, j \in 1..Len(base) : base[i].source = base[j].source => i = j
  BY DEF Rest
<1>1. /\ windows' \in Seq(WindowRow) /\ Len(windows') = Len(base) + 1
      /\ windows'[Len(base) + 1] = x
      /\ \A i \in 1..Len(base) : windows'[i] = base[i]
  BY <1>0
<1>2. Len(windows') <= MaxWindows
  BY <1>0, <1>1, EdgeNumbers
<1>3. \A i \in 1..Len(windows') : i \in 1..Len(base) \/ i = Len(base) + 1
  BY <1>0, <1>1
<1>4. ASSUME NEW i \in 1..Len(windows'), NEW j \in 1..Len(windows'), windows'[i].source = windows'[j].source
      PROVE  i = j
  BY <1>0, <1>1, <1>3, <1>4
<1>5. ASSUME NEW u \in Source, NEW i \in 1..Len(admitted'[u]) PROVE admitted'[u][i] <= second
  BY <1>5 DEF EdgeInv, WindowsFit
<1>6. ASSUME NEW y \in WindowRow, WindowFits(y), y.source # s PROVE WindowFits(y)'
  <2>1. y.source \in Source
    BY DEF WindowRow
  <2> QED BY <1>6, <2>1 DEF WindowFits
<1>7. ASSUME NEW y \in WindowRow, WindowKnowsAll(y), y.source # s PROVE WindowKnowsAll(y)'
  <2>1. y.source \in Source
    BY DEF WindowRow
  <2>2. admitted'[y.source] = admitted[y.source]
    BY <1>7, <2>1
  <2> QED BY <1>7, <2>2 DEF WindowKnowsAll
<1>8. ASSUME NEW i \in 1..Len(windows') PROVE WindowFits(windows[i])'
  <2>1. CASE i = Len(base) + 1
    BY <1>1, <2>1 DEF WindowFits
  <2>2. CASE i \in 1..Len(base)
    <3>1. PICK y \in WindowRow : y = base[i] /\ y.source # s /\ \E j \in 1..Len(windows) : y = windows[j]
      BY <1>0, <2>2
    <3>2. WindowFits(y)'
      BY <1>6, <3>1 DEF EdgeInv, WindowsFit
    <3> QED BY <1>1, <2>2, <3>1, <3>2 DEF WindowFits
  <2> QED BY <1>3, <1>8, <2>1, <2>2
<1>9. ASSUME Calm' PROVE EdgeCalm'
  <2>0. /\ Calm /\ whole /\ WindowKnowsAll(x)' /\ EdgeCalm
        /\ \A from \in Nat : Cardinality(Slice(admitted'[s], from, from + WindowLength)) <= 2 * Quota
    BY <1>9 DEF EdgeInv, WindowsFit
  <2>1. ASSUME NEW u \in Source, admitted'[u] # <<>>
        PROVE  \E i \in 1..Len(windows') : windows'[i].source = u
    <3>1. CASE u = s
      <4>1. Len(base) + 1 \in 1..Len(windows')
        BY <1>0, <1>1
      <4> QED BY <1>1, <3>1, <4>1
    <3>2. CASE u # s
      <4>1. PICK j \in 1..Len(windows) : windows[j].source = u
        BY <2>0, <2>1, <3>2 DEF EdgeCalm, Admitted
      <4>2. PICK i \in 1..Len(base) : base[i] = windows[j]
        BY <2>0, <3>2, <4>1 DEF Rest
      <4>3. i \in 1..Len(windows')
        BY <1>0, <1>1
      <4> QED BY <1>1, <4>1, <4>2, <4>3
    <3> QED BY <3>1, <3>2
  <2>2. ASSUME NEW i \in 1..Len(windows') PROVE WindowKnowsAll(windows[i])'
    <3>1. CASE i = Len(base) + 1
      BY <1>1, <2>0, <3>1 DEF WindowKnowsAll
    <3>2. CASE i \in 1..Len(base)
      <4>1. PICK y \in WindowRow : y = base[i] /\ y.source # s /\ \E j \in 1..Len(windows) : y = windows[j]
        BY <1>0, <3>2
      <4>2. WindowKnowsAll(y)'
        BY <1>7, <2>0, <4>1 DEF EdgeCalm
      <4> QED BY <1>1, <3>2, <4>1, <4>2 DEF WindowKnowsAll
    <3> QED BY <1>3, <2>2, <3>1, <3>2
  <2>3. ASSUME NEW u \in Source, NEW from \in Nat
        PROVE  Cardinality(Slice(admitted'[u], from, from + WindowLength)) <= 2 * Quota
    BY <2>0, <2>3 DEF EdgeCalm
  <2>4. Admitted' = {u \in Source : admitted'[u] # <<>>}
    BY DEF Admitted
  <2> QED BY <2>1, <2>2, <2>3, <2>4 DEF EdgeCalm
<1>10. WindowsFit'
  BY <1>4, <1>5, <1>8, <1>9 DEF WindowsFit
<1> QED BY <1>1, <1>2, <1>10

----------------------------------------------------------------------------
\* What a window knows of its source's admissions a.
AllKnown(x, a) ==
  /\ \A i \in 1..Len(a) : a[i] < x.started + WindowLength
  /\ Cardinality(Slice(a, x.started, x.started + WindowLength)) <= x.count
  /\ \A from \in Nat : from + WindowLength > x.started => Cardinality(Slice(a, from, x.started)) <= Quota
SpansFit(a) == \A from \in Nat : Cardinality(Slice(a, from, from + WindowLength)) <= 2 * Quota

\* A window that began with or before the last admission, and knows them all, keeps
\* every span of its length to twice the quota.
LEMMA SpansHold ==
  ASSUME NEW a \in Seq(Nat), NEW t \in Nat, SpansFit(a),
         NEW x \in WindowRow, x.started <= t, x.count <= Quota, AllKnown(x, Append(a, t))
  PROVE  SpansFit(Append(a, t))
<1>0. x.started \in Nat /\ x.count \in Nat /\ Quota \in Nat /\ WindowLength \in Nat
  BY EdgeNumbers DEF WindowRow
<1>a. Append(a, t) \in Seq(Nat)
  OBVIOUS
<1>1. PICK b \in Seq(Nat) : b = Append(a, t)
  BY <1>a
<1>2. ASSUME NEW from \in Nat PROVE Cardinality(Slice(b, from, from + WindowLength)) <= 2 * Quota
  <2>1. CASE from + WindowLength > x.started
    <3>1. /\ \A i \in 1..Len(b) : b[i] < x.started + WindowLength
          /\ Cardinality(Slice(b, x.started, x.started + WindowLength)) <= x.count
          /\ Cardinality(Slice(b, from, x.started)) <= Quota
      BY <1>1, <2>1 DEF AllKnown
    <3>2. from + WindowLength \in Nat /\ x.started + WindowLength \in Nat
      BY <1>0
    <3>3. Cardinality(Slice(b, from, from + WindowLength))
            <= Cardinality(Slice(b, from, x.started))
               + Cardinality(Slice(b, x.started, x.started + WindowLength))
      BY <1>0, <3>1, <3>2, SliceSplits
    <3>4. /\ Cardinality(Slice(b, from, from + WindowLength)) \in Nat
          /\ Cardinality(Slice(b, from, x.started)) \in Nat
          /\ Cardinality(Slice(b, x.started, x.started + WindowLength)) \in Nat
      BY SliceIsFinite
    <3> QED BY <1>0, <3>1, <3>3, <3>4
  <2>2. CASE ~(from + WindowLength > x.started)
    <3>1. from + WindowLength \in Nat /\ ~(t < from + WindowLength)
      BY <1>0, <2>2
    <3>2. Cardinality(Slice(b, from, from + WindowLength))
            = Cardinality(Slice(a, from, from + WindowLength)) + 0
      BY <1>1, <3>1, SliceGrows
    <3>3. Cardinality(Slice(a, from, from + WindowLength)) \in Nat
      BY SliceIsFinite
    <3> QED BY <3>2, <3>3 DEF SpansFit
  <2> QED BY <2>1, <2>2
<1> QED BY <1>1, <1>2 DEF SpansFit

\* A window that begins with this admission.
LEMMA BeginsKnown ==
  ASSUME NEW a \in Seq(Nat), NEW t \in Nat, NEW s \in Source,
         NEW x, x = [source |-> s, started |-> t, count |-> 1]
  PROVE  /\ x \in WindowRow /\ x.count <= Quota /\ Append(a, t) # <<>>
         /\ x.count <= Cardinality(Slice(Append(a, t), x.started, x.started + WindowLength))
         /\ (/\ \A i \in 1..Len(a) : a[i] < t
             /\ \A from \in Nat : from + WindowLength > t => Cardinality(Slice(a, from, t)) <= Quota)
            => AllKnown(x, Append(a, t))
<1>0. /\ x \in WindowRow /\ x.started = t /\ x.count = 1 /\ t + WindowLength \in Nat /\ t < t + WindowLength
      /\ 1 <= Quota
  BY EdgeNumbers DEF WindowRow
<1>1. Cardinality(Slice(Append(a, t), t, t + WindowLength))
        = Cardinality(Slice(a, t, t + WindowLength)) + 1
  BY <1>0, SliceGrows
<1>2. Cardinality(Slice(a, t, t + WindowLength)) \in Nat
  BY SliceIsFinite
<1>3. Append(a, t) # <<>>
  <2>1. Len(Append(a, t)) = Len(a) + 1 /\ Len(a) \in Nat
    OBVIOUS
  <2>2. Len(<<>>) = 0
    OBVIOUS
  <2>3. Len(Append(a, t)) # 0
    BY <2>1
  <2> QED BY <2>2, <2>3
<1>4. ASSUME \A i \in 1..Len(a) : a[i] < t,
             \A from \in Nat : from + WindowLength > t => Cardinality(Slice(a, from, t)) <= Quota
      PROVE  AllKnown(x, Append(a, t))
  <2>1. Slice(a, t, t + WindowLength) = {}
    <3>1. \A i \in 1..Len(a) : a[i] \in Nat
      OBVIOUS
    <3> QED BY <1>4, <3>1 DEF Slice
  <2>2. Cardinality(Slice(Append(a, t), t, t + WindowLength)) = 1
    BY <1>1, <2>1, FS_EmptySet
  <2>3. ASSUME NEW i \in 1..Len(Append(a, t)) PROVE Append(a, t)[i] < t + WindowLength
    <3>1. Len(Append(a, t)) = Len(a) + 1 /\ Append(a, t)[Len(a) + 1] = t /\ Len(a) \in Nat
      OBVIOUS
    <3>2. \A j \in 1..Len(a) : Append(a, t)[j] = a[j] /\ a[j] \in Nat
      OBVIOUS
    <3>3. i \in 1..Len(a) \/ i = Len(a) + 1
      BY <2>3, <3>1
    <3> QED BY <1>0, <1>4, <3>1, <3>2, <3>3
  <2>4. ASSUME NEW from \in Nat, from + WindowLength > t
        PROVE  Cardinality(Slice(Append(a, t), from, t)) <= Quota
    <3>1. Cardinality(Slice(Append(a, t), from, t)) = Cardinality(Slice(a, from, t)) + 0
      BY SliceGrows
    <3>2. Cardinality(Slice(a, from, t)) \in Nat
      BY SliceIsFinite
    <3> QED BY <1>4, <2>4, <3>1, <3>2
  <2> QED BY <1>0, <2>2, <2>3, <2>4 DEF AllKnown
<1> QED BY <1>0, <1>1, <1>2, <1>3, <1>4

\* A window that counts one more.
LEMMA CountsKnown ==
  ASSUME NEW a \in Seq(Nat), NEW t \in Nat, NEW w \in WindowRow, w.started <= t, t < w.started + WindowLength,
         w.count < Quota, w.count <= Cardinality(Slice(a, w.started, w.started + WindowLength)),
         NEW x, x = [source |-> w.source, started |-> w.started, count |-> w.count + 1]
  PROVE  /\ x \in WindowRow /\ x.source = w.source /\ x.started = w.started /\ x.count <= Quota
         /\ x.count <= Cardinality(Slice(Append(a, t), x.started, x.started + WindowLength))
         /\ AllKnown(w, a) => AllKnown(x, Append(a, t))
<1>0. /\ x \in WindowRow /\ x.source = w.source /\ x.started = w.started /\ x.count = w.count + 1
      /\ w.started \in Nat /\ w.count \in Nat /\ w.started + WindowLength \in Nat /\ x.count <= Quota
  <2>1. /\ x \in WindowRow /\ x.source = w.source /\ x.started = w.started /\ x.count = w.count + 1
        /\ w.started \in Nat /\ w.count \in Nat
    BY DEF WindowRow
  <2> QED BY <2>1, EdgeNumbers
<1>1. Cardinality(Slice(Append(a, t), w.started, w.started + WindowLength))
        = Cardinality(Slice(a, w.started, w.started + WindowLength)) + 1
  BY <1>0, SliceGrows
<1>2. Cardinality(Slice(a, w.started, w.started + WindowLength)) \in Nat
  BY SliceIsFinite
<1>3. x.count <= Cardinality(Slice(Append(a, t), x.started, x.started + WindowLength))
  BY <1>0, <1>1, <1>2
<1>4. ASSUME AllKnown(w, a) PROVE AllKnown(x, Append(a, t))
  <2>1. ASSUME NEW i \in 1..Len(Append(a, t)) PROVE Append(a, t)[i] < x.started + WindowLength
    <3>1. Len(Append(a, t)) = Len(a) + 1 /\ Append(a, t)[Len(a) + 1] = t /\ Len(a) \in Nat
      OBVIOUS
    <3>2. \A j \in 1..Len(a) : Append(a, t)[j] = a[j] /\ a[j] \in Nat
      OBVIOUS
    <3>3. i \in 1..Len(a) \/ i = Len(a) + 1
      BY <2>1, <3>1
    <3> QED BY <1>0, <1>4, <3>1, <3>2, <3>3 DEF AllKnown
  <2>2. Cardinality(Slice(Append(a, t), x.started, x.started + WindowLength)) <= x.count
    BY <1>0, <1>1, <1>2, <1>4 DEF AllKnown
  <2>3. ASSUME NEW from \in Nat, from + WindowLength > x.started
        PROVE  Cardinality(Slice(Append(a, t), from, x.started)) <= Quota
    <3>1. Cardinality(Slice(Append(a, t), from, w.started)) = Cardinality(Slice(a, from, w.started)) + 0
      BY <1>0, SliceGrows
    <3>2. Cardinality(Slice(a, from, w.started)) \in Nat
      BY SliceIsFinite
    <3> QED BY <1>0, <1>4, <2>3, <3>1, <3>2 DEF AllKnown
  <2> QED BY <2>1, <2>2, <2>3 DEF AllKnown
<1> QED BY <1>0, <1>3, <1>4

----------------------------------------------------------------------------
\* An admission of s makes it one of those admitted.
LEMMA AdmissionCalm ==
  ASSUME EdgeInv, NEW s \in Source, Admitted' = Admitted \cup {s}
  PROVE  /\ Calm' => Calm
         /\ (Calm' /\ Of0(s) = {}) => Len(windows) < MaxWindows /\ admitted[s] = <<>>
<1>0. IsFiniteSet(Admitted) /\ IsFiniteSet(Admitted')
      /\ Cardinality(Admitted) \in Nat /\ Cardinality(Admitted') \in Nat
  <2>1. Admitted \in SUBSET Source /\ Admitted' \in SUBSET Source
    BY DEF Admitted
  <2> QED BY <2>1, EdgeAssumption, FS_Subset, FS_CardinalityType
<1>1. Cardinality(Admitted) <= Cardinality(Admitted')
  <2>1. Admitted \in SUBSET Admitted'
    OBVIOUS
  <2> QED BY <1>0, <2>1, FS_Subset
<1>2. Calm' => Calm
  BY <1>0, <1>1, EdgeNumbers DEF Calm
<1>3. ASSUME Calm', Of0(s) = {} PROVE Len(windows) < MaxWindows /\ admitted[s] = <<>>
  <2>1. EdgeCalm
    BY <1>2, <1>3 DEF EdgeInv, WindowsFit
  <2>2. s \notin Admitted
    BY <1>3, <2>1 DEF EdgeCalm, Of0
  <2>3. Cardinality(Admitted') = Cardinality(Admitted) + 1
    BY <1>0, <2>2, FS_AddElement
  <2>4. /\ windows \in Seq(WindowRow)
        /\ \A i \in 1..Len(windows) : WindowFits(windows[i])
        /\ \A i, j \in 1..Len(windows) : windows[i].source = windows[j].source => i = j
    BY DEF EdgeInv, EdgeTyped, WindowsFit
  <2>5. \A i \in 1..Len(windows) : windows[i].source \in Admitted
    <3>1. ASSUME NEW i \in 1..Len(windows) PROVE windows[i].source \in Admitted
      <4>1. windows[i] \in WindowRow
        BY <2>4
      <4>2. windows[i].source \in Source /\ admitted[windows[i].source] # <<>>
        BY <2>4, <4>1 DEF WindowRow, WindowFits
      <4> QED BY <4>2 DEF Admitted
    <3> QED BY <3>1
  <2>6. Len(windows) <= Cardinality(Admitted)
    <3>1. PICK n \in Nat : n = Len(windows)
      BY <2>4
    <3>2. IsFiniteSet(1..n) /\ Cardinality(1..n) = n
      <4>1. IsFiniteSet(1..n) /\ Cardinality(1..n) = IF 1 > n THEN 0 ELSE n - 1 + 1
        BY FS_Interval
      <4> QED BY <4>1
    <3>3. SUFFICES ASSUME Cardinality(Admitted) < n PROVE FALSE
      BY <1>0, <3>1
    <3>4. PICK f : f = [i \in 1..n |-> windows[i].source]
      OBVIOUS
    <3>5. f \in [1..n -> Admitted]
      BY <2>5, <3>1, <3>4
    <3>6. \E i, j \in 1..n : i # j /\ f[i] = f[j]
      BY <1>0, <3>2, <3>3, <3>5, FS_PigeonHole
    <3> QED BY <2>4, <3>1, <3>4, <3>6
  <2>7. Len(windows) \in Nat
    BY <2>4
  <2> QED BY <1>0, <1>3, <2>2, <2>3, <2>6, <2>7, EdgeNumbers DEF Calm, Admitted
<1> QED BY <1>2, <1>3

\* What an admission writes.
LEMMA AdmissionWritten ==
  ASSUME EdgeInv, NEW s \in Source, admitted' = [admitted EXCEPT ![s] = Append(@, second)]
  PROVE  /\ admitted' \in [Source -> Seq(Nat)] /\ admitted'[s] = Append(admitted[s], second)
         /\ \A u \in Source \ {s} : admitted'[u] = admitted[u]
         /\ admitted[s] \in Seq(Nat) /\ second \in Nat
         /\ Len(admitted'[s]) = Len(admitted[s]) + 1 /\ Len(admitted[s]) \in Nat
         /\ \A i \in 1..Len(admitted'[s]) : admitted'[s][i] <= second
         /\ Admitted' = Admitted \cup {s}
<1>1. admitted \in [Source -> Seq(Nat)] /\ second \in Nat
  BY EdgeNumbers DEF EdgeInv, EdgeTyped
<1>2. PICK a \in Seq(Nat) : a = admitted[s]
  BY <1>1
<1>3. /\ Append(a, second) \in Seq(Nat) /\ Len(Append(a, second)) = Len(a) + 1 /\ Len(a) \in Nat
      /\ Append(a, second)[Len(a) + 1] = second
      /\ \A i \in 1..Len(a) : Append(a, second)[i] = a[i]
  BY <1>1
<1>4. /\ admitted' \in [Source -> Seq(Nat)] /\ admitted'[s] = Append(a, second)
      /\ \A u \in Source \ {s} : admitted'[u] = admitted[u]
  BY <1>1, <1>2, <1>3
<1>5. \A i \in 1..Len(a) : a[i] <= second
  BY <1>2 DEF EdgeInv, WindowsFit
<1>6. ASSUME NEW i \in 1..Len(admitted'[s]) PROVE admitted'[s][i] <= second
  <2>1. CASE i \in 1..Len(a)
    BY <1>3, <1>4, <1>5, <2>1
  <2>2. CASE i = Len(a) + 1
    BY <1>1, <1>3, <1>4, <2>2
  <2> QED BY <1>3, <1>4, <1>6, <2>1, <2>2
<1>7. Append(a, second) # <<>>
  <2>1. Len(Append(a, second)) # 0
    BY <1>3
  <2> QED BY <2>1
<1>8. Admitted' = Admitted \cup {s}
  BY <1>4, <1>7 DEF Admitted
<1> QED BY <1>1, <1>2, <1>3, <1>4, <1>6, <1>8

\* The request that asks is admitted, or told that its source's quota is used up.
LEMMA QuotaAnswered ==
  ASSUME EdgeInv, NEW v \in Visit, visit[v].at = "checking",
         UNCHANGED <<inProgress, answered, serving, second>>,
         WindowsFit', windows' \in Seq(WindowRow), Len(windows') <= MaxWindows,
         AdmitVisit(v) \/ (RefuseVisit(v) /\ Len(admitted[visit[v].source]) >= Quota)
  PROVE  EdgeInv'
<1>0. EdgeTyped /\ CountsAreExact /\ VisitsFit /\ visit[v] \in VisitRow
  BY DEF EdgeInv, EdgeTyped
<1>1. visit[v].source \in Source /\ visit[v].class \in VisitClass
  BY <1>0 DEF VisitRow
<1>2. CASE AdmitVisit(v)
  <2>1. /\ visit' = [visit EXCEPT ![v].at = "inside"]
        /\ admitted' = [admitted EXCEPT ![visit[v].source] = Append(@, second)]
    BY <1>2 DEF AdmitVisit
  <2>2. VisitBecomes(v, "inside", visit[v].class, visit[v].refused)
    BY <1>0, <2>1, VisitMoves, EdgeWords
  <2>3. CountsAreExact'
    BY <1>0, <2>2, CountsStay DEF VisitBecomes
  <2>4. admitted' \in [Source -> Seq(Nat)]
        /\ \A u \in Source : Len(admitted'[u]) \in Nat /\ Len(admitted[u]) \in Nat
                             /\ Len(admitted'[u]) >= Len(admitted[u])
    <3>1. /\ admitted' \in [Source -> Seq(Nat)]
          /\ \A u \in Source \ {visit[v].source} : admitted'[u] = admitted[u]
          /\ Len(admitted'[visit[v].source]) = Len(admitted[visit[v].source]) + 1
          /\ Len(admitted[visit[v].source]) \in Nat
      BY <1>1, <2>1, AdmissionWritten
    <3>2. \A u \in Source : Len(admitted[u]) \in Nat
      BY <1>0 DEF EdgeTyped
    <3> QED BY <3>1, <3>2
  <2>5. EdgeTyped'
    BY <1>0, <2>2, <2>4 DEF EdgeTyped, VisitBecomes
  <2>6. VisitsFit'
    <3>1. ASSUME NEW u \in Visit, visit'[u].refused PROVE Len(admitted'[visit'[u].source]) >= Quota
      <4>1. visit[u].refused /\ visit'[u].source = visit[u].source
        BY <2>2, <3>1 DEF VisitBecomes
      <4>2. visit[u].source \in Source
        BY <1>0 DEF EdgeTyped, VisitRow
      <4>3. Len(admitted[visit[u].source]) >= Quota
        BY <1>0, <4>1 DEF VisitsFit
      <4> QED BY <2>4, <4>1, <4>2, <4>3, EdgeNumbers
    <3>2. ASSUME NEW u \in Visit, visit'[u].at = "answering" PROVE visit'[u].class \in Classes
      BY <1>0, <2>2, <3>2 DEF VisitsFit, VisitBecomes
    <3> QED BY <3>1, <3>2 DEF VisitsFit
  <2> QED BY <2>3, <2>5, <2>6 DEF EdgeInv
<1>3. CASE RefuseVisit(v) /\ Len(admitted[visit[v].source]) >= Quota
  <2>1. /\ visit' = [visit EXCEPT ![v].at = "answering", ![v].class = "4xx", ![v].refused = TRUE]
        /\ admitted' = admitted
    BY <1>3 DEF RefuseVisit
  <2>2. VisitBecomes(v, "answering", "4xx", TRUE) /\ "4xx" \in Classes
    BY <1>0, <2>1, VisitMoves, EdgeWords
  <2>3. CountsAreExact'
    BY <1>0, <2>2, CountsStay DEF VisitBecomes
  <2>4. EdgeTyped'
    BY <1>0, <2>1, <2>2 DEF EdgeTyped, VisitBecomes
  <2>5. VisitsFit'
    BY <1>0, <1>3, <2>1, <2>2 DEF VisitsFit, VisitBecomes
  <2> QED BY <2>3, <2>4, <2>5 DEF EdgeInv
<1> QED BY <1>2, <1>3

LEMMA NewWindowStep ==
  ASSUME EdgeInv, NEW v \in Visit, CheckQuota(v), NewWindow(v)
  PROVE  EdgeInv'
<1>1. PICK s \in Source : s = visit[v].source
  BY DEF EdgeInv, EdgeTyped, VisitRow
<1>2. PICK x : x = [source |-> s, started |-> second, count |-> 1]
  OBVIOUS
<1>3. PICK base : base = (IF Len(windows) >= MaxWindows THEN Tail(windows) ELSE windows)
  OBVIOUS
<1>4. /\ Of0(s) = {} /\ windows' = Append(base, x)
      /\ admitted' = [admitted EXCEPT ![s] = Append(@, second)]
      /\ AdmitVisit(v) /\ visit[v].at = "checking" /\ UNCHANGED <<inProgress, answered, serving, second>>
  BY <1>1, <1>2, <1>3 DEF NewWindow, CheckQuota, AdmitVisit
<1>5. Rest(base, s, Len(windows) < MaxWindows)
  BY <1>3, <1>4, NewIsRest
<1>6. PICK a \in Seq(Nat) : a = admitted[s] /\ admitted'[s] = Append(a, second) /\ second \in Nat
  BY <1>4, AdmissionWritten
<1>7. /\ x \in WindowRow /\ x.source = s /\ x.started = second /\ x.count <= Quota /\ admitted'[s] # <<>>
      /\ x.count <= Cardinality(Slice(admitted'[s], x.started, x.started + WindowLength))
  BY <1>2, <1>6, BeginsKnown
<1>8. WindowFits(x)'
  BY <1>4, <1>6, <1>7 DEF WindowFits
<1>9. ASSUME Calm'
      PROVE  /\ Calm /\ Len(windows) < MaxWindows
             /\ WindowKnowsAll(x)'
             /\ \A from \in Nat : Cardinality(Slice(admitted'[s], from, from + WindowLength)) <= 2 * Quota
  <2>1. Admitted' = Admitted \cup {s}
    BY <1>4, AdmissionWritten
  <2>2. Calm /\ Len(windows) < MaxWindows /\ a = <<>> /\ EdgeCalm
    <3>1. Calm /\ Len(windows) < MaxWindows /\ admitted[s] = <<>>
      BY <1>4, <1>9, <2>1, AdmissionCalm
    <3> QED BY <1>6, <3>1 DEF EdgeInv, WindowsFit
  <2>3. /\ \A i \in 1..Len(a) : a[i] < second
        /\ \A from \in Nat : Cardinality(Slice(a, from, second)) <= Quota
    <3>1. Len(a) = 0
      BY <2>2
    <3>2. ASSUME NEW from \in Nat PROVE Cardinality(Slice(a, from, second)) <= Quota
      <4>1. Slice(a, from, second) = {}
        BY <3>1 DEF Slice
      <4> QED BY <4>1, FS_EmptySet, EdgeNumbers
    <3> QED BY <3>1, <3>2
  <2>4. AllKnown(x, Append(a, second))
    BY <1>2, <1>6, <2>3, BeginsKnown
  <2>5. SpansFit(a)
    BY <1>6, <2>2 DEF EdgeCalm, SpansFit
  <2>6. SpansFit(Append(a, second))
    BY <1>6, <1>7, <2>4, <2>5, SpansHold
  <2> QED BY <1>6, <1>7, <2>2, <2>4, <2>6 DEF AllKnown, WindowKnowsAll, SpansFit
<1>10. WindowsFit' /\ windows' \in Seq(WindowRow) /\ Len(windows') <= MaxWindows
  <2>1. /\ admitted' \in [Source -> Seq(Nat)] /\ \A u \in Source \ {s} : admitted'[u] = admitted[u]
        /\ \A i \in 1..Len(admitted'[s]) : admitted'[s][i] <= second
    BY <1>4, AdmissionWritten
  <2>2. CASE Len(windows) < MaxWindows
    <3>1. Rest(base, s, TRUE)
      BY <1>5, <2>2
    <3> QED BY <1>4, <1>7, <1>8, <1>9, <2>1, <3>1, WindowWritten
  <2>3. CASE ~(Len(windows) < MaxWindows)
    <3>1. Rest(base, s, FALSE)
      BY <1>5, <2>3 DEF Rest
    <3>2. ~Calm'
      BY <1>9, <2>3
    <3> QED BY <1>4, <1>7, <1>8, <2>1, <3>1, <3>2, WindowWritten
  <2> QED BY <2>2, <2>3
<1> QED BY <1>4, <1>10, QuotaAnswered

LEMMA KnownWindowStep ==
  ASSUME EdgeInv, NEW v \in Visit, CheckQuota(v), KnownWindow(v)
  PROVE  EdgeInv'
<1>1. PICK s \in Source : s = visit[v].source
  BY DEF EdgeInv, EdgeTyped, VisitRow
<1>2. PICK i, w, base :
        /\ i \in Of0(s) /\ w = windows[i] /\ base = Others(i)
        /\ \/ /\ Expired(w) /\ windows' = Append(base, [w EXCEPT !.started = second, !.count = 1])
              /\ AdmitVisit(v)
           \/ /\ ~Expired(w) /\ w.count < Quota
              /\ windows' = Append(base, [w EXCEPT !.count = @ + 1])
              /\ AdmitVisit(v)
           \/ /\ ~Expired(w) /\ w.count >= Quota
              /\ windows' = Append(base, w)
              /\ RefuseVisit(v)
  BY <1>1 DEF KnownWindow
<1>3. visit[v].at = "checking" /\ UNCHANGED <<inProgress, answered, serving, second>>
  BY DEF CheckQuota
<1>4. Rest(base, s, TRUE)
  BY <1>2, OthersAreRest
<1>5. w \in WindowRow /\ w.source = s /\ WindowFits(w) /\ (Calm => WindowKnowsAll(w) /\ SpansFit(admitted[s]))
  <2>1. windows \in Seq(WindowRow) /\ i \in 1..Len(windows) /\ w.source = s
    BY <1>2 DEF Of0, EdgeInv, EdgeTyped
  <2>2. w \in WindowRow
    BY <1>2, <2>1
  <2> QED BY <1>2, <2>1, <2>2 DEF EdgeInv, WindowsFit, EdgeCalm, SpansFit
<1>6. PICK a \in Seq(Nat) : a = admitted[s] /\ second \in Nat /\ (Calm => AllKnown(w, a) /\ SpansFit(a))
  <2>1. admitted[s] \in Seq(Nat) /\ second \in Nat
    BY EdgeNumbers DEF EdgeInv, EdgeTyped
  <2> QED BY <1>5, <2>1 DEF WindowKnowsAll, AllKnown
<1>7. /\ w.started \in Nat /\ w.count \in Nat /\ w.started <= second /\ a # <<>> /\ w.count <= Quota
      /\ w.count <= Cardinality(Slice(a, w.started, w.started + WindowLength))
  BY <1>5, <1>6 DEF WindowFits, WindowRow
\* An admission, with the window x it is written to.
<1>8. ASSUME NEW x \in WindowRow, windows' = Append(base, x), AdmitVisit(v), x.source = s,
             x.started <= second, x.count <= Quota,
             x.count <= Cardinality(Slice(Append(a, second), x.started, x.started + WindowLength)),
             AllKnown(w, a) => AllKnown(x, Append(a, second))
      PROVE  EdgeInv'
  <2>1. admitted' = [admitted EXCEPT ![s] = Append(@, second)]
    BY <1>1, <1>8 DEF AdmitVisit
  <2>2. /\ admitted' \in [Source -> Seq(Nat)] /\ admitted'[s] = Append(a, second)
        /\ \A u \in Source \ {s} : admitted'[u] = admitted[u]
        /\ \A j \in 1..Len(admitted'[s]) : admitted'[s][j] <= second
        /\ Admitted' = Admitted \cup {s}
    BY <1>6, <2>1, AdmissionWritten
  <2>3. WindowFits(x)'
    <3>1. admitted'[s] # <<>>
      <4>1. s \in Admitted'
        BY <2>2
      <4> QED BY <4>1 DEF Admitted
    <3> QED BY <1>3, <1>8, <2>2, <3>1 DEF WindowFits
  <2>4. ASSUME Calm'
        PROVE  /\ Calm /\ WindowKnowsAll(x)'
               /\ \A from \in Nat :
                    Cardinality(Slice(admitted'[s], from, from + WindowLength)) <= 2 * Quota
    <3>1. Calm
      BY <2>2, <2>4, AdmissionCalm
    <3>2. AllKnown(x, Append(a, second)) /\ SpansFit(a)
      BY <1>6, <1>8, <3>1
    <3>3. SpansFit(Append(a, second))
      BY <1>6, <1>8, <3>2, SpansHold
    <3> QED BY <1>8, <2>2, <3>1, <3>2, <3>3 DEF AllKnown, WindowKnowsAll, SpansFit
  <2>5. WindowsFit' /\ windows' \in Seq(WindowRow) /\ Len(windows') <= MaxWindows
    BY <1>3, <1>4, <1>8, <2>2, <2>3, <2>4, WindowWritten
  <2> QED BY <1>3, <1>8, <2>5, QuotaAnswered
<1>9. CASE Expired(w) /\ windows' = Append(base, [w EXCEPT !.started = second, !.count = 1]) /\ AdmitVisit(v)
  <2>1. PICK x : x = [w EXCEPT !.started = second, !.count = 1]
    OBVIOUS
  <2>2. x = [source |-> s, started |-> second, count |-> 1]
    <3>1. PICK y \in [source : Source, started : Nat, count : Nat] : y = w
      BY <1>5 DEF WindowRow
    <3>2. x = [source |-> y.source, started |-> second, count |-> 1]
      BY <2>1, <3>1
    <3> QED BY <1>5, <3>1, <3>2
  <2>3. w.started + WindowLength <= second /\ w.started + WindowLength \in Nat
    BY <1>6, <1>7, <1>9, EdgeNumbers DEF Expired
  <2>4. ASSUME AllKnown(w, a)
        PROVE  /\ \A j \in 1..Len(a) : a[j] < second
               /\ \A from \in Nat : from + WindowLength > second => Cardinality(Slice(a, from, second)) <= Quota
    <3>1. ASSUME NEW j \in 1..Len(a) PROVE a[j] < w.started + WindowLength /\ a[j] \in Nat
      BY <2>4 DEF AllKnown
    <3>2. ASSUME NEW from \in Nat, from + WindowLength > second PROVE Cardinality(Slice(a, from, second)) <= Quota
      <4>1. \A j \in 1..Len(a) : from <= a[j] /\ a[j] < second
              => w.started <= a[j] /\ a[j] < w.started + WindowLength
        <5>1. w.started \in Nat /\ second \in Nat /\ WindowLength \in Nat
          BY <1>6, <1>7, EdgeNumbers
        <5>2. w.started <= from
          BY <2>3, <3>2, <5>1
        <5> QED BY <3>1, <5>1, <5>2
      <4>2. Cardinality(Slice(a, from, second)) <= Cardinality(Slice(a, w.started, w.started + WindowLength))
        BY <4>1, SliceInside
      <4>3. Cardinality(Slice(a, w.started, w.started + WindowLength)) <= w.count
        BY <2>4 DEF AllKnown
      <4>4. Cardinality(Slice(a, from, second)) \in Nat
            /\ Cardinality(Slice(a, w.started, w.started + WindowLength)) \in Nat
        BY SliceIsFinite
      <4> QED BY <1>7, <4>2, <4>3, <4>4, EdgeNumbers
    <3>3. \A j \in 1..Len(a) : a[j] < second
      BY <1>6, <2>3, <3>1
    <3> QED BY <3>2, <3>3
  <2>5. /\ x \in WindowRow /\ x.count <= Quota /\ x.source = s /\ x.started = second
        /\ x.count <= Cardinality(Slice(Append(a, second), x.started, x.started + WindowLength))
        /\ AllKnown(w, a) => AllKnown(x, Append(a, second))
    BY <1>6, <2>2, <2>4, BeginsKnown
  <2>6. windows' = Append(base, x) /\ AdmitVisit(v)
    BY <1>9, <2>1
  <2> QED BY <1>6, <1>8, <2>5, <2>6
<1>10. CASE ~Expired(w) /\ w.count < Quota /\ windows' = Append(base, [w EXCEPT !.count = @ + 1]) /\ AdmitVisit(v)
  <2>1. PICK x : x = [w EXCEPT !.count = @ + 1]
    OBVIOUS
  <2>a. x = [source |-> w.source, started |-> w.started, count |-> w.count + 1]
    <3>1. PICK y \in [source : Source, started : Nat, count : Nat] : y = w
      BY <1>5 DEF WindowRow
    <3>2. x = [source |-> y.source, started |-> y.started, count |-> y.count + 1]
      BY <2>1, <3>1
    <3> QED BY <3>1, <3>2
  <2>2. second < w.started + WindowLength
    BY <1>6, <1>7, <1>10, EdgeNumbers DEF Expired
  <2>3. /\ x \in WindowRow /\ x.source = s /\ x.started <= second /\ x.count <= Quota
        /\ x.count <= Cardinality(Slice(Append(a, second), x.started, x.started + WindowLength))
        /\ AllKnown(w, a) => AllKnown(x, Append(a, second))
    <3>1. w.count < Quota
      BY <1>10
    <3> QED BY <1>5, <1>6, <1>7, <2>a, <2>2, <3>1, CountsKnown
  <2>4. windows' = Append(base, x) /\ AdmitVisit(v)
    BY <1>10, <2>1
  <2> QED BY <1>8, <2>3, <2>4
<1>11. CASE ~Expired(w) /\ w.count >= Quota /\ windows' = Append(base, w) /\ RefuseVisit(v)
  <2>1. admitted' = admitted
    BY <1>11 DEF RefuseVisit
  <2>2. WindowsFit' /\ windows' \in Seq(WindowRow) /\ Len(windows') <= MaxWindows
    <3>1. WindowFits(w)'
      BY <1>3, <1>5, <2>1 DEF WindowFits
    <3>2. Calm' => /\ Calm /\ WindowKnowsAll(w)'
                   /\ \A from \in Nat :
                        Cardinality(Slice(admitted'[s], from, from + WindowLength)) <= 2 * Quota
      BY <1>5, <2>1 DEF Calm, Admitted, WindowKnowsAll, SpansFit
    <3>3. /\ admitted' \in [Source -> Seq(Nat)]
          /\ \A u \in Source \ {s} : admitted'[u] = admitted[u]
          /\ \A j \in 1..Len(admitted'[s]) : admitted'[s][j] <= second
      BY <2>1 DEF EdgeInv, EdgeTyped, WindowsFit
    <3> QED BY <1>3, <1>4, <1>5, <1>11, <3>1, <3>2, <3>3, WindowWritten
  <2>3. Len(admitted[visit[v].source]) >= Quota
    <3>1. /\ Cardinality(Slice(a, w.started, w.started + WindowLength)) \in Nat
          /\ Cardinality(Slice(a, w.started, w.started + WindowLength)) <= Len(a)
          /\ Len(a) \in Nat
      BY SliceIsFinite
    <3> QED BY <1>1, <1>6, <1>7, <1>11, <3>1, EdgeNumbers
  <2> QED BY <1>3, <1>11, <2>2, <2>3, QuotaAnswered
<1> QED BY <1>2, <1>9, <1>10, <1>11

----------------------------------------------------------------------------
LEMMA EdgeSteps ==
  ASSUME EdgeInv, EdgeNext \/ UNCHANGED edgeVars
  PROVE  EdgeInv'
<1>1. ASSUME NEW v \in Visit, CheckQuota(v) PROVE EdgeInv'
  <2>1. NewWindow(v) \/ KnownWindow(v)
    BY <1>1 DEF CheckQuota
  <2> QED BY <1>1, <2>1, NewWindowStep, KnownWindowStep
<1> QED BY <1>1, PassingStep, AroundStep DEF EdgeNext

LEMMA EdgeBegins ==
  ASSUME NEW W, VisitAsks(W), EdgeStart(W)
  PROVE  EdgeInv
<1>1. PICK ways \in [Visit -> W] : Visiting(ways)
  BY DEF EdgeStart
<1>2. EdgeInit
  BY DEF EdgeStart
<1>3. ASSUME NEW v \in Visit
      PROVE  visit[v] \in VisitRow /\ visit[v].at = "outside" /\ ~visit[v].refused
  <2>1. ways[v] \in Source \X Paths
    BY <1>1 DEF VisitAsks
  <2>2. ways[v][1] \in Source /\ ways[v][2] \in Paths
    BY <2>1
  <2>3. visit[v] = [source |-> ways[v][1], path |-> ways[v][2], at |-> "outside", class |-> "none", refused |-> FALSE]
    BY <1>1, <2>2 DEF Visiting
  <2>4. "none" \in VisitClass /\ "outside" \in VisitAt
    BY EdgeWords
  <2> QED BY <2>2, <2>3, <2>4 DEF VisitRow
<1>4. visit \in [Visit -> VisitRow]
  <2>1. visit = [v \in Visit |-> visit[v]]
    BY <1>1 DEF Visiting
  <2> QED BY <1>3, <2>1
<1>5. EdgeTyped
  <2>1. 0 \in 0..LastSecond /\ Len(<<>>) = 0 /\ <<>> \in Seq(WindowRow) /\ <<>> \in Seq(Nat)
    BY EdgeNumbers
  <2> QED BY <1>2, <1>4, <2>1, EdgeNumbers DEF EdgeInit, EdgeTyped
<1>6. VisitsFit
  BY <1>3 DEF VisitsFit
<1>7. CountsAreExact
  <2>1. BeingServed = {} /\ \A c \in Classes : ServedAs(c) = {}
    BY <1>3 DEF BeingServed, ServedAs
  <2> QED BY <1>2, <2>1, FS_EmptySet DEF CountsAreExact, BeingServed, ServedAs, EdgeInit
<1>8. WindowsFit
  <2>1. windows = <<>> /\ Len(windows) = 0 /\ \A s \in Source : admitted[s] = <<>> /\ Len(admitted[s]) = 0
    BY <1>2 DEF EdgeInit
  <2>2. Admitted = {}
    BY <2>1 DEF Admitted
  <2>3. ASSUME NEW s \in Source, NEW from \in Nat
        PROVE  Cardinality(Slice(admitted[s], from, from + WindowLength)) <= 2 * Quota
    <3>1. Slice(admitted[s], from, from + WindowLength) = {}
      BY <2>1 DEF Slice
    <3> QED BY <3>1, FS_EmptySet, EdgeNumbers
  <2> QED BY <2>1, <2>2, <2>3 DEF WindowsFit, EdgeCalm
<1> QED BY <1>5, <1>6, <1>7, <1>8 DEF EdgeInv

\* What the invariant says of the property.
LEMMA EdgeKeepsWord ==
  ASSUME EdgeInv
  PROVE  EdgeTypeOK /\ EdgeIsSound
<1>0. EdgeTyped /\ VisitsFit /\ CountsAreExact /\ WindowsFit
  BY DEF EdgeInv
<1>1. EdgeTypeOK
  <2>1. ASSUME NEW v \in Visit PROVE visit[v].at \in VisitAt /\ visit[v].class \in VisitClass
    BY <1>0 DEF EdgeTyped, VisitRow
  <2> QED BY <1>0, <2>1 DEF EdgeTypeOK, EdgeTyped, VisitAt, VisitClass
<1>2. ASSUME NEW s \in Source, NEW from \in Nat
      PROVE  Within(s, from) = Slice(admitted[s], from, from + WindowLength)
  BY <1>0 DEF EdgeTyped, Within, Slice
<1>3. TwiceTheQuota
  <2>1. ASSUME NEW s \in Source, NEW from \in 0..LastSecond, Calm PROVE Cardinality(Within(s, from)) <= 2 * Quota
    <3>1. from \in Nat
      BY EdgeNumbers
    <3> QED BY <1>0, <1>2, <2>1, <3>1 DEF WindowsFit, EdgeCalm
  <2> QED BY <2>1 DEF TwiceTheQuota, Calm, Admitted
<1>4. WindowsAreTrue
  <2>1. windows \in Seq(WindowRow) /\ DOMAIN windows = 1..Len(windows)
    BY <1>0 DEF EdgeTyped
  <2>2. ASSUME NEW i \in 1..Len(windows)
        PROVE  LET w == windows[i] IN w.count <= Quota /\ w.count <= Cardinality(Within(w.source, w.started))
    <3>1. PICK w \in WindowRow : w = windows[i]
      BY <2>1
    <3>2. w.source \in Source /\ w.started \in Nat /\ WindowFits(w)
      BY <1>0, <3>1 DEF WindowRow, WindowsFit
    <3> QED BY <1>2, <3>1, <3>2 DEF WindowFits
  <2>3. \A v \in Visit : visit[v].refused => Len(admitted[visit[v].source]) >= Quota
    BY <1>0 DEF VisitsFit
  <2>4. \A i, j \in 1..Len(windows) : windows[i].source = windows[j].source => i = j
    BY <1>0 DEF WindowsFit
  <2> QED BY <2>1, <2>2, <2>3, <2>4 DEF WindowsAreTrue
<1> QED BY <1>0, <1>1, <1>3, <1>4 DEF EdgeIsSound

\* For any number of requests and sources, any quota, window and number of windows:
\* the gauge and the counter are exact, and a source gets at most twice its quota in
\* any span of a window's length.  middleware.py:55-105, rate_limit.py:76-107.
THEOREM EdgeAlwaysSound ==
  ASSUME NEW CONSTANT W, VisitAsks(W)
  PROVE  EdgeStart(W) /\ [][EdgeNext]_edgeVars => [](EdgeTypeOK /\ EdgeIsSound)
<1>1. EdgeStart(W) => EdgeInv
  BY EdgeBegins
<1>2. EdgeInv /\ [EdgeNext]_edgeVars => EdgeInv'
  BY EdgeSteps
<1>3. EdgeInv => EdgeTypeOK /\ EdgeIsSound
  BY EdgeKeepsWord
<1> QED BY <1>1, <1>2, <1>3, PTL

----------------------------------------------------------------------------
(* Loops of workers.  What a loop remembers is a count over the outcomes of its *)
(* cycles since the last one that resets it.                                    *)

\* The cycles of a sequence of outcomes a that count, since the last one that resets.
Since(a, counted, reset) ==
  {n \in 1..Len(a) : a[n] \in counted /\ \A m \in 1..Len(a) : m > n => a[m] \notin reset}
SinceLast(a, counted, reset) == Cardinality(Since(a, counted, reset))

LEMMA LoopNumbers ==
  /\ ActivePause \in Nat /\ IdlePause \in Nat /\ MaxCycles \in Nat
  /\ \A k \in Streaks : FirstPause[k] \in Nat /\ LongestPause[k] \in Nat
  /\ \A n \in 0..MaxCycles : 2^n \in Nat
BY LoopAssumption

LEMMA SinceIsFinite ==
  ASSUME NEW a, Len(a) \in Nat, NEW c, NEW r
  PROVE  /\ IsFiniteSet(Since(a, c, r)) /\ SinceLast(a, c, r) \in Nat
         /\ SinceLast(a, c, r) <= Len(a)
<1>1. IsFiniteSet(1..Len(a)) /\ Cardinality(1..Len(a)) = Len(a)
  <2>1. PICK n \in Nat : n = Len(a)
    OBVIOUS
  <2>2. IsFiniteSet(1..n) /\ Cardinality(1..n) = IF 1 > n THEN 0 ELSE n - 1 + 1
    BY FS_Interval
  <2> QED BY <2>1, <2>2
<1>2. Since(a, c, r) \in SUBSET (1..Len(a))
  BY DEF Since
<1> QED BY <1>1, <1>2, FS_Subset, FS_CardinalityType DEF SinceLast

\* A further cycle ends the streak, lengthens it, or is none of its business.
LEMMA SinceGrows ==
  ASSUME NEW S, NEW a \in Seq(S), NEW o, NEW c, NEW r
  PROVE  /\ o \in r /\ o \notin c => SinceLast(Append(a, o), c, r) = 0
         /\ o \notin r /\ o \in c => SinceLast(Append(a, o), c, r) = SinceLast(a, c, r) + 1
         /\ o \notin r /\ o \notin c => SinceLast(Append(a, o), c, r) = SinceLast(a, c, r)
<1>1. /\ Len(Append(a, o)) = Len(a) + 1 /\ Len(a) \in Nat /\ Append(a, o)[Len(a) + 1] = o
      /\ \A i \in 1..Len(a) : Append(a, o)[i] = a[i]
  OBVIOUS
<1>2. ASSUME o \in r, o \notin c PROVE SinceLast(Append(a, o), c, r) = 0
  <2>1. Since(Append(a, o), c, r) = {}
    BY <1>1, <1>2 DEF Since
  <2> QED BY <2>1, FS_EmptySet DEF SinceLast
<1>3. ASSUME o \notin r, o \in c PROVE SinceLast(Append(a, o), c, r) = SinceLast(a, c, r) + 1
  <2>1. Since(Append(a, o), c, r) = Since(a, c, r) \cup {Len(a) + 1}
    BY <1>1, <1>3 DEF Since
  <2>2. Len(a) + 1 \notin Since(a, c, r)
    BY <1>1 DEF Since
  <2>3. IsFiniteSet(Since(a, c, r))
    BY <1>1, SinceIsFinite
  <2> QED BY <2>1, <2>2, <2>3, FS_AddElement DEF SinceLast
<1>4. ASSUME o \notin r, o \notin c PROVE SinceLast(Append(a, o), c, r) = SinceLast(a, c, r)
  <2>1. Since(Append(a, o), c, r) = Since(a, c, r)
    BY <1>1, <1>4 DEF Since
  <2> QED BY <2>1 DEF SinceLast
<1> QED BY <1>2, <1>3, <1>4

----------------------------------------------------------------------------
LoopAt == {"new", "connecting", "looking", "cycle", "cycled", "pausing", "closing", "over"}
HealthState == {"STOPPED", "RUNNING", "DEGRADED", "STOPPING"}
HealthRow == [state : HealthState, failures : Nat, cycles : Nat]
StreakRow == [retry : Nat, empty : Nat]
ConnectedRow == [started : Nat, closed : Nat]
LoopOutcome == {"failed", "empty", "work", "retry", "dead", "ignored", "part"}

FailedOutcomes == {"failed", "retry"}
Good == {"work", "part", "ignored", "dead", "empty"}
Full == {"work", "part", "ignored", "dead", "retry"}

LoopTyped ==
  /\ worker \in Workers5 /\ loop \in LoopAt /\ stopAsked \in BOOLEAN
  /\ health \in HealthRow /\ streak \in StreakRow /\ connected \in ConnectedRow
  /\ pause \in Nat
  /\ outcomes \in Seq(Outcomes(worker)) /\ outcomes \in Seq(LoopOutcome) /\ Len(outcomes) <= MaxCycles

\* The counters are what the cycles came to.
StreaksFit ==
  /\ health.failures = SinceLast(outcomes, FailedOutcomes, Good)
  /\ streak.retry = SinceLast(outcomes, {"retry"}, Good)
  /\ streak.empty = SinceLast(outcomes, {"empty"}, Full)

PauseOf(kind, n) == 2 * pause >= Doubled(kind, n) /\ pause <= Doubled(kind, n)

\* What the last cycle asked for.
PauseFits(last) ==
  /\ last = "failed" => PauseOf("error", SinceLast(outcomes, FailedOutcomes, Good))
  /\ last = "retry" => PauseOf("retry", SinceLast(outcomes, {"retry"}, Good))
  /\ last = "empty" => IF worker \in {"retention", "reclaim"} THEN pause = IdlePause
                       ELSE PauseOf("empty", SinceLast(outcomes, {"empty"}, Full))
  /\ last \in {"work", "part", "ignored", "dead"} =>
       pause = IF worker = "reclaim" \/ last = "part" THEN IdlePause ELSE ActivePause

LoopFits ==
  /\ loop \in {"new", "connecting"} => outcomes = <<>> /\ connected.started = 0
  /\ loop \in {"connecting", "closing"} => Consumes(worker)
  /\ loop = "cycle" => Len(outcomes) < MaxCycles
  /\ loop \in {"cycled", "pausing"} => Len(outcomes) > 0 /\ PauseFits(outcomes[Len(outcomes)])
  /\ health.state = "DEGRADED" => health.failures > 0
  /\ loop \notin {"new", "closing", "over"} /\ health.state = "RUNNING" => health.failures = 0
  /\ health.state = "STOPPED" <=> loop \in {"new", "over"}
  /\ connected.started <= 1
  /\ connected.closed = IF Consumes(worker) /\ loop = "over" THEN 1 ELSE 0

LoopsInv == LoopTyped /\ StreaksFit /\ LoopFits

LoopsStart == LoopsInit /\ worker \in Workers5

LEMMA LoopWords ==
  /\ LoopAt = {"new", "connecting", "looking", "cycle", "cycled", "pausing", "closing", "over"}
  /\ HealthState = {"STOPPED", "RUNNING", "DEGRADED", "STOPPING"}
BY DEF LoopAt, HealthState

\* Its own state is all a loop changes of its health between its cycles.
LEMMA HealthMoves ==
  ASSUME health \in HealthRow, NEW state \in HealthState
  PROVE  /\ health' = [health EXCEPT !.state = state] =>
              /\ health' \in HealthRow /\ health'.state = state /\ health'.failures = health.failures
         /\ \A f \in Nat : Settles(state, f) =>
              health' \in HealthRow /\ health'.state = state /\ health'.failures = f
<1>1. PICK x \in [state : HealthState, failures : Nat, cycles : Nat] : x = health
  BY DEF HealthRow
<1>2. ASSUME health' = [health EXCEPT !.state = state]
      PROVE  health' \in HealthRow /\ health'.state = state /\ health'.failures = health.failures
  <2>1. PICK y : y = [x EXCEPT !.state = state]
    OBVIOUS
  <2>2. y = [state |-> state, failures |-> x.failures, cycles |-> x.cycles]
    BY <2>1
  <2>3. health' = y
    BY <1>1, <1>2, <2>1
  <2> QED BY <1>1, <2>2, <2>3 DEF HealthRow
<1>3. ASSUME NEW f \in Nat, Settles(state, f)
      PROVE  health' \in HealthRow /\ health'.state = state /\ health'.failures = f
  <2>1. PICK y : y = [x EXCEPT !.state = state, !.failures = f, !.cycles = @ + 1]
    OBVIOUS
  <2>2. y = [state |-> state, failures |-> f, cycles |-> x.cycles + 1]
    BY <2>1
  <2>3. health' = y
    BY <1>1, <1>3, <2>1 DEF Settles
  <2> QED BY <1>1, <2>2, <2>3 DEF HealthRow
<1> QED BY <1>2, <1>3

\* A pause is of the length it is told to have.
LEMMA DelaysFit ==
  ASSUME NEW kind \in Streaks, NEW n \in 1..(MaxCycles + 1), PausesFor(BackoffDelay(kind, n))
  PROVE  pause' \in Nat /\ 2 * pause' >= Doubled(kind, n) /\ pause' <= Doubled(kind, n)
<1>1. n - 1 \in 0..MaxCycles /\ FirstPause[kind] \in Nat /\ LongestPause[kind] \in Nat
  BY LoopNumbers
<1>2. PICK p \in Nat : p = 2^(n - 1)
  BY <1>1, LoopNumbers
<1>3. FirstPause[kind] * p \in Nat
  BY <1>1, <1>2
<1>4. Doubled(kind, n) \in Nat
  BY <1>1, <1>2, <1>3 DEF Doubled
<1>5. PICK d \in Nat : d = Doubled(kind, n)
  BY <1>4
<1>6. pause' = d \/ pause' = (d + 1) \div 2
  BY <1>5 DEF PausesFor, BackoffDelay
<1> QED BY <1>5, <1>6

----------------------------------------------------------------------------
\* What follows from an outcome.
LEMMA ReachesWhat ==
  /\ Reaches("failed") <=> CycleFails
  /\ Reaches("retry") <=> Retries
  /\ Reaches("empty") <=> FindsNothing
  /\ \A o \in {"work", "part", "ignored", "dead"} : Reaches(o) <=> FindsWork(o)
BY DEF Reaches

\* The counters and the pause after a cycle.
LEMMA CycleCounts ==
  ASSUME LoopsInv, loop = "cycle", NEW o \in LoopOutcome, Reaches(o),
         outcomes' = Append(outcomes, o), UNCHANGED worker
  PROVE  /\ StreaksFit' /\ health' \in HealthRow /\ streak' \in StreakRow /\ pause' \in Nat
         /\ PauseFits(o)'
         /\ health'.state \in {"DEGRADED", "RUNNING"}
         /\ health'.state = "DEGRADED" => health'.failures > 0
         /\ health'.state = "RUNNING" => health'.failures = 0
<1>0. /\ outcomes \in Seq(LoopOutcome) /\ health \in HealthRow /\ streak \in StreakRow /\ StreaksFit
      /\ Len(outcomes) \in Nat /\ Len(outcomes) < MaxCycles
  BY DEF LoopsInv, LoopTyped, LoopFits
<1> DEFINE F == SinceLast(outcomes, FailedOutcomes, Good)
           R == SinceLast(outcomes, {"retry"}, Good)
           E == SinceLast(outcomes, {"empty"}, Full)
           F1 == SinceLast(Append(outcomes, o), FailedOutcomes, Good)
           R1 == SinceLast(Append(outcomes, o), {"retry"}, Good)
           E1 == SinceLast(Append(outcomes, o), {"empty"}, Full)
<1>1. /\ F \in Nat /\ R \in Nat /\ E \in Nat
      /\ F <= Len(outcomes) /\ R <= Len(outcomes) /\ E <= Len(outcomes)
  BY <1>0, SinceIsFinite
<1>2. /\ F + 1 \in 1..(MaxCycles + 1) /\ R + 1 \in 1..(MaxCycles + 1) /\ E + 1 \in 1..(MaxCycles + 1)
      /\ health.failures = F /\ streak.retry = R /\ streak.empty = E
  <2>1. MaxCycles \in Nat
    BY LoopNumbers
  <2> HIDE DEF F, R, E
  <2>2. /\ F + 1 \in 1..(MaxCycles + 1) /\ R + 1 \in 1..(MaxCycles + 1) /\ E + 1 \in 1..(MaxCycles + 1)
    BY <1>0, <1>1, <2>1
  <2>3. health.failures = F /\ streak.retry = R /\ streak.empty = E
    BY <1>0 DEF StreaksFit, F, R, E
  <2> QED BY <2>2, <2>3
<1>3. SinceLast(outcomes', FailedOutcomes, Good) = F1 /\ SinceLast(outcomes', {"retry"}, Good) = R1
      /\ SinceLast(outcomes', {"empty"}, Full) = E1
  OBVIOUS
<1>4. /\ o \in Good => F1 = 0 /\ R1 = 0
      /\ o \in FailedOutcomes => F1 = F + 1
      /\ o = "retry" => R1 = R + 1
      /\ o = "failed" => R1 = R /\ E1 = E
      /\ o \in Full => E1 = 0
      /\ o = "empty" => E1 = E + 1
  <2>1. /\ o \in Good => o \notin FailedOutcomes /\ o \notin {"retry"}
        /\ o \in FailedOutcomes => o \notin Good
        /\ o = "retry" => o \in {"retry"} /\ o \notin Good
        /\ o = "failed" => o \notin {"retry"} /\ o \notin Good /\ o \notin {"empty"} /\ o \notin Full
        /\ o \in Full => o \notin {"empty"}
        /\ o = "empty" => o \in {"empty"} /\ o \notin Full
    BY DEF Good, FailedOutcomes, Full
  <2>2. o \in Good => F1 = 0 /\ R1 = 0
    BY <1>0, <2>1, SinceGrows
  <2>3. o \in FailedOutcomes => F1 = F + 1
    BY <1>0, <2>1, SinceGrows
  <2>4. o = "retry" => R1 = R + 1
    BY <1>0, <2>1, SinceGrows
  <2>5. o = "failed" => R1 = R /\ E1 = E
    BY <1>0, <2>1, SinceGrows
  <2>6. o \in Full => E1 = 0
    BY <1>0, <2>1, SinceGrows
  <2>7. o = "empty" => E1 = E + 1
    BY <1>0, <2>1, SinceGrows
  <2> QED BY <2>2, <2>3, <2>4, <2>5, <2>6, <2>7
<1>5. PICK s \in [retry : Nat, empty : Nat] : s = streak
  BY <1>0 DEF StreakRow
<1> HIDE DEF F, R, E, F1, R1, E1
<1>6. CASE o = "failed"
  <2>1. CycleFails
    BY <1>6, ReachesWhat
  <2>2. health' \in HealthRow /\ health'.state = "DEGRADED" /\ health'.failures = F + 1 /\ streak' = streak
    BY <1>0, <1>1, <1>2, <2>1, HealthMoves, LoopWords DEF CycleFails
  <2>3. pause' \in Nat /\ 2 * pause' >= Doubled("error", F + 1) /\ pause' <= Doubled("error", F + 1)
    BY <1>2, <2>1, DelaysFit DEF CycleFails, Streaks
  <2>4. StreaksFit'
    BY <1>2, <1>3, <1>4, <1>6, <2>2 DEF StreaksFit, FailedOutcomes
  <2>5. PauseFits(o)'
    BY <1>3, <1>4, <1>6, <2>3 DEF PauseFits, PauseOf, FailedOutcomes
  <2> QED BY <1>0, <1>1, <2>2, <2>3, <2>4, <2>5
<1>7. CASE o = "retry"
  <2>1. Retries
    BY <1>7, ReachesWhat
  <2>2. health' \in HealthRow /\ health'.state = "DEGRADED" /\ health'.failures = F + 1
    BY <1>0, <1>1, <1>2, <2>1, HealthMoves, LoopWords DEF Retries
  <2>3. streak' = [retry |-> R + 1, empty |-> 0]
    <3>1. PICK y : y = [s EXCEPT !.retry = @ + 1, !.empty = 0]
      OBVIOUS
    <3>2. y = [retry |-> s.retry + 1, empty |-> 0]
      BY <3>1
    <3>3. streak' = y
      BY <1>5, <2>1, <3>1 DEF Retries
    <3> QED BY <1>2, <1>5, <3>2, <3>3
  <2>4. pause' \in Nat /\ 2 * pause' >= Doubled("retry", R + 1) /\ pause' <= Doubled("retry", R + 1)
    BY <1>2, <2>1, DelaysFit DEF Retries, Streaks
  <2>5. StreaksFit' /\ streak' \in StreakRow
    BY <1>1, <1>3, <1>4, <1>7, <2>2, <2>3 DEF StreaksFit, FailedOutcomes, Full, StreakRow
  <2>6. PauseFits(o)'
    BY <1>3, <1>4, <1>7, <2>4 DEF PauseFits, PauseOf
  <2> QED BY <1>1, <2>2, <2>4, <2>5, <2>6
<1>8. CASE o = "empty"
  <2>1. FindsNothing
    BY <1>8, ReachesWhat
  <2>2. health' \in HealthRow /\ health'.state = "RUNNING" /\ health'.failures = 0
    BY <1>0, <2>1, HealthMoves, LoopWords DEF FindsNothing
  <2>3. streak' = [retry |-> 0, empty |-> E + 1]
    BY <1>2, <2>1 DEF FindsNothing
  <2>4. /\ pause' \in Nat
        /\ IF worker \in {"retention", "reclaim"} THEN pause' = IdlePause
           ELSE 2 * pause' >= Doubled("empty", E + 1) /\ pause' <= Doubled("empty", E + 1)
    <3>1. CASE worker \in {"retention", "reclaim"}
      BY <2>1, <3>1, LoopNumbers DEF FindsNothing, PausesFor
    <3>2. CASE worker \notin {"retention", "reclaim"}
      <4>1. PausesFor(BackoffDelay("empty", E + 1))
        BY <1>2, <2>1, <3>2 DEF FindsNothing
      <4> QED BY <1>2, <3>2, <4>1, DelaysFit DEF Streaks
    <3> QED BY <3>1, <3>2
  <2>5. StreaksFit' /\ streak' \in StreakRow
    BY <1>1, <1>3, <1>4, <1>8, <2>2, <2>3 DEF StreaksFit, Good, StreakRow
  <2>6. PauseFits(o)'
    BY <1>3, <1>4, <1>8, <2>4 DEF PauseFits, PauseOf
  <2> QED BY <2>2, <2>4, <2>5, <2>6
<1>9. CASE o \in {"work", "part", "ignored", "dead"}
  <2>1. FindsWork(o)
    BY <1>9, ReachesWhat
  <2>2. health' \in HealthRow /\ health'.state = "RUNNING" /\ health'.failures = 0
    BY <1>0, <2>1, HealthMoves, LoopWords DEF FindsWork
  <2>3. streak' = [retry |-> 0, empty |-> 0]
    BY <2>1 DEF FindsWork
  <2>4. pause' \in Nat /\ pause' = (IF worker = "reclaim" \/ o = "part" THEN IdlePause ELSE ActivePause)
    BY <2>1, LoopNumbers DEF FindsWork, PausesFor
  <2>5. o \in Good /\ o \in Full
    BY <1>9 DEF Good, Full
  <2>6. StreaksFit' /\ streak' \in StreakRow
    BY <1>3, <1>4, <2>2, <2>3, <2>5 DEF StreaksFit, StreakRow
  <2>7. PauseFits(o)'
    BY <1>9, <2>4 DEF PauseFits
  <2> QED BY <2>2, <2>4, <2>6, <2>7
<1> QED BY <1>6, <1>7, <1>8, <1>9 DEF LoopOutcome

LEMMA EndsCycleStep ==
  ASSUME LoopsInv, EndsCycle
  PROVE  LoopsInv'
<1>0. LoopTyped /\ LoopFits /\ loop = "cycle" /\ loop' = "cycled" /\ UNCHANGED <<worker, stopAsked, connected>>
  BY DEF LoopsInv, EndsCycle, LoopGoes
<1>1. PICK o \in Outcomes(worker) : Reaches(o) /\ outcomes' = Append(outcomes, o)
  BY DEF EndsCycle
<1>2. o \in LoopOutcome
  BY <1>0, <1>1 DEF LoopTyped, Outcomes, LoopOutcome, Workers5
<1>3. /\ outcomes' \in Seq(Outcomes(worker)) /\ outcomes' \in Seq(LoopOutcome)
      /\ Len(outcomes') = Len(outcomes) + 1 /\ outcomes'[Len(outcomes')] = o
      /\ Len(outcomes) < MaxCycles /\ Len(outcomes) \in Nat
  BY <1>0, <1>1, <1>2 DEF LoopTyped, LoopFits
<1>4. /\ StreaksFit' /\ health' \in HealthRow /\ streak' \in StreakRow /\ pause' \in Nat
      /\ PauseFits(o)'
      /\ health'.state \in {"DEGRADED", "RUNNING"}
      /\ health'.state = "DEGRADED" => health'.failures > 0
      /\ health'.state = "RUNNING" => health'.failures = 0
  BY <1>0, <1>1, <1>2, CycleCounts
<1>5. LoopTyped'
  <2>1. Outcomes(worker)' = Outcomes(worker)
    BY <1>0 DEF Outcomes
  <2>2. Len(outcomes') <= MaxCycles
    BY <1>3, LoopNumbers
  <2> QED BY <1>0, <1>3, <1>4, <2>1, <2>2, LoopWords DEF LoopTyped
<1>6. PauseFits(outcomes[Len(outcomes)])'
  BY <1>3, <1>4 DEF PauseFits
<1>7. LoopFits'
  BY <1>0, <1>3, <1>4, <1>6 DEF LoopFits, Consumes
<1> QED BY <1>4, <1>5, <1>7 DEF LoopsInv

\* Between the cycles: what stays, and what the state may become.
LEMMA LoopStays ==
  ASSUME LoopsInv, UNCHANGED <<worker, streak, pause, outcomes>>,
         stopAsked' \in BOOLEAN, loop' \in LoopAt, health' \in HealthRow,
         health'.failures = health.failures, connected' \in ConnectedRow,
         LoopFits'
  PROVE  LoopsInv'
<1>1. Outcomes(worker)' = Outcomes(worker)
  BY DEF Outcomes
<1> QED BY <1>1 DEF LoopsInv, LoopTyped, StreaksFit

LEMMA LeavesWhat ==
  ASSUME LoopsInv, LeavesLoop
  PROVE  /\ health' \in HealthRow /\ health'.failures = health.failures
         /\ \/ Consumes(worker) /\ loop' = "closing" /\ health' = health
            \/ ~Consumes(worker) /\ loop' = "over" /\ health'.state = "STOPPED"
<1>1. health \in HealthRow /\ "STOPPED" \in HealthState
  BY LoopWords DEF LoopsInv, LoopTyped
<1>2. CASE Consumes(worker)
  BY <1>1, <1>2 DEF LeavesLoop, LoopGoes
<1>3. CASE ~Consumes(worker)
  <2>1. loop' = "over" /\ health' = [health EXCEPT !.state = "STOPPED"]
    BY <1>3 DEF LeavesLoop, LoopGoes
  <2> QED BY <1>1, <1>3, <2>1, HealthMoves
<1> QED BY <1>2, <1>3

LEMMA LoopSteps ==
  ASSUME LoopsInv, LoopsNext \/ UNCHANGED loopVars
  PROVE  LoopsInv'
<1>0. LoopTyped /\ LoopFits /\ StreaksFit /\ health \in HealthRow /\ connected \in ConnectedRow
      /\ stopAsked \in BOOLEAN /\ loop \in LoopAt
  BY DEF LoopsInv, LoopTyped
<1>1. CASE RunsLoop
  <2>1. /\ loop = "new" /\ health' = [health EXCEPT !.state = "RUNNING"]
        /\ loop' = (IF Consumes(worker) THEN "connecting" ELSE "looking")
        /\ UNCHANGED <<worker, stopAsked, streak, pause, outcomes, connected>>
    BY <1>1 DEF RunsLoop, LoopGoes
  <2>2. health' \in HealthRow /\ health'.state = "RUNNING" /\ health'.failures = health.failures
    BY <1>0, <2>1, HealthMoves, LoopWords
  <2>3. health.failures = 0
    <3>1. outcomes = <<>> /\ Len(<<>>) = 0
      BY <1>0, <2>1 DEF LoopFits
    <3>2. Since(outcomes, FailedOutcomes, Good) = {}
      BY <3>1 DEF Since
    <3> QED BY <1>0, <3>2, FS_EmptySet DEF StreaksFit, SinceLast
  <2>4. LoopFits'
    BY <1>0, <2>1, <2>2, <2>3 DEF LoopFits, Consumes
  <2> QED BY <1>0, <2>1, <2>2, <2>4, LoopStays, LoopWords
<1>2. CASE ConsumerStarts
  <2>1. /\ loop = "connecting" /\ UNCHANGED <<worker, stopAsked, health, streak, pause, outcomes>>
        /\ \/ loop' = "looking" /\ connected' = [connected EXCEPT !.started = @ + 1]
           \/ loop' = "closing" /\ UNCHANGED connected
    BY <1>2 DEF ConsumerStarts, LoopGoes
  <2>2. connected.started = 0 /\ Consumes(worker)
    BY <1>0, <2>1 DEF LoopFits
  <2>3. /\ connected' \in ConnectedRow /\ connected'.closed = connected.closed
        /\ connected'.started \in {0, 1} /\ loop' \in {"looking", "closing"}
    <3>1. CASE loop' = "looking" /\ connected' = [connected EXCEPT !.started = @ + 1]
      <4>1. PICK x \in [started : Nat, closed : Nat] : x = connected
        BY <1>0 DEF ConnectedRow
      <4>2. PICK y : y = [x EXCEPT !.started = @ + 1]
        OBVIOUS
      <4>3. y = [started |-> x.started + 1, closed |-> x.closed]
        BY <4>2
      <4>4. connected' = y
        BY <3>1, <4>1, <4>2
      <4> QED BY <2>2, <3>1, <4>1, <4>3, <4>4 DEF ConnectedRow
    <3>2. CASE loop' = "closing" /\ UNCHANGED connected
      BY <1>0, <2>2, <3>2
    <3> QED BY <2>1, <3>1, <3>2
  <2>4. LoopFits'
    BY <1>0, <2>1, <2>2, <2>3 DEF LoopFits, Consumes
  <2> QED BY <1>0, <2>1, <2>3, <2>4, LoopStays, LoopWords
<1>3. CASE BeginsCycle \/ AfterCycle
  <2>1. /\ UNCHANGED <<worker, stopAsked, streak, pause, outcomes, connected>>
        /\ loop \in {"looking", "cycled"}
        /\ \/ LeavesLoop
           \/ /\ UNCHANGED health
              /\ \/ loop = "cycled" /\ loop' = "pausing"
                 \/ loop = "looking" /\ loop' = "cycle" /\ Len(outcomes) < MaxCycles
    BY <1>3 DEF BeginsCycle, AfterCycle, LoopGoes
  <2>2. CASE LeavesLoop
    <3>1. /\ health' \in HealthRow /\ health'.failures = health.failures
          /\ \/ Consumes(worker) /\ loop' = "closing" /\ health' = health
             \/ ~Consumes(worker) /\ loop' = "over" /\ health'.state = "STOPPED"
      BY <2>2, LeavesWhat
    <3>2. LoopFits'
      BY <1>0, <2>1, <3>1 DEF LoopFits, Consumes
    <3> QED BY <1>0, <2>1, <3>1, <3>2, LoopStays, LoopWords
  <2>3. CASE UNCHANGED health /\ loop = "cycled" /\ loop' = "pausing"
    <3>1. PauseFits(outcomes[Len(outcomes)])'
      BY <1>0, <2>1, <2>3 DEF LoopFits, PauseFits, PauseOf
    <3>2. LoopFits'
      BY <1>0, <2>1, <2>3, <3>1 DEF LoopFits, Consumes
    <3> QED BY <1>0, <2>1, <2>3, <3>2, LoopStays, LoopWords
  <2>4. CASE UNCHANGED health /\ loop = "looking" /\ loop' = "cycle" /\ Len(outcomes) < MaxCycles
    <3>1. LoopFits'
      BY <1>0, <2>1, <2>4 DEF LoopFits, Consumes
    <3> QED BY <1>0, <2>1, <2>4, <3>1, LoopStays, LoopWords
  <2> QED BY <2>1, <2>2, <2>3, <2>4
<1>4. CASE EndsCycle
  BY <1>4, EndsCycleStep
<1>5. CASE PauseEnds
  <2>1. loop = "pausing" /\ loop' = "looking"
        /\ UNCHANGED <<worker, stopAsked, health, streak, pause, outcomes, connected>>
    BY <1>5 DEF PauseEnds, LoopGoes
  <2>2. LoopFits'
    BY <1>0, <2>1 DEF LoopFits, Consumes
  <2> QED BY <1>0, <2>1, <2>2, LoopStays, LoopWords
<1>6. CASE RequestStop
  <2>1. /\ stopAsked' = TRUE /\ UNCHANGED <<worker, loop, streak, pause, outcomes, connected>>
        /\ health' = (IF loop \in {"new", "over"} THEN health ELSE [health EXCEPT !.state = "STOPPING"])
    BY <1>6 DEF RequestStop
  <2>2. /\ health' \in HealthRow /\ health'.failures = health.failures
        /\ IF loop \in {"new", "over"} THEN health' = health ELSE health'.state = "STOPPING"
    <3>1. CASE loop \in {"new", "over"}
      BY <1>0, <2>1, <3>1
    <3>2. CASE loop \notin {"new", "over"}
      <4>1. health' = [health EXCEPT !.state = "STOPPING"]
        BY <2>1, <3>2
      <4> QED BY <1>0, <3>2, <4>1, HealthMoves, LoopWords
    <3> QED BY <3>1, <3>2
  <2>3. loop \in {"cycled", "pausing"} => PauseFits(outcomes[Len(outcomes)])'
    BY <1>0, <2>1 DEF LoopFits, PauseFits, PauseOf
  <2>4. LoopFits'
    <3>1. loop' \in {"cycled", "pausing"} => PauseFits(outcomes[Len(outcomes)])'
      BY <2>1, <2>3
    <3> QED BY <1>0, <2>1, <2>2, <3>1 DEF LoopFits, Consumes
  <2> QED BY <1>0, <2>1, <2>2, <2>4, LoopStays
<1>7. CASE CancelLoop
  <2>1. /\ loop \in {"connecting", "cycle", "pausing"}
        /\ UNCHANGED <<worker, stopAsked, streak, pause, outcomes, connected>>
        /\ \/ Consumes(worker) /\ loop' = "closing" /\ health' = [health EXCEPT !.state = "STOPPING"]
           \/ ~Consumes(worker) /\ loop' = "over" /\ health' = [health EXCEPT !.state = "STOPPED"]
    BY <1>7 DEF CancelLoop, LoopGoes
  <2>2. /\ health' \in HealthRow /\ health'.failures = health.failures
        /\ \/ Consumes(worker) /\ loop' = "closing" /\ health'.state = "STOPPING"
           \/ ~Consumes(worker) /\ loop' = "over" /\ health'.state = "STOPPED"
    BY <1>0, <2>1, HealthMoves, LoopWords
  <2>3. LoopFits'
    BY <1>0, <2>1, <2>2 DEF LoopFits, Consumes
  <2> QED BY <1>0, <2>1, <2>2, <2>3, LoopStays, LoopWords
<1>8. CASE ConsumerCloses5
  <2>1. /\ loop = "closing" /\ loop' = "over" /\ connected' = [connected EXCEPT !.closed = @ + 1]
        /\ health' = [health EXCEPT !.state = "STOPPED"]
        /\ UNCHANGED <<worker, stopAsked, streak, pause, outcomes>>
    BY <1>8 DEF ConsumerCloses5, LoopGoes
  <2>2. health' \in HealthRow /\ health'.state = "STOPPED" /\ health'.failures = health.failures
    BY <1>0, <2>1, HealthMoves, LoopWords
  <2>3. connected.closed = 0 /\ Consumes(worker)
    BY <1>0, <2>1 DEF LoopFits
  <2>4. connected' \in ConnectedRow /\ connected'.closed = 1 /\ connected'.started = connected.started
    <3>1. PICK x \in [started : Nat, closed : Nat] : x = connected
      BY <1>0 DEF ConnectedRow
    <3>2. PICK y : y = [x EXCEPT !.closed = @ + 1]
      OBVIOUS
    <3>3. y = [started |-> x.started, closed |-> x.closed + 1]
      BY <3>2
    <3>4. connected' = y
      BY <2>1, <3>1, <3>2
    <3> QED BY <2>3, <3>1, <3>3, <3>4 DEF ConnectedRow
  <2>5. LoopFits'
    BY <1>0, <2>1, <2>2, <2>3, <2>4 DEF LoopFits, Consumes
  <2> QED BY <1>0, <2>1, <2>2, <2>4, <2>5, LoopStays, LoopWords
<1>9. CASE UNCHANGED loopVars
  <2>1. UNCHANGED <<worker, loop, stopAsked, health, streak, pause, outcomes, connected>>
    BY <1>9 DEF loopVars
  <2>2. loop \in {"cycled", "pausing"} => PauseFits(outcomes[Len(outcomes)])'
    BY <1>0, <2>1 DEF LoopFits, PauseFits, PauseOf
  <2>3. LoopFits'
    BY <1>0, <2>1, <2>2 DEF LoopFits, Consumes
  <2> QED BY <1>0, <2>1, <2>3, LoopStays
<1> QED BY <1>1, <1>2, <1>3, <1>4, <1>5, <1>6, <1>7, <1>8, <1>9 DEF LoopsNext

LEMMA LoopBegins ==
  ASSUME LoopsStart
  PROVE  LoopsInv
<1>1. LoopsInit /\ worker \in Workers5
  BY DEF LoopsStart
<1>2. outcomes = <<>> /\ Len(<<>>) = 0
  BY <1>1 DEF LoopsInit
<1>3. \A c, r : SinceLast(outcomes, c, r) = 0
  <2>1. \A c, r : Since(outcomes, c, r) = {}
    BY <1>2 DEF Since
  <2> QED BY <2>1, FS_EmptySet DEF SinceLast
<1>4. StreaksFit
  BY <1>1, <1>3 DEF LoopsInit, StreaksFit
<1>5. LoopTyped
  <2>1. outcomes \in Seq(Outcomes(worker)) /\ outcomes \in Seq(LoopOutcome) /\ Len(outcomes) <= MaxCycles
    BY <1>2, LoopNumbers
  <2>2. health \in HealthRow /\ streak \in StreakRow /\ connected \in ConnectedRow
    BY <1>1, LoopWords DEF LoopsInit, HealthRow, StreakRow, ConnectedRow
  <2> QED BY <1>1, <2>1, <2>2, LoopWords DEF LoopsInit, LoopTyped
<1>6. LoopFits
  BY <1>1, <1>2 DEF LoopsInit, LoopFits
<1> QED BY <1>4, <1>5, <1>6 DEF LoopsInv

\* What the invariant says of the property.
LEMMA LoopsKeepWord ==
  ASSUME LoopsInv
  PROVE  LoopsTypeOK /\ LoopsAreSound
<1>0. LoopTyped /\ LoopFits /\ StreaksFit
  BY DEF LoopsInv
<1>1. \A c, r : CyclesSince(c, r) = SinceLast(outcomes, c, r)
  <2>1. DOMAIN outcomes = 1..Len(outcomes)
    BY <1>0 DEF LoopTyped
  <2> QED BY <2>1 DEF CyclesSince, SinceLast, Since
<1>2. Works \cup {"empty"} = Good /\ Works \cup {"retry"} = Full /\ Works = {"work", "part", "ignored", "dead"}
  BY DEF Works, Good, Full
<1>3. FailuresInARow = SinceLast(outcomes, FailedOutcomes, Good)
  BY <1>1, <1>2 DEF FailuresInARow, FailedOutcomes
<1>4. LoopsTypeOK
  BY <1>0 DEF LoopTyped, LoopsTypeOK, LoopAt, HealthRow, HealthState
<1>5. PausesFollowHistory
  <2>1. SUFFICES ASSUME loop = "pausing" PROVE PausesFollowHistory
    BY DEF PausesFollowHistory
  <2>2. PauseFits(outcomes[Len(outcomes)])
    BY <1>0, <2>1 DEF LoopFits
  <2>3. outcomes[Len(outcomes)] \in LoopOutcome
    <3>1. outcomes \in Seq(LoopOutcome) /\ Len(outcomes) > 0
      BY <1>0, <2>1 DEF LoopFits, LoopTyped
    <3> QED BY <3>1
  <2> QED
    BY <1>0, <1>1, <1>2, <1>3, <2>2, <2>3 DEF PausesFollowHistory, PauseFits, PauseOf, LoopOutcome
<1>6. HealthIsTrue
  BY <1>0, <1>3 DEF LoopFits, StreaksFit, HealthIsTrue
<1>7. ClosedInTheEnd
  BY <1>0 DEF LoopFits, ClosedInTheEnd
<1> QED BY <1>4, <1>5, <1>6, <1>7 DEF LoopsAreSound

\* No cycle begins once the stop was asked for.
LEMMA NoCycleBegins ==
  ASSUME LoopsNext \/ UNCHANGED loopVars
  PROVE  [stopAsked /\ loop # "cycle" => loop' # "cycle"]_loopVars
BY DEF LoopsNext, loopVars, RunsLoop, ConsumerStarts, BeginsCycle, EndsCycle, AfterCycle, PauseEnds,
       RequestStop, CancelLoop, ConsumerCloses5, LoopGoes, LeavesLoop

\* For any worker, pauses and outcomes: a loop pauses as its cycles ask for, its health
\* is true, its consumer is closed once, and it begins no cycle after a stop.
\* outbox_worker.py:96-206, rca_consumer_runner.py:169-281.
THEOREM LoopsAlwaysSound ==
  LoopsStart /\ [][LoopsNext]_loopVars => [](LoopsTypeOK /\ LoopsAreSound) /\ NoCycleAfterStop
<1>1. LoopsStart => LoopsInv
  BY LoopBegins
<1>2. LoopsInv /\ [LoopsNext]_loopVars => LoopsInv'
  BY LoopSteps
<1>3. LoopsInv => LoopsTypeOK /\ LoopsAreSound
  BY LoopsKeepWord
<1>4. [LoopsNext]_loopVars => [stopAsked /\ loop # "cycle" => loop' # "cycle"]_loopVars
  BY NoCycleBegins
<1> QED BY <1>1, <1>2, <1>3, <1>4, PTL DEF NoCycleAfterStop

----------------------------------------------------------------------------
(* Scrapes.  What one has seen is a floor under what it will show.              *)

ScrapeAt == {"idle", "asking", "counting", "waiting", "querying"}
ReadyWords == {"unknown", "up", "down"}
Totals == [Watched -> Nat]
ScrapeRow == [at : ScrapeAt, seen : Totals, ready : ReadyWords]
BacklogReport == [count : Nat, up : BOOLEAN, stale : BOOLEAN, made : BOOLEAN]
Floor == [count : Nat, total : Totals]
CountRow == [by : Scraper \cup {NoScraper}, since : Nat]

MonitoringTyped ==
  /\ workerHealth \in [Watched -> 0..MaxHealth]
  /\ scrape \in [Scraper -> ScrapeRow] /\ floors \in [Scraper -> Floor]
  /\ highest \in Floor /\ kept \in BacklogReport /\ counting \in CountRow
  /\ attempted \in Nat /\ stormed \in BOOLEAN /\ monitorTime \in 1..LastTime

\* A report made at some time: its count is of then or of the moment before, if it succeeded.
ReportFits(report, at) ==
  /\ report.count <= at
  /\ report.up => at <= report.count + CountTimeout
  /\ report.count # NoCount /\ ~report.up => report.stale
  /\ ~(report.up /\ report.stale)

KeptFits ==
  /\ ReportFits(kept, attempted) /\ attempted <= monitorTime
  /\ highest.count <= kept.count
  /\ counting.by # NoScraper =>
       /\ attempted <= counting.since /\ counting.since <= monitorTime
       /\ monitorTime <= counting.since + CountTimeout

\* What a scrape has seen is not older than what others had shown before it came.
SeenFits(s) ==
  /\ floors[s].count <= highest.count
  /\ scrape[s].ready = "up" /\ workerHealth["outbox"] # None => scrape[s].seen["outbox"] # None
  /\ \A w \in Watched :
       /\ scrape[s].seen[w] <= workerHealth[w]
       /\ floors[s].total[w] <= highest.total[w]
       /\ scrape[s].seen[w] # None => floors[s].total[w] <= scrape[s].seen[w]

HighestFits == \A w \in Watched : highest.total[w] <= workerHealth[w]

OneCounts == \A s \in Scraper : scrape[s].at = "querying" <=> counting.by = s

MonitoringInv ==
  /\ MonitoringTyped /\ KeptFits /\ HighestFits
  /\ \A s \in Scraper : SeenFits(s)
  /\ ~stormed /\ OneCounts /\ CurrentIsRecent /\ OffIsOff

MonitoringStart(H) == MonitoringInit /\ workerHealth \in H

\* What an answer may not show.
ShowsNoLess ==
  lastAnswer'.by # NoScraper /\ lastAnswer' # lastAnswer =>
    LET g == lastAnswer'.gauges
        floor == floors[lastAnswer'.by]
    IN /\ g.backlog.count >= floor.count
       /\ \A w \in Watched : g.worker[w].enabled =>
            \A t \in DOMAIN g.worker[w].totals : g.worker[w].totals[t] >= floor.total[w]

LEMMA MonitoringNumbers ==
  /\ BacklogTtl \in Nat /\ CountTimeout \in Nat /\ MaxHealth \in Nat /\ LastTime \in Nat /\ LastTime >= 1
  /\ NoScraper \notin Scraper
BY MonitoringAssumption

LEMMA MonitoringWords ==
  /\ ScrapeAt = {"idle", "asking", "counting", "waiting", "querying"}
  /\ ReadyWords = {"unknown", "up", "down"} /\ None = 0 /\ NoCount = 0 /\ "outbox" \in Watched
BY DEF ScrapeAt, ReadyWords, None, NoCount, Watched

----------------------------------------------------------------------------
(* The gauges.                                                                *)

LEMMA GaugesWhat ==
  ASSUME NEW w \in Watched, NEW h
  PROVE  /\ WorkerGauges(w, h).enabled = (h # None)
         /\ \A t \in DOMAIN WorkerGauges(w, h).totals : WorkerGauges(w, h).totals[t] = h
<1>1. ASSUME NEW T
      PROVE  /\ GaugesOf(h, T).enabled = (h # None)
             /\ \A t \in DOMAIN GaugesOf(h, T).totals : GaugesOf(h, T).totals[t] = h
  BY DEF GaugesOf
<1>2. \E T : WorkerGauges(w, h) = GaugesOf(h, T)
  <2>1. CASE w = "outbox"
    BY <2>1 DEF WorkerGauges, OutboxGauges
  <2>2. CASE w = "rca_consumer"
    BY <2>2 DEF WorkerGauges, RcaGauges
  <2>3. CASE w = "tickets_consumer"
    BY <2>3 DEF WorkerGauges, TicketsGauges
  <2>4. CASE w = "retention"
    BY <2>4 DEF WorkerGauges, RetentionGauges
  <2>5. CASE w = "reclaim"
    BY <2>5 DEF WorkerGauges, ReclaimGauges
  <2> QED BY <2>1, <2>2, <2>3, <2>4, <2>5 DEF Watched
<1> QED BY <1>1, <1>2

LEMMA GaugesShow ==
  ASSUME NEW seen, NEW ready, NEW report, NEW g, g = GaugesFrom(seen, ready, report)
  PROVE  /\ g.backlog.count = report.count /\ g.backlog.up = report.up /\ g.backlog.stale = report.stale
         /\ g.ready = (ready = "up")
         /\ \A w \in Watched : /\ g.worker[w].enabled = (seen[w] # None)
                               /\ \A t \in DOMAIN g.worker[w].totals : g.worker[w].totals[t] = seen[w]
<1>1. g = [worker |-> [w \in Watched |-> WorkerGauges(w, seen[w])], ready |-> ready = "up",
           backlog |-> [count |-> report.count, up |-> report.up, stale |-> report.stale]]
  BY DEF GaugesFrom, ComponentGauge, BacklogGauges
<1>2. \A w \in Watched : g.worker[w] = WorkerGauges(w, seen[w])
  BY <1>1
<1> QED BY <1>1, <1>2, GaugesWhat

\* A step without an answer.
LEMMA NothingTold ==
  ASSUME NothingAnswered
  PROVE  CurrentIsRecent' /\ OffIsOff' /\ ShowsNoLess
<1>1. PICK g : g = GaugesFrom(NotScraping.seen, "unknown", NothingReported)
  OBVIOUS
<1>2. lastAnswer' = [by |-> NoScraper, at |-> 0, gauges |-> g]
  BY <1>1 DEF NothingAnswered, NoAnswer
<1>3. g.backlog.count = NoCount /\ ~g.backlog.up /\ ~g.ready
  <2>1. PICK report : report = NothingReported
    OBVIOUS
  <2>2. report.count = NoCount /\ report.up = FALSE
    BY <2>1 DEF NothingReported
  <2>3. /\ g.backlog.count = report.count /\ g.backlog.up = report.up
        /\ g.ready = ("unknown" = "up")
    BY <1>1, <2>1, GaugesShow
  <2> QED BY <2>2, <2>3
<1>4. lastAnswer'.gauges = g /\ lastAnswer'.by = NoScraper
  BY <1>2
<1>5. CurrentIsRecent'
  BY <1>3, <1>4 DEF CurrentIsRecent
<1>6. OffIsOff'
  BY <1>3, <1>4 DEF OffIsOff
<1> QED BY <1>4, <1>5, <1>6 DEF ShowsNoLess

\* An answer of a report that was made at some time.
LEMMA AnswerTold ==
  ASSUME MonitoringInv, NEW s \in Scraper, NEW report \in BacklogReport, NEW at \in Nat,
         AnswerScrape(s, scrape[s].ready, report), UNCHANGED workerHealth,
         ReportFits(report, at), at <= monitorTime, monitorTime <= at + BacklogTtl,
         highest.count <= report.count
  PROVE  CurrentIsRecent' /\ OffIsOff' /\ ShowsNoLess
<1>0. /\ scrape[s] \in ScrapeRow /\ floors[s] \in Floor /\ highest \in Floor /\ monitorTime \in Nat
      /\ SeenFits(s)
  BY MonitoringNumbers DEF MonitoringInv, MonitoringTyped
<1>1. PICK g : g = GaugesFrom(scrape[s].seen, scrape[s].ready, report)
  OBVIOUS
<1>2. lastAnswer' = [by |-> s, at |-> monitorTime, gauges |-> g]
  BY <1>1 DEF AnswerScrape
<1>3. lastAnswer'.gauges = g /\ lastAnswer'.by = s /\ lastAnswer'.at = monitorTime
  BY <1>2
<1>4. /\ g.backlog.count = report.count /\ g.backlog.up = report.up /\ g.backlog.stale = report.stale
      /\ g.ready = (scrape[s].ready = "up")
      /\ \A w \in Watched : /\ g.worker[w].enabled = (scrape[s].seen[w] # None)
                            /\ \A t \in DOMAIN g.worker[w].totals : g.worker[w].totals[t] = scrape[s].seen[w]
  BY <1>1, GaugesShow
<1>5. report.count \in Nat /\ report.up \in BOOLEAN /\ report.stale \in BOOLEAN
  BY DEF BacklogReport
<1>6. report.up => monitorTime - report.count <= BacklogTtl + CountTimeout
  BY <1>0, <1>5, MonitoringNumbers DEF ReportFits
<1>7. CurrentIsRecent'
  BY <1>3, <1>4, <1>5, <1>6 DEF CurrentIsRecent, ReportFits
<1>8. OffIsOff'
  BY <1>0, <1>3, <1>4, MonitoringWords DEF OffIsOff, SeenFits
<1>9. ShowsNoLess
  <2>1. report.count >= floors[s].count
    BY <1>0, <1>5 DEF SeenFits, Floor
  <2>2. ASSUME NEW w \in Watched, g.worker[w].enabled, NEW t \in DOMAIN g.worker[w].totals
        PROVE  g.worker[w].totals[t] >= floors[s].total[w]
    <3>1. g.worker[w].totals[t] = scrape[s].seen[w] /\ scrape[s].seen[w] # None
      BY <1>4, <2>2
    <3>2. floors[s].total[w] <= scrape[s].seen[w]
      BY <1>0, <3>1 DEF SeenFits
    <3>3. floors[s].total[w] \in Nat /\ scrape[s].seen[w] \in Nat
      BY <1>0 DEF ScrapeRow, Floor, Totals
    <3> QED BY <3>1, <3>2, <3>3
  <2> QED BY <1>3, <1>4, <2>1, <2>2 DEF ShowsNoLess
<1> QED BY <1>7, <1>8, <1>9

\* What an answer leaves: the scrape is over, and what it showed is remembered.
LEMMA AnswerMoves ==
  ASSUME MonitoringInv, NEW s \in Scraper, NEW report \in BacklogReport,
         AnswerScrape(s, scrape[s].ready, report), UNCHANGED workerHealth,
         highest.count <= report.count
  PROVE  /\ scrape' \in [Scraper -> ScrapeRow] /\ floors' \in [Scraper -> Floor] /\ highest' \in Floor
         /\ highest'.count = report.count /\ HighestFits' /\ \A r \in Scraper : SeenFits(r)'
         /\ scrape'[s].at = "idle" /\ \A r \in Scraper \ {s} : scrape'[r] = scrape[r]
<1>0. /\ scrape \in [Scraper -> ScrapeRow] /\ floors \in [Scraper -> Floor] /\ highest \in Floor
      /\ workerHealth \in [Watched -> 0..MaxHealth] /\ HighestFits /\ \A r \in Scraper : SeenFits(r)
  BY DEF MonitoringInv, MonitoringTyped
<1>1. PICK x \in [at : ScrapeAt, seen : Totals, ready : ReadyWords] : x = scrape[s]
  BY <1>0 DEF ScrapeRow
<1>2. PICK z \in Totals : z = [w \in Watched |-> None]
  BY MonitoringWords DEF Totals
<1>3. NotScraping = [at |-> "idle", seen |-> z, ready |-> "unknown"] /\ NoFloor = [count |-> 0, total |-> z]
  BY <1>2, MonitoringWords DEF NotScraping, NoFloor
<1>4. PICK i \in ScrapeRow : i = NotScraping /\ i.at = "idle" /\ i.seen = z /\ i.ready = "unknown"
  BY <1>3, MonitoringWords DEF ScrapeRow
<1>5. PICK f \in Floor : f = NoFloor /\ f.count = 0 /\ f.total = z
  BY <1>3 DEF Floor
<1>6. /\ scrape' = [scrape EXCEPT ![s] = i] /\ floors' = [floors EXCEPT ![s] = f]
      /\ highest' = RaisedBy(x.seen, report, highest)
  BY <1>1, <1>4, <1>5 DEF AnswerScrape
<1>7. /\ scrape' \in [Scraper -> ScrapeRow] /\ scrape'[s] = i /\ \A r \in Scraper \ {s} : scrape'[r] = scrape[r]
      /\ floors' \in [Scraper -> Floor] /\ floors'[s] = f /\ \A r \in Scraper \ {s} : floors'[r] = floors[r]
  BY <1>0, <1>6
<1>8. PICK h \in [count : Nat, total : Totals] : h = highest
  BY <1>0 DEF Floor
<1>9. PICK t : t = [w \in Watched |-> Higher(h.total[w], x.seen[w])]
  OBVIOUS
<1>10. \A w \in Watched : /\ h.total[w] \in Nat /\ x.seen[w] \in Nat /\ workerHealth[w] \in Nat
                          /\ h.total[w] <= workerHealth[w] /\ x.seen[w] <= workerHealth[w]
  BY <1>0, <1>1, <1>8, MonitoringNumbers DEF Totals, HighestFits, SeenFits
<1>11. t \in Totals /\ \A w \in Watched : h.total[w] <= t[w] /\ t[w] <= workerHealth[w]
  <2>1. ASSUME NEW w \in Watched
        PROVE  t[w] \in Nat /\ h.total[w] <= t[w] /\ t[w] <= workerHealth[w]
    BY <1>9, <1>10 DEF Higher
  <2> QED BY <1>9, <2>1 DEF Totals
<1>12. report.count \in Nat /\ h.count <= report.count /\ Higher(h.count, report.count) = report.count
  <2>1. report.count \in Nat /\ h.count <= report.count /\ h.count \in Nat
    BY <1>8 DEF BacklogReport
  <2> QED BY <2>1 DEF Higher
<1>13. highest' = [count |-> report.count, total |-> t]
  BY <1>6, <1>8, <1>9, <1>12 DEF RaisedBy
<1>14. highest' \in Floor /\ highest'.count = report.count /\ highest'.total = t
  BY <1>11, <1>12, <1>13 DEF Floor
<1>15. HighestFits'
  BY <1>11, <1>14 DEF HighestFits
<1>16. ASSUME NEW r \in Scraper PROVE SeenFits(r)'
  <2>1. CASE r = s
    <3>1. \A w \in Watched : z[w] = None /\ z[w] = 0
      BY <1>2, MonitoringWords
    <3>2. f.count <= highest'.count
      BY <1>5, <1>12, <1>14
    <3>3. ASSUME NEW w \in Watched PROVE z[w] <= workerHealth'[w] /\ z[w] <= highest'.total[w]
      BY <1>10, <1>11, <1>14, <3>1 DEF Totals
    <3> QED BY <1>4, <1>5, <1>7, <2>1, <3>1, <3>2, <3>3 DEF SeenFits
  <2>2. CASE r # s
    <3>1. scrape'[r] = scrape[r] /\ floors'[r] = floors[r] /\ SeenFits(r) /\ floors[r] \in Floor
      BY <1>0, <1>7, <2>2
    <3>2. floors[r].count <= highest'.count
      BY <1>8, <1>12, <1>14, <3>1 DEF SeenFits, Floor
    <3>3. ASSUME NEW w \in Watched PROVE floors[r].total[w] <= highest'.total[w]
      <4>1. floors[r].total[w] <= h.total[w] /\ floors[r].total[w] \in Nat /\ h.total[w] \in Nat /\ t[w] \in Nat
        BY <1>8, <1>10, <1>11, <3>1 DEF SeenFits, Floor, Totals
      <4> QED BY <1>11, <1>14, <4>1
    <3> QED BY <3>1, <3>2, <3>3 DEF SeenFits
  <2> QED BY <2>1, <2>2
<1> QED BY <1>4, <1>7, <1>14, <1>15, <1>16

----------------------------------------------------------------------------
\* What a scrape may have seen, and what others may have shown before it.
MaySee(x, f) ==
  /\ f.count <= highest.count
  /\ x.ready = "up" /\ workerHealth["outbox"] # None => x.seen["outbox"] # None
  /\ \A w \in Watched : /\ x.seen[w] <= workerHealth[w] /\ f.total[w] <= highest.total[w]
                        /\ x.seen[w] # None => f.total[w] <= x.seen[w]

\* Steps that write one scrape and answer nothing.
LEMMA ScrapeStep ==
  ASSUME MonitoringInv, NEW s \in Scraper, NEW x \in ScrapeRow, NEW f \in Floor,
         scrape' = [scrape EXCEPT ![s] = x], floors' = [floors EXCEPT ![s] = f],
         NothingAnswered, UNCHANGED <<workerHealth, highest, kept, attempted, stormed, monitorTime>>,
         counting' \in CountRow,
         counting' = counting \/ counting'.by = NoScraper \/ counting'.since = monitorTime,
         x.at = "querying" <=> counting'.by = s,
         \A r \in Scraper \ {s} : counting.by = r <=> counting'.by = r,
         MaySee(x, f)
  PROVE  MonitoringInv'
<1>1. /\ scrape \in [Scraper -> ScrapeRow] /\ floors \in [Scraper -> Floor]
      /\ scrape' \in [Scraper -> ScrapeRow] /\ floors' \in [Scraper -> Floor]
      /\ scrape'[s] = x /\ floors'[s] = f
      /\ \A r \in Scraper \ {s} : scrape'[r] = scrape[r] /\ floors'[r] = floors[r]
  BY DEF MonitoringInv, MonitoringTyped
<1>2. MonitoringTyped' /\ HighestFits' /\ ~stormed'
  BY <1>1 DEF MonitoringInv, MonitoringTyped, HighestFits
<1>3. OneCounts'
  BY <1>1 DEF MonitoringInv, OneCounts
<1>4. KeptFits'
  <2>1. KeptFits /\ attempted \in Nat /\ monitorTime \in Nat
    BY MonitoringNumbers DEF MonitoringInv, MonitoringTyped
  <2> QED BY <2>1, MonitoringNumbers DEF KeptFits, ReportFits
<1>5. ASSUME NEW r \in Scraper PROVE SeenFits(r)'
  <2>1. CASE r = s
    BY <1>1, <2>1 DEF SeenFits, MaySee
  <2>2. CASE r # s
    BY <1>1, <2>2 DEF MonitoringInv, SeenFits
  <2> QED BY <2>1, <2>2
<1>6. CurrentIsRecent' /\ OffIsOff'
  BY NothingTold
<1> QED BY <1>2, <1>3, <1>4, <1>5, <1>6 DEF MonitoringInv

\* Steps that answer with what is kept, or with a report just made.
LEMMA KeptAnswer ==
  ASSUME MonitoringInv, NEW s \in Scraper, scrape[s].at # "querying", ReportIsFresh,
         AnswerScrape(s, scrape[s].ready, kept),
         UNCHANGED <<workerHealth, kept, attempted, counting, stormed, monitorTime>>
  PROVE  MonitoringInv' /\ ShowsNoLess
<1>0. /\ kept \in BacklogReport /\ KeptFits /\ attempted \in Nat /\ monitorTime \in Nat
      /\ MonitoringTyped /\ OneCounts
  BY MonitoringNumbers DEF MonitoringInv, MonitoringTyped
<1>1. attempted <= monitorTime /\ monitorTime <= attempted + BacklogTtl
  BY <1>0, MonitoringNumbers DEF ReportIsFresh, KeptFits
<1>2. CurrentIsRecent' /\ OffIsOff' /\ ShowsNoLess
  BY <1>0, <1>1, AnswerTold DEF KeptFits
<1>3. /\ scrape' \in [Scraper -> ScrapeRow] /\ floors' \in [Scraper -> Floor] /\ highest' \in Floor
      /\ highest'.count = kept.count /\ HighestFits' /\ \A r \in Scraper : SeenFits(r)'
      /\ scrape'[s].at = "idle" /\ \A r \in Scraper \ {s} : scrape'[r] = scrape[r]
  BY <1>0, AnswerMoves DEF KeptFits
<1>4. MonitoringTyped'
  BY <1>0, <1>3 DEF MonitoringTyped
<1>5. KeptFits'
  <2>1. kept.count \in Nat
    BY <1>0 DEF BacklogReport
  <2> QED BY <1>0, <1>3, <2>1 DEF KeptFits, ReportFits
<1>6. OneCounts'
  BY <1>0, <1>3 DEF OneCounts
<1> QED BY <1>2, <1>3, <1>4, <1>5, <1>6 DEF MonitoringInv

LEMMA FreshAnswer ==
  ASSUME MonitoringInv, NEW s \in Scraper, scrape[s].at = "querying", NEW report \in BacklogReport,
         Reports(s, report), ReportFits(report, monitorTime), highest.count <= report.count
  PROVE  MonitoringInv' /\ ShowsNoLess
<1>0. /\ KeptFits /\ monitorTime \in Nat /\ MonitoringTyped /\ OneCounts /\ counting.by = s
  BY MonitoringNumbers DEF MonitoringInv, MonitoringTyped, OneCounts
<1>1. /\ kept' = report /\ attempted' = monitorTime /\ UNCHANGED <<workerHealth, stormed, monitorTime>>
      /\ AnswerScrape(s, scrape[s].ready, report)
      /\ counting' = [by |-> NoScraper, since |-> 0]
  BY DEF Reports
<1>2. CurrentIsRecent' /\ OffIsOff' /\ ShowsNoLess
  <2>1. monitorTime <= monitorTime /\ monitorTime <= monitorTime + BacklogTtl
    BY <1>0, MonitoringNumbers
  <2> QED BY <1>0, <1>1, <2>1, AnswerTold
<1>3. /\ scrape' \in [Scraper -> ScrapeRow] /\ floors' \in [Scraper -> Floor] /\ highest' \in Floor
      /\ highest'.count = report.count /\ HighestFits' /\ \A r \in Scraper : SeenFits(r)'
      /\ scrape'[s].at = "idle" /\ \A r \in Scraper \ {s} : scrape'[r] = scrape[r]
  BY <1>1, AnswerMoves
<1>4. counting' \in CountRow /\ counting'.by = NoScraper
  BY <1>1 DEF CountRow
<1>5. MonitoringTyped'
  BY <1>0, <1>1, <1>3, <1>4 DEF MonitoringTyped
<1>6. KeptFits'
  <2>1. report.count \in Nat
    BY DEF BacklogReport
  <2> QED BY <1>0, <1>1, <1>3, <1>4, <2>1 DEF KeptFits, ReportFits
<1>7. OneCounts'
  <2>1. \A r \in Scraper \ {s} : scrape[r].at # "querying"
    BY <1>0 DEF OneCounts
  <2> QED BY <1>3, <1>4, <2>1, MonitoringNumbers DEF OneCounts
<1>8. ~stormed'
  BY <1>1 DEF MonitoringInv
<1> QED BY <1>2, <1>3, <1>5, <1>6, <1>7, <1>8 DEF MonitoringInv

----------------------------------------------------------------------------
(* The steps.                                                                 *)

\* What the invariant says of one scrape.
LEMMA OneScrape ==
  ASSUME MonitoringInv, NEW s \in Scraper
  PROVE  /\ scrape[s] \in ScrapeRow /\ floors[s] \in Floor /\ highest \in Floor /\ counting \in CountRow
         /\ floors = [floors EXCEPT ![s] = floors[s]]
         /\ floors[s].count <= highest.count
         /\ scrape[s].ready = "up" /\ workerHealth["outbox"] # None => scrape[s].seen["outbox"] # None
         /\ \A w \in Watched :
              /\ scrape[s].seen[w] <= workerHealth[w] /\ scrape[s].seen[w] \in Nat
              /\ floors[s].total[w] <= highest.total[w] /\ floors[s].total[w] \in Nat
              /\ highest.total[w] <= workerHealth[w] /\ highest.total[w] \in Nat /\ workerHealth[w] \in Nat
              /\ scrape[s].seen[w] # None => floors[s].total[w] <= scrape[s].seen[w]
         /\ (scrape[s].at = "querying" <=> counting.by = s)
<1>1. /\ scrape \in [Scraper -> ScrapeRow] /\ floors \in [Scraper -> Floor] /\ highest \in Floor
      /\ counting \in CountRow /\ workerHealth \in [Watched -> 0..MaxHealth]
      /\ SeenFits(s) /\ HighestFits /\ OneCounts
  BY DEF MonitoringInv, MonitoringTyped
<1>2. ASSUME NEW w \in Watched
      PROVE  /\ scrape[s].seen[w] \in Nat /\ floors[s].total[w] \in Nat /\ highest.total[w] \in Nat
             /\ workerHealth[w] \in Nat
  BY <1>1, MonitoringNumbers DEF ScrapeRow, Floor, Totals
<1>3. floors = [floors EXCEPT ![s] = floors[s]]
  BY <1>1
<1> QED BY <1>1, <1>2, <1>3 DEF SeenFits, HighestFits, OneCounts

LEMMA ArrivesStep ==
  ASSUME MonitoringInv, NEW s \in Scraper, Arrives(s)
  PROVE  MonitoringInv'
<1>1. PICK seen : seen = [w \in Watched |-> IF w = "outbox" THEN None ELSE workerHealth[w]]
  OBVIOUS
<1>2. PICK x : x = [at |-> "asking", ready |-> "unknown", seen |-> seen]
  OBVIOUS
<1>3. ASSUME NEW w \in Watched
      PROVE  /\ seen[w] \in Nat /\ seen[w] <= workerHealth[w] /\ (seen[w] # None => seen[w] = workerHealth[w])
             /\ highest.total[w] <= workerHealth[w] /\ highest.total[w] \in Nat
  BY <1>1, OneScrape, MonitoringWords
<1>4. x \in ScrapeRow /\ x.at = "asking" /\ x.ready = "unknown" /\ x.seen = seen
  <2>1. seen \in Totals
    BY <1>1, <1>3 DEF Totals
  <2> QED BY <1>2, <2>1, MonitoringWords DEF ScrapeRow
<1>5. /\ scrape[s].at = "idle" /\ scrape' = [scrape EXCEPT ![s] = x] /\ floors' = [floors EXCEPT ![s] = highest]
      /\ NothingAnswered
      /\ UNCHANGED <<workerHealth, highest, kept, attempted, counting, stormed, monitorTime>>
  BY <1>1, <1>2 DEF Arrives
<1>6. highest \in Floor /\ counting \in CountRow /\ counting.by # s
  BY <1>5, OneScrape
<1>7. highest.count <= highest.count /\ \A w \in Watched : highest.total[w] <= highest.total[w]
  BY <1>3, <1>6 DEF Floor
<1>8. /\ (x.at = "querying" <=> counting'.by = s) /\ counting' \in CountRow
      /\ \A r \in Scraper \ {s} : counting.by = r <=> counting'.by = r
      /\ counting' = counting \/ counting'.by = NoScraper \/ counting'.since = monitorTime
      /\ UNCHANGED <<workerHealth, highest, kept, attempted, stormed, monitorTime>>
  BY <1>4, <1>5, <1>6
<1>9. PICK f \in Floor : f = highest
  BY <1>6
<1>10. f.count <= highest.count /\ x.ready # "up"
  BY <1>4, <1>7, <1>9
<1>11. ASSUME NEW w \in Watched
       PROVE  /\ x.seen[w] <= workerHealth[w] /\ f.total[w] <= highest.total[w]
              /\ x.seen[w] # None => f.total[w] <= x.seen[w]
  <2>1. /\ seen[w] \in Nat /\ seen[w] <= workerHealth[w] /\ (seen[w] # None => seen[w] = workerHealth[w])
        /\ f.total[w] <= workerHealth[w] /\ f.total[w] \in Nat
    BY <1>3, <1>9
  <2>2. x.seen[w] = seen[w]
    BY <1>4
  <2> QED BY <2>1, <2>2, <1>9
<1>12. /\ f.count <= highest.count
       /\ x.ready = "up" /\ workerHealth["outbox"] # None => x.seen["outbox"] # None
  BY <1>10
<1>13. MaySee(x, f)
  BY <1>11, <1>12 DEF MaySee
<1>14. floors' = [floors EXCEPT ![s] = f]
  BY <1>5, <1>9
<1> QED BY <1>4, <1>5, <1>8, <1>13, <1>14, ScrapeStep

\* Where only the place of a scrape changes.
LEMMA ScrapeAtStep ==
  ASSUME MonitoringInv, NEW s \in Scraper, NEW at \in ScrapeAt,
         scrape' = [scrape EXCEPT ![s].at = at], UNCHANGED floors,
         NothingAnswered, UNCHANGED <<workerHealth, highest, kept, attempted, stormed, monitorTime>>,
         counting' \in CountRow,
         counting' = counting \/ counting'.by = NoScraper \/ counting'.since = monitorTime,
         at = "querying" <=> counting'.by = s,
         \A r \in Scraper \ {s} : counting.by = r <=> counting'.by = r
  PROVE  MonitoringInv'
<1>1. PICK x \in [at : ScrapeAt, seen : Totals, ready : ReadyWords] : x = scrape[s]
  BY OneScrape DEF ScrapeRow
<1>2. PICK y : y = [x EXCEPT !.at = at]
  OBVIOUS
<1>3. y = [at |-> at, seen |-> x.seen, ready |-> x.ready]
  BY <1>1, <1>2
<1>4. y \in ScrapeRow /\ y.at = at /\ y.seen = scrape[s].seen /\ y.ready = scrape[s].ready
  BY <1>1, <1>3 DEF ScrapeRow
<1>5. scrape' = [scrape EXCEPT ![s] = y]
  BY <1>1, <1>2
<1>6. PICK f \in Floor : f = floors[s]
  BY OneScrape
<1>7. floors' = [floors EXCEPT ![s] = f]
  BY <1>6, OneScrape
<1>8. MaySee(y, f)
  BY <1>4, <1>6, OneScrape DEF MaySee
<1> QED BY <1>4, <1>5, <1>7, <1>8, ScrapeStep

LEMMA ReadinessKnownStep ==
  ASSUME MonitoringInv, NEW s \in Scraper, ReadinessKnown(s)
  PROVE  MonitoringInv'
<1>0. /\ scrape[s].at = "asking" /\ NothingAnswered
      /\ UNCHANGED <<workerHealth, highest, kept, attempted, counting, floors, stormed, monitorTime>>
      /\ counting \in CountRow /\ counting.by # s
  BY OneScrape DEF ReadinessKnown
<1>1. CASE scrape' = [scrape EXCEPT ![s].at = "counting"]
  BY <1>0, <1>1, ScrapeAtStep, MonitoringWords
<1>2. ASSUME NEW ready \in {"up", "down"},
             scrape' = [scrape EXCEPT ![s].at = "counting", ![s].ready = ready,
                                      ![s].seen["outbox"] = workerHealth["outbox"]]
      PROVE  MonitoringInv'
  <2>1. PICK x \in [at : ScrapeAt, seen : Totals, ready : ReadyWords] : x = scrape[s]
    BY OneScrape DEF ScrapeRow
  <2>2. PICK y : y = [x EXCEPT !.at = "counting", !.ready = ready, !.seen["outbox"] = workerHealth["outbox"]]
    OBVIOUS
  <2>3. PICK seen : seen = [x.seen EXCEPT !["outbox"] = workerHealth["outbox"]]
    OBVIOUS
  <2>4. y = [at |-> "counting", seen |-> seen, ready |-> ready]
    BY <2>1, <2>2, <2>3
  <2>5. /\ seen \in Totals /\ seen["outbox"] = workerHealth["outbox"]
        /\ \A w \in Watched \ {"outbox"} : seen[w] = x.seen[w]
    <3>1. workerHealth["outbox"] \in Nat
      BY OneScrape, MonitoringWords
    <3> QED BY <2>1, <2>3, <3>1, MonitoringWords DEF Totals
  <2>6. y \in ScrapeRow /\ y.at = "counting" /\ y.ready = ready /\ y.seen = seen
    BY <2>4, <2>5, MonitoringWords DEF ScrapeRow
  <2>7. scrape' = [scrape EXCEPT ![s] = y]
    BY <1>2, <2>1, <2>2
  <2>8. PICK f \in Floor : f = floors[s]
    BY OneScrape
  <2>9. floors' = [floors EXCEPT ![s] = f] /\ f.count <= highest.count
    BY <1>0, <2>8, OneScrape
  <2>10. ASSUME NEW w \in Watched
         PROVE  /\ seen[w] <= workerHealth[w] /\ f.total[w] <= highest.total[w]
                /\ seen[w] # None => f.total[w] <= seen[w]
    <3>1. /\ workerHealth[w] \in Nat /\ highest.total[w] \in Nat /\ f.total[w] \in Nat
          /\ f.total[w] <= highest.total[w] /\ highest.total[w] <= workerHealth[w]
          /\ x.seen[w] <= workerHealth[w] /\ (x.seen[w] # None => f.total[w] <= x.seen[w])
      BY <2>1, <2>8, OneScrape
    <3>2. CASE w = "outbox"
      BY <2>5, <3>1, <3>2
    <3>3. CASE w # "outbox"
      BY <2>5, <3>1, <3>3
    <3> QED BY <3>2, <3>3
  <2>11. workerHealth["outbox"] # None => y.seen["outbox"] # None
    BY <2>5, <2>6
  <2>12. MaySee(y, f)
    BY <2>6, <2>9, <2>10, <2>11 DEF MaySee
  <2>13. (y.at = "querying" <=> counting'.by = s) /\ counting' \in CountRow
         /\ \A r \in Scraper \ {s} : counting.by = r <=> counting'.by = r
    BY <1>0, <2>6
  <2>14. /\ counting' = counting \/ counting'.by = NoScraper \/ counting'.since = monitorTime
         /\ UNCHANGED <<workerHealth, highest, kept, attempted, stormed, monitorTime>>
    BY <1>0
  <2> QED BY <1>0, <2>6, <2>7, <2>8, <2>9, <2>12, <2>13, <2>14, ScrapeStep
<1> QED BY <1>1, <1>2 DEF ReadinessKnown

LEMMA CountStep ==
  ASSUME MonitoringInv, NEW s \in Scraper, scrape[s].at = "waiting", counting.by = NoScraper,
         ~ReportIsFresh, Count(s)
  PROVE  MonitoringInv'
<1>1. /\ counting' = [by |-> s, since |-> monitorTime] /\ scrape' = [scrape EXCEPT ![s].at = "querying"]
      /\ stormed' = (stormed \/ ReportIsFresh) /\ NothingAnswered
      /\ UNCHANGED <<workerHealth, highest, kept, attempted, floors, monitorTime>>
  BY DEF Count
<1>2. ~stormed /\ stormed \in BOOLEAN /\ monitorTime \in Nat
  BY MonitoringNumbers DEF MonitoringInv, MonitoringTyped
<1>3. stormed' = stormed
  BY <1>1, <1>2
<1>4. counting' \in CountRow /\ counting'.by = s /\ counting'.since = monitorTime
  BY <1>1, <1>2 DEF CountRow
<1>5. \A r \in Scraper \ {s} : counting.by = r <=> counting'.by = r
  BY <1>4, MonitoringNumbers
<1> QED BY <1>1, <1>3, <1>4, <1>5, ScrapeAtStep, MonitoringWords

LEMMA CancelledStep ==
  ASSUME MonitoringInv, NEW s \in Scraper, ScrapeCancelled(s)
  PROVE  MonitoringInv'
<1>1. /\ scrape' = [scrape EXCEPT ![s] = NotScraping] /\ floors' = [floors EXCEPT ![s] = NoFloor]
      /\ counting' = (IF counting.by = s THEN [by |-> NoScraper, since |-> 0] ELSE counting)
      /\ NothingAnswered /\ UNCHANGED <<workerHealth, highest, kept, attempted, stormed, monitorTime>>
  BY DEF ScrapeCancelled
<1>2. PICK z \in Totals : z = [w \in Watched |-> None]
  BY MonitoringWords DEF Totals
<1>3. NotScraping = [at |-> "idle", seen |-> z, ready |-> "unknown"] /\ NoFloor = [count |-> 0, total |-> z]
  BY <1>2, MonitoringWords DEF NotScraping, NoFloor
<1>4. PICK i \in ScrapeRow : i = NotScraping /\ i.at = "idle" /\ i.seen = z /\ i.ready = "unknown"
  BY <1>3, MonitoringWords DEF ScrapeRow
<1>5. PICK f \in Floor : f = NoFloor /\ f.count = 0 /\ f.total = z
  BY <1>3 DEF Floor
<1>6. scrape' = [scrape EXCEPT ![s] = i] /\ floors' = [floors EXCEPT ![s] = f]
  BY <1>1, <1>4, <1>5
<1>7. /\ counting' \in CountRow /\ counting'.by # s
      /\ counting' = counting \/ counting'.by = NoScraper
      /\ \A r \in Scraper \ {s} : counting.by = r <=> counting'.by = r
  <2>1. CASE counting.by = s
    <3>1. counting' = [by |-> NoScraper, since |-> 0]
      BY <1>1, <2>1
    <3>2. counting' \in CountRow /\ counting'.by = NoScraper
      BY <3>1 DEF CountRow
    <3> QED BY <2>1, <3>2, MonitoringNumbers
  <2>2. CASE counting.by # s
    BY <1>1, <2>2, OneScrape
  <2> QED BY <2>1, <2>2
<1>8. \A w \in Watched : z[w] = 0 /\ z[w] = None
  BY <1>2, MonitoringWords
<1>9. MaySee(i, f)
  <2>1. highest.count \in Nat
    BY OneScrape DEF Floor
  <2>2. \A w \in Watched : workerHealth[w] \in Nat /\ highest.total[w] \in Nat
    BY OneScrape
  <2> QED BY <1>4, <1>5, <1>8, <2>1, <2>2 DEF MaySee
<1> QED BY <1>1, <1>4, <1>6, <1>7, <1>9, ScrapeStep

LEMMA AroundScrapes ==
  ASSUME MonitoringInv, (\E w \in Watched : WorkerWorks(w)) \/ TimeGoesOn
  PROVE  MonitoringInv' /\ ShowsNoLess
<1>0. /\ NothingAnswered
      /\ UNCHANGED <<scrape, highest, kept, attempted, counting, floors, stormed>>
  BY DEF WorkerWorks, TimeGoesOn
<1>1. CurrentIsRecent' /\ OffIsOff' /\ ShowsNoLess
  BY <1>0, NothingTold
<1>2. /\ MonitoringTyped /\ KeptFits /\ HighestFits /\ OneCounts /\ ~stormed
      /\ workerHealth \in [Watched -> 0..MaxHealth] /\ monitorTime \in Nat
  BY MonitoringNumbers DEF MonitoringInv, MonitoringTyped
<1>3. /\ workerHealth' \in [Watched -> 0..MaxHealth] /\ monitorTime' \in 1..LastTime
      /\ \A w \in Watched : workerHealth'[w] >= workerHealth[w] /\ (workerHealth'[w] = None <=> workerHealth[w] = None)
      /\ KeptFits'
  <2>1. CASE TimeGoesOn
    <3>1. /\ monitorTime < LastTime /\ monitorTime' = monitorTime + 1 /\ UNCHANGED workerHealth
          /\ counting.by # NoScraper => monitorTime < counting.since + CountTimeout
      BY <2>1 DEF TimeGoesOn
    <3>2. counting.since \in Nat /\ attempted \in Nat
      BY <1>2 DEF MonitoringTyped, CountRow
    <3>3. KeptFits'
      BY <1>0, <1>2, <3>1, <3>2, MonitoringNumbers DEF KeptFits, ReportFits
    <3>4. monitorTime' \in 1..LastTime
      BY <1>2, <3>1, MonitoringNumbers
    <3>5. \A w \in Watched : workerHealth[w] >= workerHealth[w]
      BY <1>2, MonitoringNumbers
    <3> QED BY <1>2, <3>1, <3>3, <3>4, <3>5
  <2>2. ASSUME NEW v \in Watched, WorkerWorks(v)
        PROVE  /\ workerHealth' \in [Watched -> 0..MaxHealth] /\ monitorTime' \in 1..LastTime
               /\ \A w \in Watched : workerHealth'[w] >= workerHealth[w] /\ (workerHealth'[w] = None <=> workerHealth[w] = None)
               /\ KeptFits'
    <3>1. /\ workerHealth[v] \in 1..(MaxHealth - 1) /\ monitorTime' = monitorTime
          /\ workerHealth' = [workerHealth EXCEPT ![v] = @ + 1]
      BY <2>2 DEF WorkerWorks
    <3>2. workerHealth[v] + 1 \in 0..MaxHealth /\ workerHealth[v] \in Nat /\ workerHealth[v] # 0
      BY <3>1, MonitoringNumbers
    <3>3. KeptFits' /\ monitorTime' \in 1..LastTime
      BY <1>0, <1>2, <3>1 DEF KeptFits, ReportFits, MonitoringTyped
    <3>4. workerHealth' \in [Watched -> 0..MaxHealth] /\ workerHealth'[v] = workerHealth[v] + 1
          /\ \A w \in Watched \ {v} : workerHealth'[w] = workerHealth[w]
      BY <1>2, <3>1, <3>2
    <3>5. ASSUME NEW w \in Watched
          PROVE  workerHealth'[w] >= workerHealth[w] /\ (workerHealth'[w] = None <=> workerHealth[w] = None)
      BY <1>2, <3>2, <3>4, MonitoringWords, MonitoringNumbers
    <3> QED BY <3>3, <3>4, <3>5
  <2> QED BY <2>1, <2>2
<1>4. MonitoringTyped' /\ OneCounts' /\ ~stormed'
  BY <1>0, <1>2, <1>3 DEF MonitoringTyped, OneCounts
<1>5. HighestFits'
  <2>1. \A w \in Watched : highest.total[w] \in Nat /\ workerHealth[w] \in Nat /\ workerHealth'[w] \in Nat
    BY <1>2, <1>3, MonitoringNumbers DEF MonitoringTyped, Floor, Totals
  <2> QED BY <1>0, <1>2, <1>3, <2>1 DEF HighestFits
<1>6. ASSUME NEW s \in Scraper PROVE SeenFits(s)'
  <2>1. SeenFits(s) /\ \A w \in Watched : scrape[s].seen[w] \in Nat /\ workerHealth[w] \in Nat
    BY OneScrape DEF MonitoringInv
  <2>2. \A w \in Watched : workerHealth'[w] \in Nat
    BY <1>3, MonitoringNumbers
  <2> QED BY <1>0, <1>3, <2>1, <2>2, MonitoringWords DEF SeenFits
<1> QED BY <1>1, <1>3, <1>4, <1>5, <1>6 DEF MonitoringInv

LEMMA MonitoringSteps ==
  ASSUME MonitoringInv, MonitoringNext \/ UNCHANGED monitoringVars
  PROVE  MonitoringInv' /\ [ShowsNoLess]_monitoringVars
<1>1. CASE UNCHANGED monitoringVars
  <2>1. UNCHANGED <<workerHealth, scrape, lastAnswer, highest, kept, attempted, counting, floors, stormed,
                    monitorTime>>
    BY <1>1 DEF monitoringVars
  <2> QED BY <1>1, <2>1 DEF MonitoringInv, MonitoringTyped, KeptFits, ReportFits, HighestFits, SeenFits,
                            OneCounts, CurrentIsRecent, OffIsOff
<1>2. ASSUME NEW s \in Scraper,
             \/ Arrives(s) \/ ReadinessKnown(s) \/ ReadsKept(s) \/ TakesTurn(s) \/ HasTurn(s)
             \/ CountReturns(s) \/ CountFails(s) \/ ScrapeCancelled(s)
      PROVE  MonitoringInv' /\ ShowsNoLess
  <2>0. scrape[s].at = "querying" <=> counting.by = s
    BY OneScrape
  <2>1. CASE Arrives(s)
    BY <2>1, ArrivesStep, NothingTold DEF Arrives
  <2>2. CASE ReadinessKnown(s)
    BY <2>2, ReadinessKnownStep, NothingTold DEF ReadinessKnown
  <2>3. CASE ReadsKept(s)
    BY <2>3, KeptAnswer DEF ReadsKept
  <2>4. CASE TakesTurn(s)
    <3>1. /\ scrape[s].at = "counting" /\ scrape' = [scrape EXCEPT ![s].at = "waiting"] /\ NothingAnswered
          /\ UNCHANGED <<workerHealth, highest, kept, attempted, counting, floors, stormed, monitorTime>>
      BY <2>4 DEF TakesTurn
    <3>2. counting' \in CountRow /\ counting'.by # s
      BY <2>0, <3>1, OneScrape
    <3>3. MonitoringInv'
      BY <3>1, <3>2, ScrapeAtStep, MonitoringWords
    <3> QED BY <3>1, <3>3, NothingTold
  <2>5. CASE HasTurn(s)
    <3>1. CASE ReportIsFresh
      BY <2>5, <3>1, KeptAnswer DEF HasTurn
    <3>2. CASE ~ReportIsFresh
      BY <2>5, <3>2, CountStep, NothingTold DEF HasTurn, Count
    <3> QED BY <3>1, <3>2
  <2>6. /\ KeptFits /\ kept \in BacklogReport /\ counting \in CountRow /\ attempted \in Nat /\ monitorTime \in Nat
        /\ highest.count \in Nat
    BY MonitoringNumbers DEF MonitoringInv, MonitoringTyped, Floor
  <2>7. CASE CountReturns(s)
    <3>1. PICK n \in counting.since..monitorTime :
            Reports(s, [count |-> n, up |-> TRUE, stale |-> FALSE, made |-> TRUE])
      BY <2>7 DEF CountReturns
    <3>2. scrape[s].at = "querying" /\ counting.by # NoScraper
      BY <2>0, <2>7, MonitoringNumbers DEF CountReturns
    <3>3. PICK report : report = [count |-> n, up |-> TRUE, stale |-> FALSE, made |-> TRUE]
      OBVIOUS
    <3>4. counting.since \in Nat /\ kept.count \in Nat
      BY <2>6 DEF CountRow, BacklogReport
    <3>5. report \in BacklogReport /\ ReportFits(report, monitorTime) /\ highest.count <= report.count
      BY <2>6, <3>1, <3>2, <3>3, <3>4, MonitoringNumbers DEF BacklogReport, ReportFits, KeptFits
    <3> QED BY <3>1, <3>2, <3>3, <3>5, FreshAnswer
  <2>8. CASE CountFails(s)
    <3>1. PICK report : report = [count |-> kept.count, up |-> FALSE, stale |-> kept.count # NoCount, made |-> TRUE]
      OBVIOUS
    <3>2. scrape[s].at = "querying" /\ Reports(s, report)
      BY <2>8, <3>1 DEF CountFails
    <3>3. kept.count \in Nat /\ report.count = kept.count
      BY <2>6, <3>1 DEF BacklogReport
    <3>4. report \in BacklogReport
      BY <3>1, <3>3 DEF BacklogReport
    <3>5. ReportFits(report, monitorTime) /\ highest.count <= report.count
      <4>1. report.up = FALSE /\ (kept.count # NoCount => report.stale = TRUE)
        BY <3>1
      <4>2. kept.count <= attempted /\ attempted <= monitorTime /\ highest.count <= kept.count
        BY <2>6 DEF KeptFits, ReportFits
      <4> QED BY <2>6, <3>3, <4>1, <4>2 DEF ReportFits
    <3> QED BY <3>2, <3>4, <3>5, FreshAnswer
  <2>9. CASE ScrapeCancelled(s)
    BY <2>9, CancelledStep, NothingTold DEF ScrapeCancelled
  <2> QED BY <1>2, <2>1, <2>2, <2>3, <2>4, <2>5, <2>7, <2>8, <2>9
<1> QED BY <1>1, <1>2, AroundScrapes DEF MonitoringNext

LEMMA MonitoringBegins ==
  ASSUME NEW H, HealthAsks(H), MonitoringStart(H)
  PROVE  MonitoringInv
<1>1. MonitoringInit /\ workerHealth \in [Watched -> 0..MaxHealth]
  BY DEF MonitoringStart, HealthAsks
<1>2. PICK z \in Totals : z = [w \in Watched |-> None]
  BY MonitoringWords DEF Totals
<1>3. NotScraping = [at |-> "idle", seen |-> z, ready |-> "unknown"] /\ NoFloor = [count |-> 0, total |-> z]
  BY <1>2, MonitoringWords DEF NotScraping, NoFloor
<1>4. NotScraping \in ScrapeRow /\ NoFloor \in Floor
  BY <1>3, MonitoringWords DEF ScrapeRow, Floor
<1>5. PICK report \in BacklogReport : report = NothingReported /\ report.count = 0 /\ report.up = FALSE
  <2>1. PICK r : r = [count |-> 0, up |-> FALSE, stale |-> FALSE, made |-> FALSE]
    OBVIOUS
  <2>2. r \in BacklogReport /\ r.count = 0 /\ r.up = FALSE
    BY <2>1 DEF BacklogReport
  <2> QED BY <2>1, <2>2, MonitoringWords DEF NothingReported
<1>6. counting \in CountRow /\ counting.by = NoScraper
  BY <1>1 DEF MonitoringInit, CountRow
<1>7. MonitoringTyped
  <2>1. scrape \in [Scraper -> ScrapeRow] /\ floors \in [Scraper -> Floor] /\ highest \in Floor
        /\ kept \in BacklogReport /\ attempted = 0 /\ stormed = FALSE /\ monitorTime = 1
    BY <1>1, <1>4, <1>5 DEF MonitoringInit
  <2>2. 1 \in 1..LastTime
    BY MonitoringNumbers
  <2> QED BY <1>1, <1>6, <2>1, <2>2 DEF MonitoringTyped
<1>8. KeptFits
  BY <1>1, <1>3, <1>5, <1>6, MonitoringWords, MonitoringNumbers DEF MonitoringInit, KeptFits, ReportFits
<1>9. \A w \in Watched : z[w] = 0 /\ z[w] = None /\ workerHealth[w] \in Nat
  BY <1>1, <1>2, MonitoringWords, MonitoringNumbers
<1>10. highest.total = z /\ highest.count = 0
       /\ \A s \in Scraper : /\ scrape[s].seen = z /\ scrape[s].ready = "unknown" /\ scrape[s].at = "idle"
                             /\ floors[s].total = z /\ floors[s].count = 0
  BY <1>1, <1>3 DEF MonitoringInit
<1>11. HighestFits
  BY <1>9, <1>10 DEF HighestFits
<1>12. \A s \in Scraper : SeenFits(s)
  BY <1>9, <1>10 DEF SeenFits
<1>13. ~stormed /\ OneCounts
  BY <1>1, <1>6, <1>10, MonitoringNumbers DEF MonitoringInit, OneCounts
<1>14. CurrentIsRecent /\ OffIsOff
  <2>1. PICK g : g = GaugesFrom(NotScraping.seen, "unknown", NothingReported)
    OBVIOUS
  <2>2. lastAnswer.gauges = g
    BY <1>1, <2>1 DEF MonitoringInit, NoAnswer
  <2>3. g.backlog.count = 0 /\ ~g.backlog.up /\ ~g.ready
    <3>1. /\ g.backlog.count = report.count /\ g.backlog.up = report.up /\ g.ready = ("unknown" = "up")
      BY <1>5, <2>1, GaugesShow
    <3> QED BY <1>5, <3>1
  <2> QED BY <2>2, <2>3, MonitoringWords DEF CurrentIsRecent, OffIsOff
<1> QED BY <1>7, <1>8, <1>11, <1>12, <1>13, <1>14 DEF MonitoringInv

\* What the invariant says of the property.
LEMMA MonitoringKeepsWord ==
  ASSUME MonitoringInv
  PROVE  MonitoringTypeOK /\ MonitoringIsSound
<1>1. MonitoringIsSound
  BY DEF MonitoringInv, MonitoringIsSound, CountsAreRare, OneCounts
<1>2. MonitoringTypeOK
  <2>1. /\ kept.count \in Nat /\ attempted \in Nat /\ monitorTime \in 1..LastTime /\ kept.count <= attempted
        /\ attempted <= monitorTime /\ counting.by \in Scraper \cup {NoScraper}
    BY DEF MonitoringInv, MonitoringTyped, KeptFits, ReportFits, BacklogReport, CountRow
  <2>2. kept.count \in 0..LastTime /\ attempted \in 0..LastTime
    BY <2>1, MonitoringNumbers
  <2>3. \A s \in Scraper : scrape[s].at \in ScrapeAt
    BY DEF MonitoringInv, MonitoringTyped, ScrapeRow
  <2> QED BY <2>1, <2>2, <2>3 DEF MonitoringInv, MonitoringTyped, MonitoringTypeOK, ScrapeAt
<1> QED BY <1>1, <1>2

\* For any scrapes, times to keep and to count: one scrape counts at a time, what is shown
\* as current is recent, and no scrape shows less than was shown before it came.
\* outbox_backlog.py:58-116, routes/metrics.py:18-80.
THEOREM MonitoringAlwaysSound ==
  ASSUME NEW CONSTANT H, HealthAsks(H)
  PROVE  MonitoringStart(H) /\ [][MonitoringNext]_monitoringVars
           => [](MonitoringTypeOK /\ MonitoringIsSound) /\ NeverBackwards
<1>1. MonitoringStart(H) => MonitoringInv
  BY MonitoringBegins
<1>2. MonitoringInv /\ [MonitoringNext]_monitoringVars => MonitoringInv' /\ [ShowsNoLess]_monitoringVars
  BY MonitoringSteps
<1>3. MonitoringInv => MonitoringTypeOK /\ MonitoringIsSound
  BY MonitoringKeepsWord
<1>4. NeverBackwards <=> [][ShowsNoLess]_monitoringVars
  BY DEF NeverBackwards, ShowsNoLess
<1> HIDE DEF ShowsNoLess
<1> QED BY <1>1, <1>2, <1>3, <1>4, PTL
=============================================================================
