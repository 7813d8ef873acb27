-------------------------- MODULE RangeController --------------------------
(* The controller of the MiniShop range: one remediation plan in a SQLite   *)
(* store, whose transitions are serialised transactions, each leaving one    *)
(* entry in an append-only planTrail; and the requests that approve it, carry it *)
(* out and take it back by posting an action of its scenario to the shop.     *)
EXTENDS Naturals, Sequences

CONSTANTS
  Directive,       \* requests, repeats included
  ShopOperator,
  OrderKey,    \* idempotency keys
  NoName,      \* no operator, no key
  Expiry,      \* when the plan expires
  LastHour     \* bound of the clock

ASSUME ControllerAssumption == NoName \notin ShopOperator \cup OrderKey

VARIABLES
  plan,        \* the row
  planTrail,       \* the audit: of each transition the status it led to, and who made it
  scenarioFile,\* version of the scenario's manifest
  switched,    \* whether the service is enabled, and not closed
  order,       \* of each request: what it asks for, and where it is
  shop,        \* the posts that took effect, in order
  hour

controllerVars == <<plan, planTrail, scenarioFile, switched, order, shop, hour>>

Phases == {"approval", "execution", "rollback"}
NoPlan == [status |-> "ABSENT", version |-> 0, created_by |-> NoName, approved_by |-> NoName,
           manifest |-> 0, keys |-> [p \in Phases |-> NoName]]

\* What can be asked of the controller.
OrderAsk == [stage : {"creation"} \cup Phases, key : OrderKey, by : ShopOperator, expected : Nat]

\* Where a phase starts and leads, and how it ends.
From(stage) == CASE stage = "approval" -> "DRAFT"
                 [] stage = "execution" -> "APPROVED"
                 [] stage = "rollback" -> "EXECUTED"
To(stage) == CASE stage = "approval" -> "APPROVED"
               [] stage = "execution" -> "EXECUTING"
               [] stage = "rollback" -> "ROLLING_BACK"
EndOf(stage, ok) ==
  CASE stage = "execution" /\ ok -> "EXECUTED"
    [] stage = "execution" /\ ~ok -> "FAILED"
    [] stage = "rollback" /\ ok -> "ROLLED_BACK"
    [] stage = "rollback" /\ ~ok -> "ROLLBACK_FAILED"

Leave(r, at) == order' = [order EXCEPT ![r].at = at]

\* The row and its entry are written together.
Record(row, by) ==
  /\ plan' = row
  /\ planTrail' = Append(planTrail, [status |-> row.status, by |-> by])

\* The plan's id is derived from the request and its time: a second insert fails.
CreatePlan(r) ==
  /\ order[r].at = "idle" /\ order[r].ask.stage = "creation"
  /\ IF plan.status = "ABSENT"
     THEN Record([NoPlan EXCEPT !.status = "DRAFT", !.version = 1,
                                !.created_by = order[r].ask.by,
                                !.manifest = scenarioFile], order[r].ask.by)
     ELSE UNCHANGED <<plan, planTrail>>
  /\ Leave(r, "ended")
  /\ UNCHANGED <<scenarioFile, switched, shop, hour>>

----------------------------------------------------------------------------

\* The same key again, while the phase it led to lasts: the row is returned as
\* it is, expiry and version unseen.
IsRepeat(r) ==
  LET stage == order[r].ask.stage IN
  /\ plan.keys[stage] = order[r].ask.key
  /\ plan.status = To(stage)

\* Approvals and executions end with the plan's time; nobody approves their own.
MayBegin(r) ==
  LET ask == order[r].ask IN
  /\ plan.status = From(ask.stage)
  /\ plan.version = ask.expected
  /\ ask.stage \in {"approval", "execution"} => hour < Expiry
  /\ ask.stage = "approval" => ask.by # plan.created_by

Begun(r) ==
  LET ask == order[r].ask IN
  [plan EXCEPT !.status = To(ask.stage), !.version = @ + 1, !.keys[ask.stage] = ask.key,
               !.approved_by = IF ask.stage = "approval" THEN ask.by ELSE @]

ApprovePlan(r) ==
  /\ order[r].at = "idle" /\ order[r].ask.stage = "approval"
  /\ IF ~IsRepeat(r) /\ MayBegin(r) THEN Record(Begun(r), order[r].ask.by)
     ELSE UNCHANGED <<plan, planTrail>>
  /\ Leave(r, "ended")
  /\ UNCHANGED <<scenarioFile, switched, shop, hour>>

----------------------------------------------------------------------------
(* Execution and rollback.                                                  *)

\* The kill switch is looked at, the plan read, and the scenario it was made
\* from compared with the one there is now.
CheckManifest(r) ==
  /\ order[r].at = "idle" /\ order[r].ask.stage \in {"execution", "rollback"}
  /\ IF switched = "on" /\ plan.status # "ABSENT" /\ plan.manifest = scenarioFile
     THEN Leave(r, "checked") ELSE Leave(r, "ended")
  /\ UNCHANGED <<plan, planTrail, scenarioFile, switched, shop, hour>>

\* One transaction; a repeat goes on to post as if the claim were its own.
BeginPhase(r) ==
  /\ order[r].at = "checked"
  /\ \/ IsRepeat(r)
        /\ order' = [order EXCEPT ![r].at = "posting", ![r].version = plan.version]
        /\ UNCHANGED <<plan, planTrail>>
     \/ ~IsRepeat(r) /\ MayBegin(r)
        /\ Record(Begun(r), order[r].ask.by)
        /\ order' = [order EXCEPT ![r].at = "posting", ![r].version = plan.version + 1]
     \/ ~IsRepeat(r) /\ ~MayBegin(r)
        /\ Leave(r, "ended")
        /\ UNCHANGED <<plan, planTrail>>
  /\ UNCHANGED <<scenarioFile, switched, shop, hour>>

\* The post reaches the shop, in time or after the request has given up.
ShopActs(r) ==
  /\ order[r].at \in {"posting", "left"}
  /\ ~order[r].landed
  /\ order' = [order EXCEPT ![r].landed = TRUE]
  /\ shop' = Append(shop, [request |-> r, stage |-> order[r].ask.stage])
  /\ UNCHANGED <<plan, planTrail, scenarioFile, switched, hour>>

\* The row is updated only by the version of the claim.
MayEnd(r) ==
  plan.status = To(order[r].ask.stage) /\ plan.version = order[r].version

\* Its answer: success when the shop acted and said so; an error, a timeout, too
\* long an answer, or a cancellation, whether it acted or not.  Of two requests
\* under one key the second one to end finds the phase over.
EndPhase(r) ==
  /\ order[r].at = "posting"
  /\ \E ok \in BOOLEAN :
       /\ ok => order[r].landed
       /\ IF MayEnd(r)
          THEN Record([plan EXCEPT !.status = EndOf(order[r].ask.stage, ok),
                                   !.version = @ + 1], order[r].ask.by)
          ELSE UNCHANGED <<plan, planTrail>>
  /\ Leave(r, IF order[r].landed THEN "ended" ELSE "left")
  /\ UNCHANGED <<scenarioFile, switched, shop, hour>>

----------------------------------------------------------------------------
\* The process ends, and one with this or the other setting takes its place.
RestartController ==
  /\ \E r \in Directive : order[r].at \in {"checked", "posting"}
  /\ \E next \in {"on", "off"} : switched' = next
  /\ order' = [r \in Directive |->
                 IF order[r].at \in {"idle", "ended", "left"} THEN order[r]
                 ELSE [order[r] EXCEPT !.at = IF order[r].at = "posting" /\ ~order[r].landed
                                              THEN "left" ELSE "ended"]]
  /\ UNCHANGED <<plan, planTrail, scenarioFile, shop, hour>>

\* close(): no further request passes; those under way lose their connection.
CloseController ==
  /\ switched = "on"
  /\ switched' = "closed"
  /\ UNCHANGED <<plan, planTrail, scenarioFile, order, shop, hour>>

ScenarioChanges ==
  /\ scenarioFile = 1
  /\ scenarioFile' = 2
  /\ UNCHANGED <<plan, planTrail, switched, order, shop, hour>>

HourPasses ==
  /\ hour < LastHour
  /\ hour' = hour + 1
  /\ UNCHANGED <<plan, planTrail, scenarioFile, switched, order, shop>>

----------------------------------------------------------------------------
\* The requests of a behaviour are chosen with the initial state.
Ordered(asks) ==
  order = [r \in Directive |-> [ask |-> asks[r], at |-> "idle", version |-> 0, landed |-> FALSE]]

ControllerInit ==
  /\ plan = NoPlan /\ planTrail = <<>> /\ scenarioFile = 1 /\ switched = "on"
  /\ shop = <<>> /\ hour = 0

ControllerNext ==
  \/ \E r \in Directive :
       \/ CreatePlan(r) \/ ApprovePlan(r) \/ CheckManifest(r) \/ BeginPhase(r)
       \/ ShopActs(r) \/ EndPhase(r)
  \/ RestartController \/ CloseController \/ ScenarioChanges \/ HourPasses

----------------------------------------------------------------------------
Statuses == {"ABSENT", "DRAFT", "APPROVED", "EXECUTING", "EXECUTED", "FAILED",
             "ROLLING_BACK", "ROLLED_BACK", "ROLLBACK_FAILED"}

ControllerTypeOK ==
  /\ plan.status \in Statuses /\ plan.version \in Nat
  /\ {plan.created_by, plan.approved_by} \subseteq ShopOperator \cup {NoName}
  /\ \A p \in Phases : plan.keys[p] \in OrderKey \cup {NoName}
  /\ scenarioFile \in 1..2 /\ switched \in {"on", "off", "closed"} /\ hour \in 0..LastHour
  /\ \A r \in Directive : order[r].at \in {"idle", "checked", "posting", "left", "ended"}

\* The planTrail tells every status the plan went through: one entry a version,
\* each by a step the protocol has.  minishop.py:368-476, :535-568.
TrailTellsPlan ==
  /\ Len(planTrail) = plan.version
  /\ plan.version > 0 => planTrail[plan.version].status = plan.status
  /\ \A i \in 1..Len(planTrail) - 1 :
       \/ \E p \in Phases : planTrail[i].status = From(p) /\ planTrail[i + 1].status = To(p)
       \/ \E p \in Phases \ {"approval"}, ok \in BOOLEAN :
            planTrail[i].status = To(p) /\ planTrail[i + 1].status = EndOf(p, ok)

Posted(stage) == {i \in DOMAIN shop : shop[i].stage = stage}

\* The shop does only what another operator than the plan's author has
\* approved, under the one key its phase was claimed with, and takes back only
\* what the plan says was done.  minishop.py:400-430, :703-821.
ShopActsOnApproval ==
  \A i \in DOMAIN shop :
    LET ask == order[shop[i].request].ask IN
    /\ plan.approved_by \notin {NoName, plan.created_by}
    /\ ask.key = plan.keys[ask.stage]
    /\ ask.stage = "rollback" => \E j \in 1..i - 1 : shop[j].stage = "execution"

\* A result the plan names was reached: the shop has acted when the plan says
\* so.  minishop.py:718-761, :778-821.
ResultsWereReached ==
  /\ plan.status \in {"EXECUTED", "ROLLING_BACK", "ROLLED_BACK", "ROLLBACK_FAILED"} =>
       Posted("execution") # {}
  /\ plan.status = "ROLLED_BACK" => Posted("rollback") # {}

\* Nothing says that the last post to the shop is what the plan tells: a repeat
\* under the same key posts once more, perhaps after the rollback has.
ControllerIsSound == TrailTellsPlan /\ ShopActsOnApproval /\ ResultsWereReached
=============================================================================
