----------------------------- MODULE Remediation -----------------------------
(***************************************************************************)
(* One remediation plan: two people decide it, a request claims its        *)
(* execution and calls an external controller, and a later request may     *)
(* claim its rollback.  A claim has a lease; when the lease has run out    *)
(* without a result, a reclaim worker, or whoever finds it, fails the      *)
(* claim.                                                                  *)
(*                                                                         *)
(* Every request is a series of transactions: it loads the plan, decides   *)
(* on what it loaded, and writes back under a row lock if the version is   *)
(* still the same.  Between two of them other requests and the worker run, *)
(* and a process may stop (Abort).                                         *)
(*                                                                         *)
(* Deciding, executing and rolling back have one shape: a phase starts     *)
(* from one status, is claimed under an idempotency key by an operator,    *)
(* and ends in one of two statuses.                                        *)
(***************************************************************************)
EXTENDS Naturals

CONSTANTS
  Handler,      \* concurrent HTTP requests
  Reclaimer,    \* the reclaim worker
  Operator,     \* people
  Key,          \* idempotency keys of their requests
  NoOne,        \* no operator, no key
  PlanKey,      \* the key execute:<plan> or rollback:<plan> of a call
  BatchSize     \* configured batch of the reclaim worker

MaxServiceBatch == 1000
MaxRepositoryBatch == 500

ASSUME PlanAssumption ==
  /\ Reclaimer \notin Handler
  /\ NoOne \notin Operator
  /\ NoOne \notin Key
  /\ BatchSize \in 1..MaxServiceBatch

Process == Handler \cup {Reclaimer}

Phase == {"decide", "execute", "rollback"}
CalledPhase == {"execute", "rollback"}

From == [decide |-> "DRAFT", execute |-> "APPROVED", rollback |-> "SUCCEEDED"]
Running == [execute |-> "EXECUTING", rollback |-> "ROLLING_BACK"]
Good == [decide |-> "APPROVED", execute |-> "SUCCEEDED",
         rollback |-> "ROLLED_BACK"]
Poor == [decide |-> "REJECTED", execute |-> "FAILED",
         rollback |-> "ROLLBACK_FAILED"]

Effect == [execute |-> "applied", rollback |-> "undone"]

Result(phase, good) == IF good THEN Good[phase] ELSE Poor[phase]

\* The version is a function of the status.
Version ==
  [absent |-> 0, DRAFT |-> 1, APPROVED |-> 2, REJECTED |-> 2, EXECUTING |-> 3,
   SUCCEEDED |-> 4, FAILED |-> 4, ROLLING_BACK |-> 5, ROLLED_BACK |-> 6,
   ROLLBACK_FAILED |-> 6]
Status == DOMAIN Version

VARIABLES
  status,     \* of the plan; "absent" before it is created
  author,     \* who created it
  claim,      \* key and operator of each phase
  expired,    \* whether some clock has passed the end of the running lease
  source,     \* who ended each phase: its controller, or the end of the lease
  task,       \* what each process does, on the status it loaded
  calls,      \* calls the controller was sent
  performed,  \* calls it has carried out, with the result
  effect,     \* what they amount to in the target system
  told        \* results that callers were told

planVars == <<status, author, claim, expired, source>>
controllerVars == <<calls, performed, effect>>
vars == <<planVars, task, controllerVars, told>>

Idle ==
  [step |-> "idle", phase |-> "decide", key |-> NoOne, by |-> NoOne,
   seen |-> "absent", good |-> FALSE]

Load(p, step, phase, key, by) ==
  task' = [task EXCEPT ![p] = [step |-> step, phase |-> phase, key |-> key,
                               by |-> by, seen |-> status, good |-> FALSE]]

Continue(p, step) == task' = [task EXCEPT ![p].step = step]

Return(p) == task' = [task EXCEPT ![p] = Idle]

\* Mutation: the version is not compared, the last writer wins.
ReplacesAny(p) == TRUE

\* The conditional write: the row is as the process loaded it.
Unchanged(p) == Version[status] = Version[task[p].seen]

----------------------------------------------------------------------------
(* The plan is created and decided.                                        *)

Create(o) ==
  /\ status = "absent"
  /\ status' = "DRAFT"
  /\ author' = o
  /\ UNCHANGED <<claim, expired, source, task, controllerVars, told>>

\* Mutation: the author may approve the plan.
MayDecideAny(o, approved) == TRUE

MayDecide(o, approved) == approved => o # author

DecideLoads(h, k, o, approved) ==
  /\ task[h].step = "idle"
  /\ status = From["decide"]
  /\ MayDecide(o, approved)
  /\ task' = [task EXCEPT ![h] =
                [step |-> "decide", phase |-> "decide", key |-> k, by |-> o,
                 seen |-> status, good |-> approved]]
  /\ UNCHANGED <<planVars, controllerVars, told>>

Decide(h) ==
  /\ task[h].step = "decide"
  /\ IF Unchanged(h)
       THEN /\ status' = Result("decide", task[h].good)
            /\ claim' = [claim EXCEPT !["decide"] =
                           [key |-> task[h].key, by |-> task[h].by]]
            /\ source' = [source EXCEPT !["decide"] = "controller"]
            /\ told' = told \cup {status'}
       ELSE UNCHANGED <<status, claim, source, told>>
  /\ Return(h)
  /\ UNCHANGED <<author, expired, controllerVars>>

----------------------------------------------------------------------------
(* Execution and rollback.                                                 *)

\* A new request finds the plan ready.  Version, policy, definition and audit
\* evidence are checked on what it loaded.
RequestLoads(h, phase, k, o) ==
  /\ task[h].step = "idle"
  /\ status = From[phase]
  /\ Load(h, "claim", phase, k, o)
  /\ UNCHANGED <<planVars, controllerVars, told>>

Claim(h) ==
  /\ task[h].step = "claim"
  /\ IF Unchanged(h)
       THEN /\ status' = Running[task[h].phase]
            /\ claim' = [claim EXCEPT ![task[h].phase] =
                           [key |-> task[h].key, by |-> task[h].by]]
            /\ expired' = FALSE
            /\ Continue(h, "call")
       ELSE UNCHANGED <<status, claim, expired>> /\ Return(h)
  /\ UNCHANGED <<author, source, controllerVars, told>>

\* A retry by the person who decided is told the decision.
ReplayDecided(h, k, o) ==
  /\ task[h].step = "idle"
  /\ claim["decide"] = [key |-> k, by |-> o]
  /\ status \in {Good["decide"], Poor["decide"]}
  /\ told' = told \cup {status}
  /\ UNCHANGED <<planVars, task, controllerVars>>

\* A retry of a phase that has ended is told the result, whoever asks.
ReplayEnded(h, phase, k) ==
  /\ task[h].step = "idle"
  /\ claim[phase].key = k
  /\ status \in {Good[phase], Poor[phase]}
  /\ told' = told \cup {status}
  /\ UNCHANGED <<planVars, task, controllerVars>>

\* One of a phase that is running calls the controller again, or fails the
\* claim when it finds the lease expired.  A time that was read before the end
\* of the lease, or from a slower clock, still finds it active.
ReplayRunning(h, phase, k, o) ==
  /\ task[h].step = "idle"
  /\ claim[phase] = [key |-> k, by |-> o]
  /\ status = Running[phase]
  /\ \/ Load(h, "call", phase, k, o)
     \/ expired /\ Load(h, "failstale", phase, k, o)
  /\ UNCHANGED <<planVars, controllerVars, told>>

\* Mutation: every request sends a key of its own.
CallKeyOfRequest(p) == p

CallKey(p) == PlanKey

Call(h) ==
  /\ task[h].step = "call"
  /\ calls' = calls \cup {[phase |-> task[h].phase, key |-> CallKey(h)]}
  /\ Continue(h, "wait")
  /\ UNCHANGED <<planVars, performed, effect, told>>

\* The controller carries out a call, however late, and only once by its key.
Perform(call, good) ==
  /\ call \in calls
  /\ \A done \in performed : done.call # call
  /\ performed' = performed \cup {[call |-> call, good |-> good]}
  /\ effect' = IF good THEN Effect[call.phase] ELSE effect
  /\ UNCHANGED <<planVars, task, calls, told>>

\* Its answer arrives in time,
Answered(h) ==
  /\ task[h].step = "wait"
  /\ \E done \in performed :
       /\ done.call = [phase |-> task[h].phase, key |-> CallKey(h)]
       /\ task' = [task EXCEPT ![h].step = "reload", ![h].good = done.good]
  /\ UNCHANGED <<planVars, controllerVars, told>>

\* or it does not, or is an error.
NotAnswered(h) ==
  /\ task[h].step = "wait"
  /\ Continue(h, "recheck")
  /\ UNCHANGED <<planVars, controllerVars, told>>

\* The claim is failed if its lease has expired meanwhile.
Recheck(h) ==
  /\ task[h].step = "recheck"
  /\ \/ /\ status = Running[task[h].phase]
        /\ expired
        /\ task' = [task EXCEPT ![h].step = "failstale", ![h].seen = status]
     \/ Return(h)
  /\ UNCHANGED <<planVars, controllerVars, told>>

\* With the answer the plan is loaded again, and its owner compared with the
\* claim's.  The attempts compared with it are always 1.
Reload(h) ==
  /\ task[h].step = "reload"
  /\ LET phase == task[h].phase IN
     IF status = Running[phase]
       THEN \/ /\ expired
               /\ task' = [task EXCEPT ![h].step = "failstale",
                                       ![h].seen = status]
               /\ UNCHANGED told
            \/ /\ claim[phase].by = task[h].by
               /\ task' = [task EXCEPT ![h].step = "finish",
                                       ![h].seen = status]
               /\ UNCHANGED told
       ELSE /\ told' = IF /\ claim[phase].key = task[h].key
                          /\ status \in {Good[phase], Poor[phase]}
                         THEN told \cup {status} ELSE told
            /\ Return(h)
  /\ UNCHANGED <<planVars, controllerVars>>

Finish(h) ==
  /\ task[h].step = "finish"
  /\ IF Unchanged(h)
       THEN /\ status' = Result(task[h].phase, task[h].good)
            /\ source' = [source EXCEPT ![task[h].phase] = "controller"]
            /\ told' = told \cup {status'}
       ELSE UNCHANGED <<status, source, told>>
  /\ Return(h)
  /\ UNCHANGED <<author, claim, expired, controllerVars>>

----------------------------------------------------------------------------
(* Leases.                                                                 *)

Expire ==
  /\ \E phase \in CalledPhase : status = Running[phase]
  /\ ~expired
  /\ expired' = TRUE
  /\ UNCHANGED <<status, author, claim, source, task, controllerVars, told>>

\* Mutation: the worker looks for executions only.
StaleExecution(phase) == phase = "execute" /\ status = Running[phase] /\ expired

Stale(phase) == status = Running[phase] /\ expired

\* One cycle of the worker lists stale plans; the repository refuses a batch
\* above its own limit, and the cycle fails.
Scan ==
  /\ task[Reclaimer].step = "idle"
  /\ BatchSize <= MaxRepositoryBatch
  /\ \E phase \in CalledPhase :
       /\ Stale(phase)
       /\ Load(Reclaimer, "failstale", phase, claim[phase].key, claim[phase].by)
  /\ UNCHANGED <<planVars, controllerVars, told>>

FailStale(p) ==
  /\ task[p].step = "failstale"
  /\ IF Unchanged(p)
       THEN /\ status' = Poor[task[p].phase]
            /\ source' = [source EXCEPT ![task[p].phase] = "lease"]
       ELSE UNCHANGED <<status, source>>
  /\ Return(p)
  /\ UNCHANGED <<author, claim, expired, controllerVars, told>>

\* The process stops, or ends with an error: a transaction failed, or what it
\* loaded is a conflict, or the answer of its last step is lost.
Abort(p) ==
  /\ task[p].step # "idle"
  /\ Return(p)
  /\ UNCHANGED <<planVars, controllerVars, told>>

----------------------------------------------------------------------------
Init ==
  /\ status = "absent"
  /\ author = NoOne
  /\ claim = [phase \in Phase |-> [key |-> NoOne, by |-> NoOne]]
  /\ expired = FALSE
  /\ source = [phase \in Phase |-> "open"]
  /\ task = [p \in Process |-> Idle]
  /\ calls = {}
  /\ performed = {}
  /\ effect = "none"
  /\ told = {}

Request(h) ==
  \/ \E k \in Key, o \in Operator :
       \/ ReplayDecided(h, k, o)
       \/ \E approved \in BOOLEAN : DecideLoads(h, k, o, approved)
       \/ \E phase \in CalledPhase :
            RequestLoads(h, phase, k, o) \/ ReplayRunning(h, phase, k, o)
  \/ \E k \in Key, phase \in CalledPhase : ReplayEnded(h, phase, k)

Step(h) ==
  \/ Decide(h) \/ Claim(h) \/ Call(h) \/ Answered(h) \/ NotAnswered(h)
  \/ Recheck(h) \/ Reload(h) \/ Finish(h)

Next ==
  \/ \E o \in Operator : Create(o)
  \/ \E h \in Handler : Request(h) \/ Step(h)
  \/ \E call \in calls, good \in BOOLEAN : Perform(call, good)
  \/ Expire
  \/ Scan
  \/ \E p \in Process : FailStale(p) \/ Abort(p)

Spec == Init /\ [][Next]_vars

\* Time passes, and the worker keeps running; a transaction of it does not
\* fail every time.
FairSpec ==
  /\ Spec
  /\ WF_vars(Expire)
  /\ WF_vars(Scan)
  /\ SF_vars(FailStale(Reclaimer))

(***************************************************************************)
(* Properties.                                                             *)
(***************************************************************************)

TypeOK ==
  /\ status \in Status
  /\ author \in Operator \cup {NoOne}
  /\ claim \in [Phase -> [key : Key \cup {NoOne}, by : Operator \cup {NoOne}]]
  /\ expired \in BOOLEAN
  /\ source \in [Phase -> {"open", "controller", "lease"}]
  /\ task \in [Process ->
       [step : {"idle", "decide", "claim", "call", "wait", "recheck", "reload",
                "finish", "failstale"},
        phase : Phase, key : Key \cup {NoOne}, by : Operator \cup {NoOne},
        seen : Status, good : BOOLEAN]]
  /\ calls \subseteq [phase : CalledPhase, key : {PlanKey}]
  /\ performed \subseteq [call : calls, good : BOOLEAN]
  /\ effect \in {"none", "applied", "undone"}
  /\ told \subseteq Status

\* What a plan may become from each status.
Later ==
  [absent |-> Status,
   DRAFT |-> Status \ {"absent"},
   APPROVED |-> Status \ {"absent", "DRAFT", "REJECTED"},
   REJECTED |-> {"REJECTED"},
   EXECUTING |-> Status \ {"absent", "DRAFT", "APPROVED", "REJECTED"},
   SUCCEEDED |-> {"SUCCEEDED", "ROLLING_BACK", "ROLLED_BACK",
                  "ROLLBACK_FAILED"},
   FAILED |-> {"FAILED"},
   ROLLING_BACK |-> {"ROLLING_BACK", "ROLLED_BACK", "ROLLBACK_FAILED"},
   ROLLED_BACK |-> {"ROLLED_BACK"},
   ROLLBACK_FAILED |-> {"ROLLBACK_FAILED"}]

\* A result is never overwritten: not by an answer that comes after the worker
\* has failed the claim, not by a worker that loaded the plan before the
\* result, not by a second decision.  remediation_repository.py:141-148.
ResultIsFinal == [][status' \in Later[status]]_status

\* What a caller was told the plan has come to still holds, or the plan went on
\* from there.  remediation_service.py:308-458.
ToldIsKept == \A s \in told : status \in Later[s]

\* Whoever calls the controller does so for the one request that claimed the
\* phase, under its key and for its operator: of two requests that found the
\* plan ready, one calls.  remediation_service.py:377-412.
CallsAreClaimed ==
  \A h \in Handler :
    task[h].step \in {"call", "wait"} =>
      claim[task[h].phase] = [key |-> task[h].key, by |-> task[h].by]

\* The decision that was acted on stands: as long as the controller holds a call,
\* no rejection that loaded the same draft overturns the approval, which is by
\* another than the author.  And a rollback is sent only when the controller has
\* carried out the execution, so no execution that was given up for lost arrives
\* after its rollback.  remediation_service.py:330-332, 384-412, 466-490,
\* remediation.py:189-192.
EffectsAreApproved ==
  \A call \in calls :
    /\ status \in Later["EXECUTING"]
    /\ claim["decide"].by \notin {author, NoOne}
    /\ call.phase = "rollback" =>
         /\ status \in Later["ROLLING_BACK"]
         /\ \E done \in performed : done.call.phase = "execute" /\ done.good

\* A result that came from the controller describes the target system, and
\* goes on to do so: no call that was given up for lost undoes it later.
\* Nothing is said of a claim that was failed for its lease.
\* remediation_service.py:405-458 and 511-567.
ResultsAreTrue ==
  /\ status = "SUCCEEDED" => effect = "applied"
  /\ status = "ROLLED_BACK" => effect = "undone"
  /\ status = "FAILED" /\ source["execute"] = "controller" => effect = "none"
  /\ status = "ROLLBACK_FAILED" /\ source["rollback"] = "controller"
       => effect = "applied"

\* A plan does not stay in execution or rollback for ever, whatever became of
\* the request that claimed it.  docs/remediation-execution-lease.md:77.
StuckPlansEnd ==
  \A phase \in CalledPhase : status = Running[phase] ~> status # Running[phase]
=============================================================================
