--------------------------- MODULE Investigation ---------------------------
(* The agent at work on one incident: executions of its run, of which an     *)
(* older one may go on beside its successor, collect evidence with tools     *)
(* and report.  A fixed plan checks the permission for all its tools before  *)
(* the first call; the dynamic investigation chooses and checks tool by tool *)
(* and leaves a checkpoint after each, in one row per incident.              *)
EXTENDS Naturals, Sequences, FiniteSets

CONSTANTS
  Execution,   \* numbered in the order they start: attempts of the run
  Plan         \* the tools of the fixed plan, in order

NoTool == "none"
Tools == {"topology", "metrics", "logs", "changes", "traces", "knowledge", "runbooks"}

\* The steps of the plan are of different tools.
ASSUME InvestigationAssumption ==
  /\ Execution \subseteq Nat /\ Plan \in Seq(Tools)
  /\ \A m, n \in DOMAIN Plan : Plan[m] = Plan[n] => m = n

VARIABLES
  policy,      \* "fail_fast" or "degrading" for the fixed plan, or "dynamic"
  surroundings,\* the topology: "none", or the service is "inside" or "outside"
  maxSteps,    \* budget of the dynamic investigation
  granted,     \* whether the operator holds the permissions now
  inquiry,     \* of each execution: where it is, and what it has
  checkpoint   \* the row of the incident

investigationVars == <<policy, surroundings, maxSteps, granted, inquiry, checkpoint>>
scenarioVars == <<policy, surroundings, maxSteps>>

NoRow == [version |-> 0, by |-> 0]

\* A fresh execution.  "late" are the calls it began after the permission was
\* revoked; "confidence" is in tenths.
Fresh0 ==
  [at |-> "idle", tool |-> NoTool, checked |-> 0, steps |-> 0, visited |-> {},
   done |-> {}, failed |-> {}, signals |-> FALSE, evidence |-> {}, invoked |-> {},
   version |-> 1, stop |-> "none", late |-> {}, confidence |-> 0, named |-> {}]

Now(x, at) == inquiry' = [inquiry EXCEPT ![x].at = at]

----------------------------------------------------------------------------
(* The fixed plan.                                                         *)

StartPlan(x) ==
  /\ policy # "dynamic"
  /\ inquiry[x].at = "idle"
  /\ Now(x, "preparing")
  /\ UNCHANGED <<scenarioVars, granted, checkpoint>>

\* All permissions are asked for first; a refusal, or a failure of the data
\* source, ends the execution with nothing.
PrepareStep(x) ==
  /\ inquiry[x].at = "preparing"
  /\ inquiry[x].checked < Len(Plan)
  /\ \/ granted /\ inquiry' = [inquiry EXCEPT ![x].checked = @ + 1]
     \/ Now(x, "lost")
  /\ UNCHANGED <<scenarioVars, granted, checkpoint>>

\* Tools whose call is over come first in the plan.
NextOfPlan(x) == Plan[Cardinality(inquiry[x].visited) + 1]

CallOfPlan(x) ==
  /\ policy # "dynamic"
  /\ \/ inquiry[x].at = "preparing" /\ inquiry[x].checked = Len(Plan)
     \/ inquiry[x].at = "continuing"
  /\ IF Cardinality(inquiry[x].visited) = Len(Plan)
     THEN Now(x, "collected")
     ELSE inquiry' = [inquiry EXCEPT
            ![x].at = "calling", ![x].tool = NextOfPlan(x),
            ![x].late = IF granted THEN @ ELSE @ \cup {NextOfPlan(x)}]
  /\ UNCHANGED <<scenarioVars, granted, checkpoint>>

\* The tool gives a result that can be kept, as evidence.
Succeeded(x) ==
  [inquiry[x] EXCEPT !.visited = @ \cup {inquiry[x].tool},
                     !.evidence = @ \cup {inquiry[x].tool},
                     !.invoked = @ \cup {<<inquiry[x].tool, "SUCCEEDED">>}]

\* It fails, takes too long, or its result is refused.
Failed(x) ==
  [inquiry[x] EXCEPT !.visited = @ \cup {inquiry[x].tool},
                     !.failed = @ \cup {inquiry[x].tool},
                     !.invoked = @ \cup {<<inquiry[x].tool, "FAILED">>}]


\* The first failure ends the plan, with what was collected; or it goes on.
AfterFailure(x) ==
  [Failed(x) EXCEPT !.at = IF policy = "degrading" THEN "continuing" ELSE "failed"]

CallEnds(x) ==
  /\ policy # "dynamic"
  /\ inquiry[x].at = "calling"
  /\ inquiry' \in {[inquiry EXCEPT ![x] = [Succeeded(x) EXCEPT !.at = "continuing"]],
                   [inquiry EXCEPT ![x] = AfterFailure(x)]}
  /\ UNCHANGED <<scenarioVars, granted, checkpoint>>

----------------------------------------------------------------------------
(* The dynamic investigation.                                              *)

\* The incident and the topology are loaded; if that fails, a missing topology
\* included, nothing is collected.
LoadContext(x) ==
  /\ policy = "dynamic"
  /\ inquiry[x].at = "idle"
  /\ Now(x, "continuing") \/ Now(x, "lost")
  /\ UNCHANGED <<scenarioVars, granted, checkpoint>>

\* The planner: the first tool not visited whose condition holds, or none.
NextTool(x) ==
  LET q == inquiry[x] IN
  CASE "topology" \notin q.visited -> "topology"
    [] "metrics" \notin q.visited -> "metrics"
    [] "logs" \notin q.visited -> "logs"
    [] "changes" \notin q.visited /\ (q.signals \/ "metrics" \in q.done) -> "changes"
    [] "traces" \notin q.visited /\ (q.signals \/ "logs" \in q.done) -> "traces"
    [] "knowledge" \notin q.visited -> "knowledge"
    [] "runbooks" \notin q.visited -> "runbooks"
    [] OTHER -> NoTool

\* Tools that name the service are refused when the topology does not know it.
Blocked(tool) == surroundings = "outside" /\ tool \in {"metrics", "knowledge"}

Stopping(q, reason) == [q EXCEPT !.stop = reason, !.version = @ + 1]

\* record_tool: the step counts, and the version of the state goes up.
Counted(q, ok) ==
  [q EXCEPT !.steps = @ + 1, !.version = @ + 1, !.visited = @ \cup {q.tool},
            !.done = IF ok THEN @ \cup {q.tool} ELSE @,
            !.failed = IF ok THEN @ ELSE @ \cup {q.tool}]

WithinBudget(x) == inquiry[x].steps < maxSteps

\* At the head of the loop: the budget of steps or of time is used up, the
\* planner has nothing left, the policy refuses its choice, or a call is due.
Choose(x) ==
  /\ policy = "dynamic"
  /\ inquiry[x].at = "continuing"
  /\ LET q == inquiry[x]
         due == [q EXCEPT !.tool = NextTool(x)] IN
     \/ /\ q.stop # "none"
        /\ Now(x, "collected")
     \/ /\ q.stop = "none"
        /\ inquiry' = [inquiry EXCEPT ![x] =
             [Stopping(q, "BUDGET_EXHAUSTED") EXCEPT !.at = "collected"]]
     \/ /\ q.stop = "none" /\ WithinBudget(x)
        /\ inquiry' = [inquiry EXCEPT ![x] =
             IF NextTool(x) = NoTool
             THEN [Stopping(q, "EVIDENCE_SUFFICIENT") EXCEPT !.at = "collected"]
             ELSE IF Blocked(NextTool(x))
             THEN [Stopping(Counted(due, FALSE), "POLICY_BLOCKED") EXCEPT !.at = "saving_last"]
             ELSE [due EXCEPT !.at = "checking"]]
  /\ UNCHANGED <<scenarioVars, granted, checkpoint>>

\* The permission for this one tool.  A refusal is a failed step without a call.
CheckPermission(x) ==
  /\ inquiry[x].at = "checking"
  /\ \/ granted /\ Now(x, "permitted")
     \/ inquiry' = [inquiry EXCEPT ![x] = [Counted(@, FALSE) EXCEPT !.at = "saving_again"]]
  /\ UNCHANGED <<scenarioVars, granted, checkpoint>>

BeginCall(x) ==
  /\ inquiry[x].at = "permitted"
  /\ inquiry' = [inquiry EXCEPT ![x].at = "calling",
                   ![x].late = IF granted THEN @ ELSE @ \cup {inquiry[x].tool}]
  /\ UNCHANGED <<scenarioVars, granted, checkpoint>>

\* A success at the limit of steps counts as sufficient evidence.
DynamicCallEnds(x) ==
  /\ policy = "dynamic"
  /\ inquiry[x].at = "calling"
  /\ \/ \E signals \in {inquiry[x].signals, TRUE} :
          LET q == [Counted(Succeeded(x), TRUE) EXCEPT !.at = "saving", !.signals = signals]
          IN inquiry' = [inquiry EXCEPT ![x] =
               IF q.steps >= maxSteps THEN Stopping(q, "EVIDENCE_SUFFICIENT") ELSE q]
     \/ inquiry' = [inquiry EXCEPT ![x] =
          [Counted(Failed(x), FALSE) EXCEPT !.at = "saving_again"]]
  /\ UNCHANGED <<scenarioVars, granted, checkpoint>>

NotOlder(x) == inquiry[x].version >= checkpoint.version

\* The checkpoint is written unless there is a newer one.  A failure after a
\* success counts the step once more, as failed; one after that ends all.
SaveCheckpoint(x) ==
  /\ inquiry[x].at \in {"saving", "saving_again", "saving_last"}
  /\ \/ /\ checkpoint' = IF NotOlder(x)
                         THEN [version |-> inquiry[x].version, by |-> x] ELSE checkpoint
        /\ Now(x, IF inquiry[x].at = "saving_last" THEN "collected" ELSE "continuing")
     \/ /\ inquiry' = [inquiry EXCEPT ![x] =
             IF inquiry[x].at = "saving"
             THEN [Counted(@, FALSE) EXCEPT !.at = "saving_again"]
             ELSE [@ EXCEPT !.at = "lost"]]
        /\ UNCHANGED checkpoint
  /\ UNCHANGED <<scenarioVars, granted>>

----------------------------------------------------------------------------
(* The end of an execution.                                                *)

Lower(a, b) == IF a <= b THEN a ELSE b

\* Partial collections, and dynamic ones that were cut short, inspire less.
Capped(x, confidence) ==
  IF policy = "dynamic"
  THEN IF inquiry[x].stop = "EVIDENCE_SUFFICIENT" THEN confidence ELSE Lower(confidence, 4)
  ELSE LET coverage == (10 * Cardinality(inquiry[x].evidence)) \div Len(Plan)
       IN Lower(confidence, IF inquiry[x].failed = {} THEN coverage ELSE Lower(coverage, 4))

\* Without evidence there is no report; with it, the generator may still fail.
Report(x) ==
  /\ inquiry[x].at = "collected"
  /\ IF inquiry[x].evidence = {} THEN Now(x, "failed")
     ELSE \/ \E confidence \in {3, 9} :
               inquiry' = [inquiry EXCEPT ![x].at = "reported",
                             ![x].confidence = Capped(x, confidence),
                             ![x].named = inquiry[x].failed]
          \/ Now(x, "failed")
  /\ UNCHANGED <<scenarioVars, granted, checkpoint>>

Ceased == {"reported", "failed", "lost", "cancelled"}

\* The lease is lost, the time is up, or the process dies: no result at all.
CancelExecution(x) ==
  /\ inquiry[x].at \notin Ceased \cup {"idle", "none"}
  /\ Now(x, "cancelled")
  /\ UNCHANGED <<scenarioVars, granted, checkpoint>>

\* An administrator revokes the grant.
RevokeGrant ==
  /\ granted
  /\ granted' = FALSE
  /\ UNCHANGED <<scenarioVars, inquiry, checkpoint>>

\* "none" is an attempt that never happens.
Starting0(starters) ==
  inquiry = [x \in Execution |-> IF x \in starters THEN Fresh0 ELSE [Fresh0 EXCEPT !.at = "none"]]

\* A policy there is, and a budget.
InquestAsks(S) ==
  \A s \in S : s[1] \in {"fail_fast", "degrading", "dynamic"} /\ s[3] \in Nat

InvestigationInit ==
  /\ granted = TRUE
  /\ checkpoint = NoRow

InvestigationNext ==
  \/ RevokeGrant
  \/ \E x \in Execution :
       \/ StartPlan(x) \/ PrepareStep(x) \/ CallOfPlan(x) \/ CallEnds(x)
       \/ LoadContext(x) \/ Choose(x) \/ CheckPermission(x) \/ BeginCall(x)
       \/ DynamicCallEnds(x) \/ SaveCheckpoint(x) \/ Report(x) \/ CancelExecution(x)

GoesOn(x) ==
  \/ PrepareStep(x) \/ CallOfPlan(x) \/ CallEnds(x) \/ Choose(x) \/ CheckPermission(x)
  \/ BeginCall(x) \/ DynamicCallEnds(x) \/ SaveCheckpoint(x) \/ Report(x)

\* Tools and permission checks have timeouts, and so has the execution.
InvestigationFairness == \A x \in Execution : WF_investigationVars(GoesOn(x))

----------------------------------------------------------------------------
InvestigationTypeOK ==
  /\ policy \in {"fail_fast", "degrading", "dynamic"}
  /\ surroundings \in {"none", "inside", "outside"}
  /\ granted \in BOOLEAN
  /\ checkpoint.version \in Nat /\ checkpoint.by \in Execution \cup {0}
  /\ \A x \in Execution :
       LET q == inquiry[x] IN
       /\ q.at \in Ceased \cup {"none", "idle", "preparing", "continuing", "checking", "permitted",
                               "calling", "saving", "saving_again", "saving_last",
                               "collected"}
       /\ q.tool \in Tools \cup {NoTool}
       /\ q.visited \cup q.done \cup q.failed \cup q.evidence \cup q.late \cup q.named
            \subseteq Tools
       /\ q.invoked \subseteq Tools \X {"SUCCEEDED", "FAILED"}

\* What is handed over with a result, or with a failure in the middle: the
\* evidence is that of the calls recorded as successful, no tool was called
\* twice, and a report names whatever did not work.
\* controlled_workflow.py:289-451, dynamic_workflow.py:180-260.
EvidenceIsAccounted ==
  \A x \in Execution :
    LET q == inquiry[x] IN
    q.at \in {"reported", "failed"} =>
      /\ q.evidence = {t \in Tools : <<t, "SUCCEEDED">> \in q.invoked}
      /\ \A t \in Tools : <<t, "SUCCEEDED">> \notin q.invoked \/ <<t, "FAILED">> \notin q.invoked
      /\ q.at = "reported" => /\ q.evidence # {}
                              /\ {t \in Tools : <<t, "FAILED">> \in q.invoked} \subseteq q.named

\* Nothing is called beyond the budget, though a step may count twice.
CallsWithinBudget ==
  \A x \in Execution :
    policy = "dynamic" =>
      /\ Cardinality(inquiry[x].invoked) <= maxSteps
      /\ inquiry[x].steps <= maxSteps + 1

\* A revoked permission is felt at the next choice: the dynamic investigation
\* begins one call at most after it, the one it had checked already.
RevocationIsFelt ==
  \A x \in Execution : policy = "dynamic" => Cardinality(inquiry[x].late) <= 1

\* A plan that may not call one of its tools calls none.
PlansAreAllowedWhole ==
  \A x \in Execution :
    policy # "dynamic" /\ inquiry[x].invoked # {} => inquiry[x].checked = Len(Plan)

\* A confident report was not cut short: the fixed plan had evidence of all
\* kinds, the dynamic one was neither stopped by time nor by the policy.
ConfidenceIsEarned ==
  \A x \in Execution :
    inquiry[x].at = "reported" /\ inquiry[x].confidence > 4 =>
      IF policy = "dynamic"
      THEN \A t \in {"topology", "metrics", "logs", "knowledge", "runbooks"} :
             t \in inquiry[x].visited \/ inquiry[x].steps >= maxSteps
      ELSE inquiry[x].failed = {}

\* The row of the incident is never overwritten by an older state, whichever
\* execution writes it.  investigation_checkpoint.py:28-66.
CheckpointsAdvance == [][checkpoint'.version >= checkpoint.version]_investigationVars

\* The states of an investigation: evidence, budgets, permissions and confidence.
InvestigationsAreSound ==
  /\ EvidenceIsAccounted /\ CallsWithinBudget /\ RevocationIsFelt
  /\ PlansAreAllowedWhole /\ ConfidenceIsEarned

\* An investigation that has begun ends.
InvestigationsEnd ==
  \A x \in Execution : (inquiry[x].at \notin {"none", "idle"}) ~> (inquiry[x].at \in Ceased)

\* Not so: the checkpoint may still be that of an execution that was taken
\* over, whose successor has ended.
CheckpointIsOfLast ==
  \A x, y \in Execution :
    x < y /\ policy = "dynamic" /\ inquiry[y].at \in {"reported"} => checkpoint.by # x
=============================================================================
