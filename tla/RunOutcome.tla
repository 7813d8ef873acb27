----------------------------- MODULE RunOutcome -----------------------------
(***************************************************************************)
(* What a WorkflowRun promises to everything outside its executors: it is  *)
(* attempted some number of times, ends at most once, as SUCCEEDED, FAILED *)
(* or CANCELED, publishes a report only by the attempt that ends it        *)
(* successfully, and records one audit event only when it is canceled.     *)
(* No lease, clock, version or process appears here.                       *)
(***************************************************************************)
EXTENDS Naturals

VARIABLES
  status,     \* PENDING, RUNNING or how the run ended
  attempts,   \* executions begun so far
  published,  \* the attempt whose report is readable, 0 without one
  audited     \* rca.canceled events recorded

vars == <<status, attempts, published, audited>>

Init ==
  /\ status = "PENDING"
  /\ attempts = 0
  /\ published = 0
  /\ audited = 0

\* An execution begins; an earlier one that has not ended is superseded.
Attempt ==
  /\ status \in {"PENDING", "RUNNING"}
  /\ status' = "RUNNING"
  /\ attempts' = attempts + 1
  /\ UNCHANGED <<published, audited>>

\* The current attempt, and no other, ends the run.
Succeed ==
  /\ status = "RUNNING"
  /\ status' = "SUCCEEDED"
  /\ published' = attempts
  /\ UNCHANGED <<attempts, audited>>

Fail ==
  /\ status = "RUNNING"
  /\ status' = "FAILED"
  /\ UNCHANGED <<attempts, published, audited>>

Cancel ==
  /\ status \in {"PENDING", "RUNNING"}
  /\ status' = "CANCELED"
  /\ audited' = audited + 1
  /\ UNCHANGED <<attempts, published>>

Next == Attempt \/ Succeed \/ Fail \/ Cancel

Spec == Init /\ [][Next]_vars
=============================================================================
