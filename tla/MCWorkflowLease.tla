-------------------------- MODULE MCWorkflowLease --------------------------
(* Instances of WorkflowLease for TLC, in three settings: processes that    *)
(* stall as they like under clocks that differ; processes that keep their  *)
(* heartbeats under clocks that agree; and replicas that share one worker  *)
(* id, with a second canceler.                                             *)
EXTENDS WorkflowLease, TLC

Symmetry == Permutations(Request)

CONSTANTS
  Alone,            \* the process that has a worker id of its own in any setting
  MaxSkewedClock,   \* bound: the reference clock under stalls and skew
  MaxSharedClock    \* bound: the reference clock of replicas that share an id

VARIABLE setting

\* All but one process are one worker.
OneAlone ==
  [p \in Executor |-> IF p = Alone THEN p ELSE CHOOSE q \in Executor : q # Alone]

\* The processes of a setting: two of one worker, or two of which one is alone.
Other == CHOOSE q \in Executor : q # Alone
Takes(p) == IF setting = "shared" THEN p # Alone ELSE p \in {Alone, Other}

SettingInit == Init /\ setting \in {"skewed", "prompt", "shared"}

\* Whoever reads a clock reads the reference clock.
ClocksAgree ==
  /\ \A p \in Executor :
       /\ pc'[p] # pc[p] /\ pc'[p] \in {"claim", "complete"} => reading'[p] = clock
       /\ heartbeat'[p] # heartbeat[p] /\ heartbeat'[p] = "renew" => beat'[p] = clock
  /\ \A r \in Request : cancelReading'[r] # cancelReading[r] => cancelReading'[r] \in {0, clock}

\* Two cancelers beside replicas that share an id, elsewhere one.
OnlyCanceler(r) == \A q \in Request \ {r} : cancelPc[q] = "idle" /\ cancelReply[q] = "none"

SettingNext ==
  /\ \/ setting = "prompt" /\ Tick /\ \A p \in Executor : ~Due(p)
     \/ setting = "skewed" /\ clock < MaxSkewedClock /\ Tick
     \/ setting = "shared" /\ clock < MaxSharedClock /\ Tick
     \/ \E p \in {q \in Executor : Takes(q)} : Step(p)
     \/ \E r \in {q \in Request : setting = "shared" \/ OnlyCanceler(q)} : CancelStep(r)
  /\ setting # "skewed" => ClocksAgree
  /\ UNCHANGED setting

SettingSpec == SettingInit /\ [][SettingNext]_<<vars, setting>>

\* With agreeing clocks and prompt heartbeats at most one process runs the
\* agent of an active run.  rca_execution_coordinator.py:265-284.
PromptSoleAgent == setting = "prompt" => SoleAgent

\* Workers with ids of their own: only the execution of the current attempt
\* extends the lease; one that was taken over is told at its next heartbeat.
\* workflow_run_repository.py:193-245.
DistinctRenewedByCurrentAttempt ==
  [][\A p \in Executor :
       setting # "shared" /\ heartbeat[p] = "renew" /\ heartbeat'[p] = "wait"
         => attempt[p] = run.attempts]_<<vars, setting>>
=============================================================================
