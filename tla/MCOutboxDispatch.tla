------------------------- MODULE MCOutboxDispatch --------------------------
(* Instances of OutboxDispatch for TLC, in three settings: workers with    *)
(* ids of their own that stall as they like, the same that keep to their   *)
(* timeouts, and workers that share one id, as the deployment configures   *)
(* them.                                                                   *)
EXTENDS OutboxDispatch, TLC

\* Each process with a worker_id of its own.
DistinctIds == [p \in Dispatcher |-> p]

\* Every replica configured with the same worker_id.
SharedId == [p \in Dispatcher |-> CHOOSE w \in WorkerName : TRUE]

EventSymmetry == Permutations(Event)

VARIABLE setting

Shared == INSTANCE OutboxDispatch WITH WorkerId <- SharedId

SettingInit == Init /\ setting \in {"distinct", "prompt", "shared"}

SettingNext ==
  /\ \/ setting = "distinct" /\ Next
     \/ setting = "prompt" /\ PromptNext
     \/ setting = "shared" /\ Shared!Next
  /\ UNCHANGED setting

SettingSpec == SettingInit /\ [][SettingNext]_<<vars, setting>>

\* Workers with ids of their own whose transactions do not fail every time.
FairInit == Init /\ setting = "distinct"
FairSettingSpec == FairInit /\ [][SettingNext]_<<vars, setting>> /\ Fairness

\* Of processes that keep to their timeouts, no two have the same row to
\* publish: the batch fits into the lease.  outbox_dispatcher.py:28-44.
PromptNeverOverlaps == setting = "prompt" => NoOverlap

\* Workers with ids of their own settle a row only under the claim they hold,
\* and queue no row whose attempts are used up; with a shared id neither
\* holds.  outbox_dispatch_store.py:203-225, 156-172.
DistinctSettleOwnClaim ==
  [][setting # "shared" => SettledUnderOwnClaim]_<<vars, setting>>
DistinctWaitingIsClaimable == setting # "shared" => WaitingIsClaimable
=============================================================================
