------------------------ MODULE WorkflowLeaseProofs ------------------------
(***************************************************************************)
(* Theorems about WorkflowLease, for every set of processes and requests,  *)
(* every assignment of worker ids (distinct or shared), every lease and    *)
(* heartbeat duration, and every clock skew.                               *)
(***************************************************************************)
EXTENDS MCWorkflowLease, TLAPS

----------------------------------------------------------------------------
(* What each write leaves in the row.                                      *)

\* Clock readings are positive, however skewed.
LEMMA ReadingsArePositive ==
  ASSUME clock \in Nat, NEW t \in Readings  PROVE t \in Nat \ {0}
  BY TimingAssumption DEF Readings

\* A run was created at a positive time.
LEMMA CreatedAtPositive == CreatedAt \in Nat \ {0}
  BY TimingAssumption DEF CreatedAt

\* A claim writes a row the constraints accept.
LEMMA ClaimedRow ==
  ASSUME run \in Row, NEW p \in Executor, NEW now \in Nat
  PROVE  /\ Claimed(p, now) \in Row
         /\ Claimed(p, now).status = "RUNNING"
         /\ Claimed(p, now).leaseOwner \in WorkerName
         /\ Claimed(p, now).leaseExpiresAt = now + LeaseDuration
         /\ Claimed(p, now).heartbeatAt = now
         /\ Claimed(p, now).updatedAt = now
         /\ run.status # "PENDING" => Claimed(p, now).startedAt = run.startedAt
         /\ Claimed(p, now).endedAt = run.endedAt
         /\ Claimed(p, now).attempts = run.attempts + 1
         /\ Claimed(p, now).version = run.version + 1
         /\ Claimed(p, now).canceledBy = run.canceledBy
<1>1. /\ run.attempts + 1 \in Nat
      /\ run.version + 1 \in Nat
      /\ now + LeaseDuration \in Nat
  BY TimingAssumption DEF Row
<1>2. WorkerId[p] \in WorkerName
  BY IdentityAssumption
<1> QED BY <1>1, <1>2 DEF Row, Claimed, Active

\* A renewal writes a row the constraints accept.
LEMMA RenewedRow ==
  ASSUME run \in Row, NEW now \in Nat
  PROVE  /\ Renewed(now) \in Row
         /\ Renewed(now).status = run.status
         /\ Renewed(now).leaseOwner = run.leaseOwner
         /\ Renewed(now).leaseExpiresAt = now + LeaseDuration
         /\ Renewed(now).heartbeatAt = now
         /\ Renewed(now).updatedAt = now
         /\ Renewed(now).startedAt = run.startedAt
         /\ Renewed(now).endedAt = run.endedAt
         /\ Renewed(now).attempts = run.attempts
         /\ Renewed(now).version = run.version + 1
         /\ Renewed(now).canceledBy = run.canceledBy
<1>1. run.version + 1 \in Nat /\ now + LeaseDuration \in Nat
  BY TimingAssumption DEF Row
<1> QED BY <1>1 DEF Row, Renewed

\* A completion writes a row the constraints accept.
LEMMA EndedRow ==
  ASSUME run \in Row, NEW now \in Nat, NEW status \in Terminal
  PROVE  /\ Ended(status, now) \in Row
         /\ Ended(status, now).status = status
         /\ Ended(status, now).leaseOwner = NoWorker
         /\ Ended(status, now).leaseExpiresAt = NoTime
         /\ Ended(status, now).heartbeatAt = NoTime
         /\ Ended(status, now).updatedAt = now
         /\ Ended(status, now).startedAt = run.startedAt
         /\ Ended(status, now).endedAt = now
         /\ Ended(status, now).attempts = run.attempts
         /\ Ended(status, now).version = run.version + 1
         /\ Ended(status, now).canceledBy = run.canceledBy
<1>1. run.version + 1 \in Nat
  BY DEF Row
<1> QED BY <1>1 DEF Row, Ended, NoTime

\* A cancellation writes a row the constraints accept.
LEMMA CanceledRow ==
  ASSUME run \in Row, NEW now \in Nat, NEW r \in Request
  PROVE  /\ Canceled(r, now) \in Row
         /\ Canceled(r, now).status = "CANCELED"
         /\ Canceled(r, now).leaseOwner = NoWorker
         /\ Canceled(r, now).leaseExpiresAt = NoTime
         /\ Canceled(r, now).heartbeatAt = NoTime
         /\ Canceled(r, now).updatedAt = now
         /\ Canceled(r, now).startedAt = run.startedAt
         /\ Canceled(r, now).endedAt = now
         /\ Canceled(r, now).attempts = run.attempts
         /\ Canceled(r, now).version = run.version + 1
         /\ Canceled(r, now).canceledBy = r
<1> DEFINE e == Ended("CANCELED", now)
<1>1. "CANCELED" \in Terminal
  BY DEF Terminal
<1>2. e \in Row
  BY <1>1, EndedRow
<1>3. /\ e.status = "CANCELED" /\ e.leaseOwner = NoWorker
      /\ e.leaseExpiresAt = NoTime /\ e.heartbeatAt = NoTime
      /\ e.updatedAt = now /\ e.startedAt = run.startedAt
      /\ e.endedAt = now /\ e.attempts = run.attempts
      /\ e.version = run.version + 1
  BY <1>1, EndedRow
<1> HIDE DEF e
<1>4. Canceled(r, now) = [e EXCEPT !.canceledBy = r]
  BY DEF Canceled, e
<1> QED BY <1>2, <1>3, <1>4 DEF Row

----------------------------------------------------------------------------
(* The type invariant.                                                     *)

\* Row, side tables, processes and requests keep their types.
THEOREM TypeCorrect == Spec => []TypeOK
<1>1. Init => TypeOK
  BY CreatedAtPositive
     DEF Init, TypeOK, Row, Active, NoTime, PCs, Replies
<1>2. TypeOK /\ [Next]_vars => TypeOK'
  <2> SUFFICES ASSUME TypeOK, [Next]_vars PROVE TypeOK'
    OBVIOUS
  <2> USE DEF TypeOK, PCs, Replies, NoTime
  <2>1. ASSUME NEW p \in Executor, Step(p) PROVE TypeOK'
    <3>1. CASE Deliver(p)
      BY <3>1, ReadingsArePositive DEF Deliver, rowVars, cancelVars
    <3>2. CASE ClaimCommits(p)
      <4>1. run' \in Row
        BY <3>2, ClaimedRow DEF ClaimCommits
      <4>2. run'.attempts \in Nat
        BY <4>1 DEF Row
      <4> QED BY <3>2, <4>1, <4>2 DEF ClaimCommits, Release, cancelVars
    <3>3. CASE ClaimRefused(p)
      BY <3>3 DEF ClaimRefused, rowVars, cancelVars
    <3>4. CASE TransactionFails(p)
      BY <3>4 DEF TransactionFails, Release, rowVars, cancelVars
    <3>5. CASE Reread(p)
      BY <3>5 DEF Reread, RereadAnswer, Release, rowVars, cancelVars
    <3>6. CASE AgentEnds(p)
      BY <3>6 DEF AgentEnds, AgentOutcomes, rowVars, cancelVars
    <3>7. CASE LeaseLost(p)
      BY <3>7 DEF LeaseLost, Release, rowVars, cancelVars
    <3>8. CASE BeginComplete(p)
      BY <3>8, ReadingsArePositive DEF BeginComplete, rowVars, cancelVars
    <3>9. CASE CompleteCommits(p)
      <4>1. outcome[p] \in Terminal
        BY <3>9 DEF CompleteCommits, CompletionStatuses, Terminal
      <4>2. run' \in Row
        BY <3>9, <4>1, EndedRow DEF CompleteCommits
      <4>3. report' \in Nat /\ evidence' \in SUBSET Nat
        BY <3>9 DEF CompleteCommits
      <4> QED BY <3>9, <4>2, <4>3 DEF CompleteCommits, Release, cancelVars
    <3>10. CASE CompleteRefused(p)
      BY <3>10 DEF CompleteRefused, rowVars, cancelVars
    <3>11. CASE BeginRenew(p)
      BY <3>11, ReadingsArePositive DEF BeginRenew, rowVars, cancelVars
    <3>12. CASE RenewCommits(p)
      <4>1. run' \in Row
        BY <3>12, RenewedRow DEF RenewCommits
      <4> QED BY <3>12, <4>1 DEF RenewCommits, cancelVars
    <3>13. CASE RenewFails(p)
      BY <3>13 DEF RenewFails, rowVars, cancelVars
    <3>14. CASE Crash(p)
      BY <3>14 DEF Crash, Release, rowVars, cancelVars
    <3> QED BY <2>1, <3>1, <3>2, <3>3, <3>4, <3>5, <3>6, <3>7, <3>8, <3>9,
                <3>10, <3>11, <3>12, <3>13, <3>14 DEF Step
  <2>2. ASSUME NEW r \in Request, CancelStep(r) PROVE TypeOK'
    <3>1. CASE CancelLoads(r)
      BY <3>1, ReadingsArePositive
         DEF CancelLoads, AnswerCancel, rowVars, workerVars
    <3>2. CASE CancelSaves(r)
      BY <3>2, CanceledRow
         DEF CancelSaves, CancelEnds, AnswerCancel, workerVars
    <3>3. CASE CancelFails(r)
      BY <3>3 DEF CancelFails, CancelEnds, rowVars, workerVars
    <3> QED BY <2>2, <3>1, <3>2, <3>3 DEF CancelStep
  <2>3. CASE Tick
    BY <2>3 DEF Tick, rowVars, workerVars, cancelVars
  <2>4. CASE UNCHANGED vars
    BY <2>4 DEF vars, rowVars, workerVars, cancelVars
  <2> QED BY <2>1, <2>2, <2>3, <2>4 DEF Next
<1> QED BY <1>1, <1>2, PTL DEF Spec

----------------------------------------------------------------------------
(* The inductive invariant.                                                *)

\* The row is storable, and the timestamps the conditional updates compare
\* are the ones the monotonicity of updated_at rests on.
RowInv ==
  /\ Storable(run)
  /\ run.status = "PENDING" => run.updatedAt = CreatedAt
  /\ run.status = "RUNNING" => run.heartbeatAt = run.updatedAt

\* Attempts are handed out once; an answer is given only when the delivery
\* is over; what is completed is the end of an agent.
ExecInv ==
  /\ \A p \in Executor : Working(p) => attempt[p] <= run.attempts
  /\ AttemptsAreUnique
  /\ \A p \in Executor : pc[p] # "idle" => reply[p] = "none"
  /\ \A p \in Executor : pc[p] \in {"join", "complete"} => outcome[p] # "none"

\* A request that loaded the current version has checked the current row.
LoadedInv ==
  \A r \in Request : cancelPc[r] = "loaded" =>
    /\ cancelVersion[r] <= run.version
    /\ cancelVersion[r] = run.version =>
         run.status \in Active /\ run.updatedAt <= cancelReading[r]

OutcomeInv ==
  /\ AckOnlyWhenEnded
  /\ CompletionIsMine
  /\ ArtifactsOfFinalAttempt
  /\ CancellationAudited

IInv == RowInv /\ ExecInv /\ LoadedInv /\ OutcomeInv

----------------------------------------------------------------------------
(* The four writes of the row, and everything else.                        *)

RowWrite ==
  \/ \E p \in Executor : ClaimCommits(p) \/ RenewCommits(p)
                           \/ CompleteCommits(p)
  \/ \E r \in Request : CancelSaves(r) /\ VersionUnchanged(r)

\* The four conditional updates are the only writes of the row.
LEMMA OnlyWritesChangeTheRow ==
  ASSUME [Next]_vars, ~RowWrite  PROVE UNCHANGED rowVars
<1>1. ASSUME NEW p \in Executor, Step(p) PROVE UNCHANGED rowVars
  BY <1>1 DEF RowWrite, Step, Deliver, ClaimRefused, TransactionFails, Reread,
     AgentEnds, LeaseLost, BeginComplete, CompleteRefused, BeginRenew,
     RenewFails, Crash
<1>2. ASSUME NEW r \in Request, CancelStep(r) PROVE UNCHANGED rowVars
  BY <1>2 DEF RowWrite, CancelStep, CancelLoads, CancelSaves, CancelFails,
     rowVars
<1> QED BY <1>1, <1>2 DEF Next, Tick, vars

\* Each write of the row starts from an active run, moves the version, never
\* the update time backwards, and leaves a storable row.
LEMMA WritesMoveTheRow ==
  ASSUME TypeOK, RowInv, LoadedInv, RowWrite
  PROVE  /\ run.status \in Active
         /\ run'.version = run.version + 1
         /\ run.updatedAt <= run'.updatedAt
         /\ RowInv'
<1> USE DEF TypeOK
<1>0. run \in Row
  OBVIOUS
<1>1. ASSUME NEW p \in Executor, ClaimCommits(p)
      PROVE  /\ run.status \in Active
             /\ run'.version = run.version + 1
             /\ run.updatedAt <= run'.updatedAt
             /\ RowInv'
  <2> DEFINE now == reading[p]
  <2>1. now \in Nat
    OBVIOUS
  <2>2. run' = Claimed(p, now) /\ Claimable(now) /\ Storable(run')
    BY <1>1 DEF ClaimCommits
  <2> HIDE DEF now
  <2>3. /\ run'.status = "RUNNING" /\ run'.version = run.version + 1
        /\ run'.updatedAt = now /\ run'.heartbeatAt = now
    BY <1>0, <2>1, <2>2, ClaimedRow
  <2>4. run.status \in Active
    BY <2>2 DEF Claimable, Active
  <2>5. CASE run.status = "PENDING"
    BY <2>1, <2>2, <2>3, <2>4, <2>5 DEF RowInv, Storable, ValidTimeline
  <2>6. CASE run.status = "RUNNING"
    <3>1. run.updatedAt < run.leaseExpiresAt /\ run.leaseExpiresAt <= now
      BY <2>2, <2>6 DEF RowInv, Storable, ValidLease, Claimable
    <3> QED BY <1>0, <2>1, <2>2, <2>3, <2>4, <3>1 DEF RowInv, Row
  <2> QED BY <2>4, <2>5, <2>6 DEF Active
<1>2. ASSUME NEW p \in Executor, RenewCommits(p)
      PROVE  /\ run.status \in Active
             /\ run'.version = run.version + 1
             /\ run.updatedAt <= run'.updatedAt
             /\ RowInv'
  <2> DEFINE now == beat[p]
  <2>1. now \in Nat
    OBVIOUS
  <2>2. run' = Renewed(now) /\ Renewable(p, now) /\ Storable(run')
    BY <1>2 DEF RenewCommits
  <2> HIDE DEF now
  <2>3. /\ run'.status = run.status /\ run'.version = run.version + 1
        /\ run'.updatedAt = now /\ run'.heartbeatAt = now
    BY <1>0, <2>1, <2>2, RenewedRow
  <2> QED BY <2>1, <2>2, <2>3 DEF RowInv, Renewable, Active
<1>3. ASSUME NEW p \in Executor, CompleteCommits(p)
      PROVE  /\ run.status \in Active
             /\ run'.version = run.version + 1
             /\ run.updatedAt <= run'.updatedAt
             /\ RowInv'
  <2> DEFINE now == reading[p]
             st == outcome[p]
  <2>1. now \in Nat /\ st \in Terminal
    BY <1>3 DEF CompleteCommits, CompletionStatuses, Terminal
  <2>2. run' = Ended(st, now) /\ Completable(p, now) /\ Storable(run')
    BY <1>3 DEF CompleteCommits
  <2> HIDE DEF now, st
  <2>3. /\ run'.status = st /\ run'.version = run.version + 1
        /\ run'.updatedAt = now
    BY <1>0, <2>1, <2>2, EndedRow
  <2> QED BY <2>1, <2>2, <2>3 DEF RowInv, Completable, Active, Terminal
<1>4. ASSUME NEW r \in Request, CancelSaves(r), VersionUnchanged(r)
      PROVE  /\ run.status \in Active
             /\ run'.version = run.version + 1
             /\ run.updatedAt <= run'.updatedAt
             /\ RowInv'
  <2> DEFINE now == cancelReading[r]
  <2>1. now \in Nat
    OBVIOUS
  <2>2. run' = Canceled(r, now) /\ Storable(run')
    BY <1>4 DEF CancelSaves
  <2>3. run.status \in Active /\ run.updatedAt <= now
    BY <1>4 DEF CancelSaves, VersionUnchanged, LoadedInv
  <2> HIDE DEF now
  <2>4. /\ run'.status = "CANCELED" /\ run'.version = run.version + 1
        /\ run'.updatedAt = now
    BY <1>0, <2>1, <2>2, CanceledRow
  <2> QED BY <2>1, <2>2, <2>3, <2>4 DEF RowInv
<1> QED BY <1>1, <1>2, <1>3, <1>4 DEF RowWrite

\* What each write does to the outcome others see.
ClaimEffect ==
  /\ run.status \in Active
  /\ run'.status = "RUNNING"
  /\ run'.attempts = run.attempts + 1
  /\ UNCHANGED <<report, evidence, audit>>

RenewEffect ==
  /\ run'.status = run.status
  /\ run'.attempts = run.attempts
  /\ UNCHANGED <<report, evidence, audit>>

CompleteEffect ==
  /\ run.status = "RUNNING"
  /\ run'.status \in CompletionStatuses
  /\ run'.attempts = run.attempts
  /\ evidence' = evidence \cup {run.attempts}
  /\ report' = IF run'.status = "SUCCEEDED" THEN run.attempts ELSE report
  /\ UNCHANGED audit

CancelEffect ==
  /\ run'.status = "CANCELED"
  /\ run'.attempts = run.attempts
  /\ audit' = audit + 1
  /\ UNCHANGED <<report, evidence>>

\* What each of these writes does to the row.
LEMMA RowWriteEffects ==
  ASSUME TypeOK, RowWrite
  PROVE  ClaimEffect \/ RenewEffect \/ CompleteEffect \/ CancelEffect
<1> USE DEF TypeOK
<1>0. run \in Row
  OBVIOUS
<1>1. ASSUME NEW p \in Executor, ClaimCommits(p) PROVE ClaimEffect
  <2>1. run' = Claimed(p, reading[p]) /\ run.status \in Active
    BY <1>1 DEF ClaimCommits, Claimable, Active
  <2>2. run'.status = "RUNNING" /\ run'.attempts = run.attempts + 1
    BY <1>0, <2>1, ClaimedRow
  <2> QED BY <1>1, <2>1, <2>2 DEF ClaimCommits, ClaimEffect
<1>2. ASSUME NEW p \in Executor, RenewCommits(p) PROVE RenewEffect
  BY <1>0, <1>2, RenewedRow DEF RenewCommits, RenewEffect
<1>3. ASSUME NEW p \in Executor, CompleteCommits(p) PROVE CompleteEffect
  <2>1. outcome[p] \in Terminal /\ outcome[p] \in CompletionStatuses
    BY <1>3 DEF CompleteCommits, CompletionStatuses, Terminal
  <2>2. run'.status = outcome[p] /\ run'.attempts = run.attempts
    BY <1>0, <1>3, <2>1, EndedRow DEF CompleteCommits
  <2>3. run.status = "RUNNING" /\ run.attempts = attempt[p]
    BY <1>3 DEF CompleteCommits, Completable
  <2> QED BY <1>3, <2>1, <2>2, <2>3 DEF CompleteCommits, CompleteEffect
<1>4. ASSUME NEW r \in Request, CancelSaves(r), VersionUnchanged(r)
      PROVE  CancelEffect
  <2>1. run' = Canceled(r, cancelReading[r]) /\ audit' = audit + 1
    BY <1>4 DEF CancelSaves
  <2>2. run'.status = "CANCELED" /\ run'.attempts = run.attempts
    BY <1>0, <2>1, CanceledRow
  <2> QED BY <1>4, <2>1, <2>2 DEF CancelSaves, CancelEffect
<1> QED BY <1>1, <1>2, <1>3, <1>4 DEF RowWrite

\* No write matches a row that has ended.
LEMMA EndedRowIsFixed ==
  ASSUME TypeOK, RowInv, LoadedInv, [Next]_vars, run.status \in Terminal
  PROVE  UNCHANGED rowVars
  BY OnlyWritesChangeTheRow, WritesMoveTheRow DEF Terminal, Active

----------------------------------------------------------------------------
(* Each part of the invariant is preserved.                                *)

\* A claim adds one attempt; no other step changes their number.
LEMMA AttemptsGrow ==
  ASSUME TypeOK, [Next]_vars
  PROVE  /\ run.attempts \in Nat
         /\ run'.attempts \in {run.attempts, run.attempts + 1}
         /\ \A p \in Executor : ClaimCommits(p) =>
              run'.attempts = run.attempts + 1
<1>1. run \in Row /\ run.attempts \in Nat
  BY DEF TypeOK, Row
<1>2. ASSUME NEW p \in Executor, ClaimCommits(p)
      PROVE  run'.attempts = run.attempts + 1
  BY <1>1, <1>2, ClaimedRow DEF ClaimCommits, TypeOK
<1>3. CASE ~RowWrite
  BY <1>1, <1>2, <1>3, OnlyWritesChangeTheRow DEF rowVars
<1>4. CASE RowWrite
  BY <1>1, <1>2, <1>4, RowWriteEffects
     DEF ClaimEffect, RenewEffect, CompleteEffect, CancelEffect
<1> QED BY <1>1, <1>2, <1>3, <1>4

\* A process that lets go of its delivery disturbs nobody else's attempt.
LEMMA ReleaseKeepsExecInv ==
  ASSUME TypeOK, ExecInv, NEW p \in Executor, NEW answer, Release(p, answer),
         run.attempts \in Nat, run'.attempts \in Nat,
         run.attempts <= run'.attempts
  PROVE  ExecInv'
<1>1. pc'[p] = "idle"
  BY DEF TypeOK, Release
<1>2. \A q \in Executor : q # p =>
        /\ pc'[q] = pc[q] /\ attempt'[q] = attempt[q]
        /\ outcome'[q] = outcome[q] /\ reply'[q] = reply[q]
  BY DEF TypeOK, Release
<1>3. ~Working(p)'
  BY <1>1 DEF Working
<1>4. \A q \in Executor : Working(q)' => q # p /\ Working(q)
  BY <1>2, <1>3 DEF Working
<1>5. \A q \in Executor : Working(q)' => attempt'[q] <= run'.attempts
  BY <1>2, <1>4 DEF ExecInv, TypeOK
<1>6. AttemptsAreUnique'
  BY <1>2, <1>4 DEF ExecInv, AttemptsAreUnique
<1>7. \A q \in Executor : pc'[q] # "idle" => reply'[q] = "none"
  BY <1>1, <1>2 DEF ExecInv
<1>8. \A q \in Executor :
        pc'[q] \in {"join", "complete"} => outcome'[q] # "none"
  BY <1>1, <1>2 DEF ExecInv
<1> QED BY <1>5, <1>6, <1>7, <1>8 DEF ExecInv

\* Every step keeps what executions know of their attempts.
LEMMA ExecInvStep ==
  ASSUME TypeOK, ExecInv, [Next]_vars  PROVE ExecInv'
<1> USE DEF TypeOK
<1>0. /\ run.attempts \in Nat /\ run'.attempts \in Nat
      /\ run.attempts <= run'.attempts
  BY AttemptsGrow
<1>1. ASSUME NEW p \in Executor, Step(p) PROVE ExecInv'
  <2>1. CASE ClaimCommits(p)
    <3>1. run'.attempts = run.attempts + 1
      BY <2>1, AttemptsGrow
    <3>2. CASE pc'[p] = "agent"
      <4>1. /\ pc' = [pc EXCEPT ![p] = "agent"]
            /\ attempt' = [attempt EXCEPT ![p] = run'.attempts]
            /\ UNCHANGED reply
        BY <2>1, <3>2 DEF ClaimCommits, Release
      <4>2. \A q \in Executor : q # p =>
              /\ Working(q)' <=> Working(q)
              /\ attempt'[q] = attempt[q]
        BY <4>1 DEF Working
      <4>3. attempt'[p] = run'.attempts
        BY <3>1, <4>1
      <4>4. reply[p] = "none"
        BY <2>1 DEF ExecInv, ClaimCommits
      <4>5. AttemptsAreUnique'
        BY <1>0, <3>1, <4>2, <4>3 DEF ExecInv, AttemptsAreUnique
      <4>6. UNCHANGED outcome
        BY <2>1, <3>2 DEF ClaimCommits, Release
      <4> QED BY <1>0, <3>1, <4>1, <4>2, <4>3, <4>4, <4>5, <4>6 DEF ExecInv
    <3>3. CASE pc'[p] # "agent"
      <4>1. Release(p, "retry")
        BY <2>1, <3>3 DEF ClaimCommits
      <4> QED BY <1>0, <4>1, ReleaseKeepsExecInv
    <3> QED BY <3>2, <3>3
  <2>2. CASE Deliver(p)
    BY <1>0, <2>2 DEF Deliver, ExecInv, AttemptsAreUnique, Working
  <2>3. CASE \/ ClaimRefused(p) \/ CompleteRefused(p) \/ BeginRenew(p)
             \/ RenewFails(p) \/ RenewCommits(p)
    BY <1>0, <2>3 DEF ClaimRefused, CompleteRefused, BeginRenew, RenewFails,
       RenewCommits, ExecInv, AttemptsAreUnique, Working
  <2>5. CASE AgentEnds(p)
    BY <1>0, <2>5 DEF AgentEnds, AgentOutcomes, ExecInv, AttemptsAreUnique,
       Working
  <2>6. CASE BeginComplete(p)
    BY <1>0, <2>6 DEF BeginComplete, ExecInv, AttemptsAreUnique, Working
  <2>4. CASE \/ TransactionFails(p) \/ Reread(p) \/ LeaseLost(p)
             \/ CompleteCommits(p) \/ Crash(p)
    <3>1. PICK answer : Release(p, answer)
      BY <2>4 DEF TransactionFails, Reread, LeaseLost, CompleteCommits, Crash
    <3> QED BY <1>0, <3>1, ReleaseKeepsExecInv
  <2> QED BY <1>1, <2>1, <2>2, <2>3, <2>4, <2>5, <2>6 DEF Step
<1>2. CASE UNCHANGED workerVars
  BY <1>0, <1>2 DEF workerVars, ExecInv, AttemptsAreUnique, Working
<1>3. ASSUME NEW r \in Request, CancelStep(r) PROVE UNCHANGED workerVars
  BY <1>3 DEF CancelStep, CancelLoads, CancelSaves, CancelFails
<1> QED BY <1>1, <1>2, <1>3 DEF Next, Tick, vars

\* Every step keeps what cancellation requests know of the row they loaded.
LEMMA LoadedInvStep ==
  ASSUME TypeOK, RowInv, LoadedInv, [Next]_vars  PROVE LoadedInv'
<1> USE DEF TypeOK
<1>0. run.version \in Nat /\ run.updatedAt \in Nat
  BY DEF Row
<1>1. ASSUME NEW r \in Request, cancelPc'[r] = "loaded"
      PROVE  \/ /\ cancelPc[r] = "loaded"
                /\ cancelVersion'[r] = cancelVersion[r]
                /\ cancelReading'[r] = cancelReading[r]
             \/ /\ cancelVersion'[r] = run.version
                /\ run.status \in Active
                /\ run.updatedAt <= cancelReading'[r]
                /\ UNCHANGED run
  <2>1. ASSUME NEW q \in Request, CancelStep(q)
        PROVE  \/ /\ cancelPc[r] = "loaded"
                  /\ cancelVersion'[r] = cancelVersion[r]
                  /\ cancelReading'[r] = cancelReading[r]
               \/ /\ cancelVersion'[r] = run.version
                  /\ run.status \in Active
                  /\ run.updatedAt <= cancelReading'[r]
                  /\ UNCHANGED run
    <3>1. CASE CancelLoads(q)
      BY <1>0, <1>1, <3>1, ReadingsArePositive DEF CancelLoads, rowVars
    <3>2. CASE CancelSaves(q) \/ CancelFails(q)
      BY <1>1, <3>2 DEF CancelSaves, CancelFails, CancelEnds
    <3> QED BY <2>1, <3>1, <3>2 DEF CancelStep
  <2>2. CASE UNCHANGED cancelVars
    BY <1>1, <2>2 DEF cancelVars
  <2>3. ASSUME NEW p \in Executor, Step(p) PROVE UNCHANGED cancelVars
    BY <2>3 DEF Step, Deliver, ClaimCommits, ClaimRefused, TransactionFails,
       Reread, AgentEnds, LeaseLost, BeginComplete, CompleteCommits,
       CompleteRefused, BeginRenew, RenewCommits, RenewFails, Crash
  <2> QED BY <2>1, <2>2, <2>3 DEF Next, Tick, vars
<1>2. CASE RowWrite
  BY <1>0, <1>1, <1>2, WritesMoveTheRow DEF LoadedInv
<1>3. CASE UNCHANGED run
  BY <1>0, <1>1, <1>3 DEF LoadedInv
<1> QED BY <1>2, <1>3, OnlyWritesChangeTheRow DEF rowVars

\* Every step keeps the row storable.
LEMMA RowInvStep ==
  ASSUME TypeOK, RowInv, LoadedInv, [Next]_vars  PROVE RowInv'
<1>1. CASE RowWrite
  BY <1>1, WritesMoveTheRow
<1>2. CASE ~RowWrite
  BY <1>2, OnlyWritesChangeTheRow
     DEF rowVars, RowInv, Storable, ValidTimeline, ValidStatusTimeline,
         ValidLease, ValidCancellation
<1> QED BY <1>1, <1>2

\* An answer a process shows after a step it either showed before, or is
\* justified by the row after the step.
LEMMA AnswersAreJustified ==
  ASSUME TypeOK, ExecInv, [Next]_vars,
         NEW p \in Executor, reply'[p] \in {"ignored", "completed"}
  PROVE  \/ /\ reply'[p] = reply[p]
            /\ attempt'[p] = attempt[p]
            /\ outcome'[p] = outcome[p]
         \/ /\ reply'[p] = "ignored"
            /\ run'.status \in Terminal
         \/ /\ reply'[p] = "completed"
            /\ run'.status \in Terminal
            /\ run'.status = outcome'[p]
            /\ run'.attempts = attempt'[p]
<1> USE DEF TypeOK
<1> DEFINE Kept == /\ reply'[p] = reply[p]
                   /\ attempt'[p] = attempt[p]
                   /\ outcome'[p] = outcome[p]
           Ignored == reply'[p] = "ignored" /\ run'.status \in Terminal
           Completed == /\ reply'[p] = "completed"
                        /\ run'.status \in Terminal
                        /\ run'.status = outcome'[p]
                        /\ run'.attempts = attempt'[p]
<1>1. ASSUME NEW q \in Executor, Step(q), q # p PROVE Kept
  BY <1>1 DEF Step, Deliver, ClaimCommits, ClaimRefused, TransactionFails,
     Reread, AgentEnds, LeaseLost, BeginComplete, CompleteCommits,
     CompleteRefused, BeginRenew, RenewCommits, RenewFails, Crash, Release
<1>2. ASSUME Step(p) PROVE Kept \/ Ignored \/ Completed
  <2>1. CASE Reread(p)
    <3>1. /\ reply'[p] = RereadAnswer(p) /\ UNCHANGED run
          /\ reply'[p] = "completed" =>
               attempt'[p] = attempt[p] /\ outcome'[p] = outcome[p]
      BY <2>1 DEF Reread, Release, rowVars
    <3>2. outcome[p] \in {"none", "SUCCEEDED", "FAILED"}
      OBVIOUS
    <3> QED BY <3>1, <3>2 DEF RereadAnswer, Terminal
  <2>2. CASE CompleteCommits(p)
    <3>1. outcome[p] \in Terminal /\ run \in Row /\ reading[p] \in Nat
      BY <2>2 DEF CompleteCommits, CompletionStatuses, Terminal
    <3>2. run'.status = outcome[p] /\ run'.attempts = run.attempts
      BY <2>2, <3>1, EndedRow DEF CompleteCommits
    <3>3. run.attempts = attempt[p]
      BY <2>2 DEF CompleteCommits, Completable
    <3>4. reply'[p] = "completed" =>
            attempt'[p] = attempt[p] /\ outcome'[p] = outcome[p]
      BY <2>2 DEF CompleteCommits, Release
    <3>5. reply'[p] # "ignored"
      BY <2>2 DEF CompleteCommits, Release
    <3> QED BY <3>1, <3>2, <3>3, <3>4, <3>5
  <2>3. CASE \/ TransactionFails(p) \/ LeaseLost(p) \/ Crash(p)
             \/ Deliver(p)
    BY <2>3 DEF TransactionFails, LeaseLost, Crash, Deliver, Release
  <2>4. CASE ClaimCommits(p)
    <3>1. reply[p] = "none"
      BY <2>4 DEF ExecInv, ClaimCommits
    <3> QED BY <2>4, <3>1 DEF ClaimCommits, Release
  <2>5. CASE AgentEnds(p)
    <3>1. reply'[p] = "none"
      BY <2>5 DEF ExecInv, AgentEnds
    <3> QED BY <3>1
  <2>6. CASE \/ ClaimRefused(p) \/ BeginComplete(p) \/ CompleteRefused(p)
             \/ BeginRenew(p) \/ RenewCommits(p) \/ RenewFails(p)
    BY <2>6 DEF ClaimRefused, BeginComplete, CompleteRefused, BeginRenew,
       RenewCommits, RenewFails
  <2> QED BY <1>2, <2>1, <2>2, <2>3, <2>4, <2>5, <2>6 DEF Step
<1>3. CASE UNCHANGED workerVars
  BY <1>3 DEF workerVars
<1>4. ASSUME NEW r \in Request, CancelStep(r) PROVE UNCHANGED workerVars
  BY <1>4 DEF CancelStep, CancelLoads, CancelSaves, CancelFails
<1> QED BY <1>1, <1>2, <1>3, <1>4 DEF Next, Tick, vars

\* Every step keeps the answers that were given true.
LEMMA AnswersStep ==
  ASSUME TypeOK, RowInv, ExecInv, LoadedInv, OutcomeInv, [Next]_vars
  PROVE  AckOnlyWhenEnded' /\ CompletionIsMine'
<1> SUFFICES ASSUME NEW p \in Executor,
                    reply'[p] \in {"ignored", "completed"}
             PROVE  /\ run'.status \in Terminal
                    /\ reply'[p] = "completed" =>
                         /\ run'.status = outcome'[p]
                         /\ run'.attempts = attempt'[p]
  BY DEF AckOnlyWhenEnded, CompletionIsMine
<1>1. CASE /\ reply'[p] = reply[p]
           /\ attempt'[p] = attempt[p]
           /\ outcome'[p] = outcome[p]
  <2>1. /\ run.status \in Terminal
        /\ reply[p] = "completed" => /\ run.status = outcome[p]
                                     /\ run.attempts = attempt[p]
    BY <1>1 DEF OutcomeInv, AckOnlyWhenEnded, CompletionIsMine
  <2>2. UNCHANGED run
    BY <2>1, EndedRowIsFixed DEF rowVars
  <2> QED BY <1>1, <2>1, <2>2
<1> QED BY <1>1, AnswersAreJustified

\* Every step keeps report and evidence those of the final attempt.
LEMMA ArtifactsStep ==
  ASSUME TypeOK, RowInv, LoadedInv, OutcomeInv, [Next]_vars
  PROVE  ArtifactsOfFinalAttempt'
<1>1. CASE ~RowWrite
  BY <1>1, OnlyWritesChangeTheRow
     DEF rowVars, OutcomeInv, ArtifactsOfFinalAttempt
<1>2. CASE RowWrite
  <2>1. run.status \in Active /\ report = 0 /\ evidence = {}
    BY <1>2, WritesMoveTheRow
       DEF OutcomeInv, ArtifactsOfFinalAttempt, Active
  <2> QED BY <1>2, <2>1, RowWriteEffects
          DEF ClaimEffect, RenewEffect, CompleteEffect, CancelEffect,
              ArtifactsOfFinalAttempt, Active, CompletionStatuses
<1> QED BY <1>1, <1>2

\* Every step keeps audit and answers of cancellations in accord.
LEMMA CancellationStep ==
  ASSUME TypeOK, RowInv, LoadedInv, OutcomeInv, [Next]_vars
  PROVE  CancellationAudited'
<1> USE DEF TypeOK
<1>1. audit' = IF run'.status = "CANCELED" THEN 1 ELSE 0
  <2>1. CASE ~RowWrite
    BY <2>1, OnlyWritesChangeTheRow
       DEF rowVars, OutcomeInv, CancellationAudited
  <2>2. CASE RowWrite
    <3>1. run.status \in Active /\ audit = 0
      BY <2>2, WritesMoveTheRow DEF OutcomeInv, CancellationAudited, Active
    <3> QED BY <2>2, <3>1, RowWriteEffects
            DEF ClaimEffect, RenewEffect, CompleteEffect, CancelEffect,
                Active, CompletionStatuses
  <2> QED BY <2>1, <2>2
<1>2. ASSUME NEW r \in Request, cancelReply'[r] \in {"canceled", "duplicate"}
      PROVE  run'.canceledBy = r
  <2>1. CASE cancelReply'[r] = cancelReply[r]
    <3>1. run.canceledBy = r
      BY <1>2, <2>1 DEF OutcomeInv, CancellationAudited
    <3>2. run.status \in Terminal
      BY <3>1, IdentityAssumption
         DEF RowInv, Storable, ValidCancellation, Terminal
    <3> QED BY <3>1, <3>2, EndedRowIsFixed DEF rowVars
  <2>2. ASSUME NEW q \in Request, CancelStep(q),
               cancelReply'[r] # cancelReply[r]
        PROVE  run'.canceledBy = r
    <3>1. q = r
      BY <2>2 DEF CancelStep, CancelLoads, CancelSaves, CancelFails,
         AnswerCancel
    <3>2. CASE CancelLoads(r)
      BY <1>2, <3>2 DEF CancelLoads, AnswerCancel, rowVars
    <3>3. CASE CancelSaves(r)
      <4>1. CASE VersionUnchanged(r)
        BY <3>3, <4>1, CanceledRow DEF CancelSaves
      <4>2. CASE ~VersionUnchanged(r)
        BY <1>2, <3>3, <4>2 DEF CancelSaves, AnswerCancel
      <4> QED BY <4>1, <4>2
    <3>4. CASE CancelFails(r)
      BY <2>2, <3>4 DEF CancelFails
    <3> QED BY <2>2, <3>1, <3>2, <3>3, <3>4 DEF CancelStep
  <2>3. ASSUME NEW p \in Executor, Step(p) PROVE UNCHANGED cancelReply
    BY <2>3 DEF Step, Deliver, ClaimCommits, ClaimRefused, TransactionFails,
       Reread, AgentEnds, LeaseLost, BeginComplete, CompleteCommits,
       CompleteRefused, BeginRenew, RenewCommits, RenewFails, Crash,
       cancelVars
  <2> QED BY <2>1, <2>2, <2>3 DEF Next, Tick, vars, cancelVars
<1> QED BY <1>1, <1>2 DEF CancellationAudited

----------------------------------------------------------------------------
(* The theorems.                                                           *)

\* The strengthened invariant holds in every reachable state: the row is
\* storable and its heartbeat is its update time while it runs, attempts are
\* handed out once, a loaded cancellation has checked the current version,
\* and every answer, artifact and audit event agrees with the row.
THEOREM Invariance == Spec => [](TypeOK /\ IInv)
<1>1. Init => IInv
  <2> SUFFICES ASSUME Init PROVE IInv
    OBVIOUS
  <2> USE DEF Init
  <2>1. RowInv
    BY CreatedAtPositive
       DEF RowInv, Storable, ValidTimeline, ValidStatusTimeline, ValidLease,
           ValidCancellation, NoTime, Active
  <2>2. ExecInv
    BY DEF ExecInv, AttemptsAreUnique, Working
  <2>3. LoadedInv
    BY DEF LoadedInv
  <2>4. OutcomeInv
    BY DEF OutcomeInv, AckOnlyWhenEnded, CompletionIsMine,
       ArtifactsOfFinalAttempt, CancellationAudited
  <2> QED BY <2>1, <2>2, <2>3, <2>4 DEF IInv
<1>2. TypeOK /\ IInv /\ [Next]_vars => IInv'
  BY RowInvStep, ExecInvStep, LoadedInvStep, AnswersStep, ArtifactsStep,
     CancellationStep DEF IInv, OutcomeInv
<1> QED BY <1>1, <1>2, TypeCorrect, PTL DEF Spec

\* A message is acknowledged only when its run has ended, for any number of
\* processes, deliveries, crashes, lost answers and cancellations.
THEOREM AcknowledgedRunsHaveEnded == Spec => []AckOnlyWhenEnded
<1>1. IInv => AckOnlyWhenEnded
  BY DEF IInv, OutcomeInv
<1> QED BY <1>1, Invariance, PTL

\* Whoever was told it completed the run did: status and attempt of the row
\* are its own, even when replicas share one worker_id.
THEOREM CompletionsAreOwn == Spec => []CompletionIsMine
<1>1. IInv => CompletionIsMine
  BY DEF IInv, OutcomeInv
<1> QED BY <1>1, Invariance, PTL

\* Report and evidence belong to the attempt that ended the run.
THEOREM ArtifactsAreFinal == Spec => []ArtifactsOfFinalAttempt
<1>1. IInv => ArtifactsOfFinalAttempt
  BY DEF IInv, OutcomeInv
<1> QED BY <1>1, Invariance, PTL

\* Two processes at work on the run never hold the same attempt.
THEOREM AttemptsIdentifyExecutions == Spec => []AttemptsAreUnique
<1>1. IInv => AttemptsAreUnique
  BY DEF IInv, ExecInv
<1> QED BY <1>1, Invariance, PTL

\* A canceled run has exactly one audit event, and only the request that
\* canceled it is answered so.
THEOREM CancellationIsAudited == Spec => []CancellationAudited
<1>1. IInv => CancellationAudited
  BY DEF IInv, OutcomeInv
<1> QED BY <1>1, Invariance, PTL

\* The conditional updates never offer the table a row it refuses, however
\* stale or skewed the clock readings they compare are.
THEOREM ConditionsSuffice == Spec => []ConditionsImplyConstraints
<1>1. TypeOK /\ IInv => ConditionsImplyConstraints
  <2> SUFFICES ASSUME TypeOK, IInv PROVE ConditionsImplyConstraints
    OBVIOUS
  <2> USE DEF Storable, ValidTimeline, ValidStatusTimeline, ValidLease,
              ValidCancellation, NoTime
  <2>1. run \in Row /\ CreatedAt \in Nat \ {0} /\ RowInv
    BY CreatedAtPositive DEF TypeOK, IInv
  <2>2. /\ run.startedAt \in Nat /\ run.heartbeatAt \in Nat
        /\ run.updatedAt \in Nat /\ run.attempts \in Nat
    BY <2>1 DEF Row
  <2>3. ASSUME NEW p \in Executor, heartbeat[p] = "renew",
               Renewable(p, beat[p])
        PROVE  Storable(Renewed(beat[p]))
    <3> DEFINE now == beat[p]
               new == Renewed(now)
    <3>1. /\ now \in Nat /\ run.status = "RUNNING" /\ run.heartbeatAt <= now
      BY <2>3 DEF Renewable, TypeOK
    <3>2. /\ new.status = run.status /\ new.leaseOwner = run.leaseOwner
          /\ new.leaseExpiresAt = now + LeaseDuration
          /\ new.heartbeatAt = now /\ new.updatedAt = now
          /\ new.startedAt = run.startedAt /\ new.endedAt = run.endedAt
          /\ new.attempts = run.attempts /\ new.canceledBy = run.canceledBy
      BY <2>1, <3>1, RenewedRow
    <3> HIDE DEF now, new
    <3>3. Storable(new)
      BY <2>1, <2>2, <3>1, <3>2, TimingAssumption DEF RowInv
    <3> QED BY <3>3 DEF now, new
  <2>4. ASSUME NEW p \in Executor, pc[p] = "complete",
               Completable(p, reading[p])
        PROVE  Storable(Ended(outcome[p], reading[p]))
    <3> DEFINE now == reading[p]
               st == outcome[p]
               new == Ended(st, now)
    <3>1. /\ now \in Nat /\ run.status = "RUNNING" /\ run.heartbeatAt <= now
          /\ st \in {"SUCCEEDED", "FAILED"}
      BY <2>4 DEF Completable, TypeOK, IInv, ExecInv
    <3>2. /\ new.status = st /\ new.leaseOwner = NoWorker
          /\ new.leaseExpiresAt = NoTime
          /\ new.heartbeatAt = NoTime /\ new.updatedAt = now
          /\ new.startedAt = run.startedAt /\ new.endedAt = now
          /\ new.canceledBy = run.canceledBy
      BY <2>1, <3>1, EndedRow DEF Terminal
    <3> HIDE DEF now, st, new
    <3>3. Storable(new)
      BY <2>1, <2>2, <3>1, <3>2 DEF RowInv, Active
    <3> QED BY <3>3 DEF now, st, new
  <2>5. ASSUME NEW r \in Request, cancelPc[r] = "loaded",
               cancelVersion[r] = run.version
        PROVE  Storable(Canceled(r, cancelReading[r]))
    <3> DEFINE now == cancelReading[r]
               new == Canceled(r, now)
    <3>1. now \in Nat /\ run.status \in Active /\ run.updatedAt <= now
      BY <2>5 DEF TypeOK, IInv, LoadedInv
    <3>2. /\ new.status = "CANCELED" /\ new.leaseOwner = NoWorker
          /\ new.leaseExpiresAt = NoTime
          /\ new.heartbeatAt = NoTime /\ new.updatedAt = now
          /\ new.startedAt = run.startedAt /\ new.endedAt = now
          /\ new.canceledBy = r
      BY <2>1, <3>1, CanceledRow
    <3> HIDE DEF now, new
    <3>3. Storable(new)
      BY <2>1, <2>2, <3>1, <3>2 DEF RowInv, Active
    <3> QED BY <3>3 DEF now, new
  <2> QED BY <2>3, <2>4, <2>5 DEF ConditionsImplyConstraints
<1> QED BY <1>1, Invariance, PTL

\* Nothing is written after the end of the run.
THEOREM EndedRunsStayEnded == Spec => EndIsFinal
<1>1. TypeOK /\ IInv /\ [Next]_vars
        => [run.status \in Terminal => UNCHANGED rowVars]_vars
  BY EndedRowIsFixed DEF IInv
<1> QED BY <1>1, Invariance, PTL DEF Spec, EndIsFinal

\* updated_at only grows, whatever the clocks of the writers.
THEOREM UpdateTimeGrows == Spec => UpdatedAtMonotone
<1>1. TypeOK /\ IInv /\ [Next]_vars => [run'.updatedAt >= run.updatedAt]_vars
  <2> SUFFICES ASSUME TypeOK, IInv, [Next]_vars
               PROVE  run'.updatedAt >= run.updatedAt
    OBVIOUS
  <2>1. run.updatedAt \in Nat
    BY DEF TypeOK, Row
  <2>2. CASE RowWrite
    <3>1. RowInv' /\ run.updatedAt <= run'.updatedAt
      BY <2>2, WritesMoveTheRow DEF IInv
    <3> QED BY <2>1, <3>1
  <2>3. CASE ~RowWrite
    BY <2>1, <2>3, OnlyWritesChangeTheRow DEF rowVars
  <2> QED BY <2>2, <2>3
<1> QED BY <1>1, Invariance, PTL DEF Spec, UpdatedAtMonotone

\* Every step of processes, heartbeats, clocks and cancellations is a step of
\* RunOutcome on the row, or leaves the outcome as it is.
THEOREM LeaseImplementsOutcome == Spec => ImplementsRunOutcome
<1>1. Init => Outcome!Init
  BY DEF Init, Outcome!Init
<1>2. TypeOK /\ IInv /\ [Next]_vars => [Outcome!Next]_(Outcome!vars)
  <2> SUFFICES ASSUME TypeOK, IInv, [Next]_vars
               PROVE  Outcome!Next \/ UNCHANGED Outcome!vars
    OBVIOUS
  <2> USE DEF Outcome!vars, Outcome!Next
  <2>1. CASE ~RowWrite
    BY <2>1, OnlyWritesChangeTheRow DEF rowVars
  <2>2. CASE RowWrite
    <3>1. run.status \in {"PENDING", "RUNNING"}
      BY <2>2, WritesMoveTheRow DEF IInv, Active
    <3>2. CASE ClaimEffect
      BY <3>1, <3>2 DEF ClaimEffect, Outcome!Attempt
    <3>3. CASE RenewEffect
      BY <3>3 DEF RenewEffect
    <3>4. CASE CompleteEffect
      BY <3>4 DEF CompleteEffect, CompletionStatuses, Outcome!Succeed,
         Outcome!Fail
    <3>5. CASE CancelEffect
      BY <3>1, <3>5 DEF CancelEffect, Outcome!Cancel
    <3> QED BY <2>2, <3>2, <3>3, <3>4, <3>5, RowWriteEffects
  <2> QED BY <2>1, <2>2
<1> QED BY <1>1, <1>2, Invariance, PTL
       DEF Spec, ImplementsRunOutcome, Outcome!Spec
----------------------------------------------------------------------------
(* Exclusive execution under prompt heartbeats and agreeing clocks.        *)

\* A process whose agent works and whose heartbeat task has not given up.
Executing(p) == pc[p] = "agent" /\ heartbeat[p] # "lost"

\* While the run is running, an executing process holds its latest attempt, and the lease
\* does not expire before its next renewal is due.
LeaseHeld(p) ==
  Executing(p) =>
    /\ run.status # "PENDING" /\ heartbeat[p] \in {"wait", "renew"}
    /\ run.status = "RUNNING" =>
         /\ attempt[p] = run.attempts
         /\ heartbeat[p] = "wait" => /\ beat[p] <= clock /\ clock <= beat[p] + HeartbeatInterval
                                     /\ beat[p] + LeaseDuration <= run.leaseExpiresAt
         /\ heartbeat[p] = "renew" => clock < run.leaseExpiresAt

\* No time passes between a reading of the clock and the statement that compares it.
ReadsNow(p) ==
  /\ pc[p] = "claim" => reading[p] = clock
  /\ heartbeat[p] = "renew" => beat[p] = clock

PromptInv == \A p \in Executor : LeaseHeld(p) /\ ReadsNow(p)

\* Who takes a claim or sends a heartbeat reads the clock of everybody else.
ReadingsAgree ==
  \A p \in Executor :
    /\ pc[p] = "idle" /\ pc'[p] = "claim" => reading'[p] = clock
    /\ heartbeat[p] = "wait" /\ heartbeat'[p] = "renew" => beat'[p] = clock

\* The lease of an executing process has not expired, so nobody can take the run over.
LEMMA NotClaimable ==
  ASSUME TypeOK, PromptInv, HeartbeatInterval < LeaseDuration, NEW q \in Executor, Executing(q)
  PROVE  ~Claimable(clock)
<1>1. /\ clock \in Nat /\ beat[q] \in Nat /\ run.leaseExpiresAt \in Nat
      /\ HeartbeatInterval \in Nat /\ LeaseDuration \in Nat
  BY TimingAssumption DEF TypeOK, Row
<1> QED BY <1>1 DEF PromptInv, LeaseHeld, Claimable

\* A process that goes on as it was, when the row keeps its attempt and a lease as long.
LEMMA GoesOn ==
  ASSUME TypeOK, PromptInv, NEW q \in Executor, clock' = clock,
         pc'[q] = pc[q], heartbeat'[q] = heartbeat[q], beat'[q] = beat[q],
         attempt'[q] = attempt[q], reading'[q] = reading[q],
         Executing(q) => \/ run' = run
                         \/ run'.status \in Terminal
                         \/ /\ run.status = "RUNNING" /\ run'.status = "RUNNING"
                            /\ run'.attempts = run.attempts
                            /\ run'.leaseExpiresAt = clock + LeaseDuration
  PROVE  (LeaseHeld(q) /\ ReadsNow(q))'
<1>1. /\ clock \in Nat /\ beat[q] \in Nat /\ run.leaseExpiresAt \in Nat
      /\ HeartbeatInterval \in Nat /\ LeaseDuration \in Nat \ {0}
  BY TimingAssumption DEF TypeOK, Row
<1>2. LeaseHeld(q) /\ ReadsNow(q)
  BY DEF PromptInv
<1>3. ReadsNow(q)'
  BY <1>2 DEF ReadsNow
<1>4. LeaseHeld(q)'
  BY <1>1, <1>2 DEF LeaseHeld, Executing, Terminal
<1> QED BY <1>3, <1>4

LEMMA PromptStep ==
  ASSUME ReadingsAgree, HeartbeatInterval < LeaseDuration, TypeOK, IInv, PromptInv,
         [PromptNext]_vars
  PROVE  PromptInv'
<1>0. /\ clock \in Nat /\ run \in Row /\ HeartbeatInterval \in Nat
      /\ LeaseDuration \in Nat \ {0}
      /\ \A p \in Executor : reading[p] \in Nat /\ beat[p] \in Nat /\ attempt[p] \in Nat
  BY TimingAssumption DEF TypeOK
<1>1. ASSUME Tick, \A p \in Executor : ~Due(p) PROVE PromptInv'
  <2>1. /\ clock' = clock + 1 /\ run' = run /\ pc' = pc /\ heartbeat' = heartbeat
        /\ beat' = beat /\ attempt' = attempt /\ reading' = reading
    BY <1>1 DEF Tick, rowVars, workerVars
  <2> SUFFICES ASSUME NEW p \in Executor PROVE (LeaseHeld(p) /\ ReadsNow(p))'
    BY DEF PromptInv
  <2>2. LeaseHeld(p) /\ ReadsNow(p) /\ ~Due(p)
    BY <1>1 DEF PromptInv
  <2> QED BY <1>0, <2>1, <2>2 DEF LeaseHeld, ReadsNow, Executing, Due
<1>2. ASSUME NEW p \in Executor, Step(p) PROVE PromptInv'
  <2>1. clock' = clock
    BY <1>2 DEF Step, Deliver, ClaimCommits, ClaimRefused, TransactionFails, Reread, AgentEnds,
       LeaseLost, BeginComplete, CompleteCommits, CompleteRefused, BeginRenew, RenewCommits,
       RenewFails, Crash
  <2>2. \A q \in Executor \ {p} :
          /\ pc'[q] = pc[q] /\ heartbeat'[q] = heartbeat[q] /\ beat'[q] = beat[q]
          /\ attempt'[q] = attempt[q] /\ reading'[q] = reading[q]
    BY <1>2 DEF TypeOK, Step, Release, Deliver, ClaimCommits, ClaimRefused, TransactionFails,
       Reread, AgentEnds, LeaseLost, BeginComplete, CompleteCommits, CompleteRefused,
       BeginRenew, RenewCommits, RenewFails, Crash
  <2>3. LeaseHeld(p) /\ ReadsNow(p)
    BY DEF PromptInv
  <2>4. CASE ClaimCommits(p)
    <3>1. reading[p] = clock /\ Claimable(clock) /\ run' = Claimed(p, clock)
      BY <2>3, <2>4 DEF ClaimCommits, ReadsNow
    <3>2. \A q \in Executor : ~Executing(q)
      BY <3>1, NotClaimable
    <3>3. \A q \in Executor \ {p} : (LeaseHeld(q) /\ ReadsNow(q))'
      BY <2>1, <2>2, <3>2, GoesOn
    <3>4. /\ run'.status = "RUNNING" /\ run'.leaseExpiresAt = clock + LeaseDuration
      BY <1>0, <3>1, ClaimedRow
    <3>5. CASE Release(p, "retry")
      <4>1. pc'[p] = "idle" /\ heartbeat'[p] = "off"
        BY <3>5 DEF Release, TypeOK
      <4> QED BY <3>3, <4>1 DEF PromptInv, LeaseHeld, ReadsNow, Executing
    <3>6. CASE /\ pc' = [pc EXCEPT ![p] = "agent"]
               /\ attempt' = [attempt EXCEPT ![p] = run'.attempts]
               /\ heartbeat' = [heartbeat EXCEPT ![p] = "wait"]
               /\ beat' = [beat EXCEPT ![p] = clock]
      <4>1. /\ pc'[p] = "agent" /\ attempt'[p] = run'.attempts /\ heartbeat'[p] = "wait"
            /\ beat'[p] = clock
        BY <3>6 DEF TypeOK
      <4>2. (LeaseHeld(p) /\ ReadsNow(p))'
        BY <1>0, <2>1, <3>4, <4>1 DEF LeaseHeld, ReadsNow, Executing
      <4> QED BY <3>3, <4>2 DEF PromptInv
    <3> QED BY <2>4, <3>5, <3>6 DEF ClaimCommits
  <2>5. CASE RenewCommits(p)
    <3>1. /\ beat[p] = clock /\ run' = Renewed(clock) /\ run.status = "RUNNING"
          /\ pc' = pc /\ attempt' = attempt /\ reading' = reading
      BY <2>3, <2>5 DEF RenewCommits, ReadsNow, Renewable
    <3>2. /\ run'.status = "RUNNING" /\ run'.leaseExpiresAt = clock + LeaseDuration
          /\ run'.attempts = run.attempts
      BY <1>0, <3>1, RenewedRow
    <3>3. \A q \in Executor \ {p} : (LeaseHeld(q) /\ ReadsNow(q))'
      BY <2>1, <2>2, <3>1, <3>2, GoesOn
    <3>4. \/ heartbeat'[p] = "wait" /\ beat'[p] = clock
          \/ heartbeat'[p] = "lost"
      BY <2>5 DEF RenewCommits, TypeOK
    <3>5. heartbeat[p] = "renew"
      BY <2>5 DEF RenewCommits
    <3>6. (LeaseHeld(p) /\ ReadsNow(p))'
      BY <1>0, <2>1, <2>3, <3>1, <3>2, <3>4, <3>5 DEF LeaseHeld, ReadsNow, Executing
    <3> QED BY <3>3, <3>6 DEF PromptInv
  <2>6. CASE CompleteCommits(p)
    <3>1. outcome[p] \in Terminal /\ run' = Ended(outcome[p], reading[p])
      BY <2>6 DEF CompleteCommits, CompletionStatuses, Terminal
    <3>2. run'.status \in Terminal
      BY <1>0, <3>1, EndedRow
    <3>3. \A q \in Executor \ {p} : (LeaseHeld(q) /\ ReadsNow(q))'
      BY <2>1, <2>2, <3>2, GoesOn
    <3>4. pc'[p] = "idle" /\ heartbeat'[p] = "off"
      BY <2>6 DEF CompleteCommits, Release, TypeOK
    <3> QED BY <3>3, <3>4 DEF PromptInv, LeaseHeld, ReadsNow, Executing
  <2>7. CASE ~ClaimCommits(p) /\ ~RenewCommits(p) /\ ~CompleteCommits(p)
    <3>1. run' = run
      BY <1>2, <2>7 DEF Step, Deliver, ClaimRefused, TransactionFails, Reread, AgentEnds,
         LeaseLost, BeginComplete, CompleteRefused, BeginRenew, RenewFails, Crash, rowVars
    <3>2. \A q \in Executor \ {p} : (LeaseHeld(q) /\ ReadsNow(q))'
      BY <2>1, <2>2, <3>1, GoesOn
    <3>3. (LeaseHeld(p) /\ ReadsNow(p))'
      <4>1. CASE Deliver(p)
        <5>1. /\ pc'[p] = "claim" /\ reading'[p] = clock
              /\ heartbeat'[p] = heartbeat[p] /\ beat'[p] = beat[p]
          BY <4>1 DEF Deliver, TypeOK, ReadingsAgree
        <5> QED BY <2>1, <2>3, <5>1 DEF LeaseHeld, ReadsNow, Executing
      <4>2. CASE \E answer : Release(p, answer)
        <5>1. pc'[p] = "idle" /\ heartbeat'[p] = "off"
          BY <4>2 DEF Release, TypeOK
        <5> QED BY <5>1 DEF LeaseHeld, ReadsNow, Executing
      <4>3. CASE ClaimRefused(p) \/ CompleteRefused(p) \/ AgentEnds(p)
        <5>1. /\ pc'[p] \in {"reread", "join"} /\ heartbeat'[p] = heartbeat[p]
              /\ beat'[p] = beat[p]
          BY <4>3 DEF ClaimRefused, CompleteRefused, AgentEnds, TypeOK
        <5> QED BY <2>1, <2>3, <5>1 DEF LeaseHeld, ReadsNow, Executing
      <4>4. CASE BeginComplete(p)
        <5>1. pc'[p] = "complete" /\ heartbeat'[p] = "off"
          BY <4>4 DEF BeginComplete, TypeOK
        <5> QED BY <5>1 DEF LeaseHeld, ReadsNow, Executing
      <4>5. CASE BeginRenew(p)
        <5>1. /\ pc[p] = "agent" /\ pc' = pc /\ attempt' = attempt /\ heartbeat[p] = "wait"
              /\ heartbeat'[p] = "renew" /\ beat'[p] = clock
          BY <4>5 DEF BeginRenew, TypeOK, ReadingsAgree
        <5>2. run.status = "RUNNING" => clock < run.leaseExpiresAt
          BY <1>0, <2>3, <5>1 DEF LeaseHeld, Executing, Row
        <5> QED BY <2>1, <2>3, <3>1, <5>1, <5>2 DEF LeaseHeld, ReadsNow, Executing
      <4>6. CASE RenewFails(p)
        <5>1. heartbeat'[p] = "lost" /\ pc' = pc /\ reading' = reading
          BY <4>6 DEF RenewFails, TypeOK
        <5> QED BY <2>1, <2>3, <5>1 DEF LeaseHeld, ReadsNow, Executing
      <4>7. CASE TransactionFails(p) \/ Reread(p) \/ LeaseLost(p) \/ Crash(p)
        <5>1. \E answer : Release(p, answer)
          BY <4>7 DEF TransactionFails, Reread, LeaseLost, Crash
        <5> QED BY <4>2, <5>1
      <4> QED BY <1>2, <2>7, <4>1, <4>3, <4>4, <4>5, <4>6, <4>7 DEF Step
    <3> QED BY <3>2, <3>3 DEF PromptInv
  <2> QED BY <2>4, <2>5, <2>6, <2>7
<1>3. ASSUME NEW r \in Request, CancelStep(r) PROVE PromptInv'
  <2>1. clock' = clock /\ UNCHANGED workerVars
    BY <1>3 DEF CancelStep, CancelLoads, CancelSaves, CancelFails
  <2>2. run' = run \/ run'.status \in Terminal
    <3>1. CASE run' = Canceled(r, cancelReading[r])
      <4>1. cancelReading[r] \in Nat
        BY DEF TypeOK
      <4> QED BY <1>0, <3>1, <4>1, CanceledRow DEF Terminal
    <3> QED BY <1>3, <3>1 DEF CancelStep, CancelLoads, CancelSaves, CancelFails, rowVars
  <2> QED BY <2>1, <2>2, GoesOn DEF PromptInv, workerVars
<1>4. ASSUME UNCHANGED vars PROVE PromptInv'
  BY <1>4, GoesOn DEF PromptInv, vars, rowVars, workerVars
<1> QED BY <1>1, <1>2, <1>3, <1>4 DEF PromptNext

LEMMA PromptMeansSole == TypeOK /\ IInv /\ PromptInv => SoleAgent
<1> SUFFICES ASSUME TypeOK, IInv, PromptInv, NEW p \in Executor, NEW q \in Executor, p # q,
                    Executing(p), Executing(q), run.status \notin Terminal
             PROVE  FALSE
  BY DEF SoleAgent, Executing
<1>1. run.status = "RUNNING"
  BY DEF TypeOK, Row, Active, PromptInv, LeaseHeld
<1>2. attempt[p] = attempt[q]
  BY <1>1 DEF PromptInv, LeaseHeld
<1> QED BY <1>2 DEF IInv, ExecInv, AttemptsAreUnique, Working, Executing

\* Every step of an instance is a step of the specification, and in the prompt setting one
\* of processes that keep their heartbeats.
LEMMA SettingsAreSteps ==
  ASSUME [SettingNext]_<<vars, setting>>
  PROVE  /\ [Next]_vars /\ setting' = setting
         /\ setting = "prompt" => [PromptNext]_vars
<1>1. CASE UNCHANGED <<vars, setting>>
  BY <1>1
<1>2. CASE SettingNext
  BY <1>2 DEF SettingNext, Next, PromptNext
<1> QED BY <1>1, <1>2

LEMMA SettingsKeepTheInvariant == SettingSpec => [](TypeOK /\ IInv)
<1>1. SettingSpec => Spec
  <2>1. [SettingNext]_<<vars, setting>> => [Next]_vars
    BY SettingsAreSteps
  <2> QED BY <2>1, PTL DEF SettingSpec, SettingInit, Spec
<1> QED BY <1>1, Invariance, PTL

\* Where clocks agree, heartbeats are sent when they are due and the lease outlasts their
\* interval, as the settings demand, an active run has one agent at most, whatever crashes,
\* takeovers and shared worker ids there are.  rca_execution_coordinator.py:265-284,
\* settings.py:749-757.
THEOREM PromptSoleExecution ==
  ASSUME HeartbeatInterval < LeaseDuration
  PROVE  SettingSpec => []PromptSoleAgent
<1> DEFINE Prompt == setting = "prompt" => PromptInv
<1>1. SettingInit => Prompt
  BY DEF SettingInit, Init, PromptInv, LeaseHeld, ReadsNow, Executing
<1>2. TypeOK /\ IInv /\ Prompt /\ [SettingNext]_<<vars, setting>> => Prompt'
  <2> SUFFICES ASSUME TypeOK, IInv, Prompt, [SettingNext]_<<vars, setting>>, setting = "prompt"
               PROVE  PromptInv'
    BY SettingsAreSteps
  <2>1. [PromptNext]_vars
    BY SettingsAreSteps
  <2>2. ReadingsAgree
    BY DEF SettingNext, ClocksAgree, ReadingsAgree, vars, workerVars
  <2> QED BY <2>1, <2>2, PromptStep
<1>3. TypeOK /\ IInv /\ Prompt => PromptSoleAgent
  BY PromptMeansSole DEF PromptSoleAgent
<1> QED BY <1>1, <1>2, <1>3, SettingsKeepTheInvariant, PTL DEF SettingSpec

\* With worker ids of its own, the owner on the row is the process whose attempt it is.
OwnerIsCurrent ==
  \A p \in Executor :
    Working(p) /\ run.status = "RUNNING" /\ run.leaseOwner = WorkerId[p] =>
      attempt[p] = run.attempts

LEMMA OwnerStep ==
  ASSUME \A p, q \in Executor : ClaimCommits(p) /\ Working(q) /\ WorkerId[p] = WorkerId[q] => p = q,
         TypeOK, IInv, OwnerIsCurrent, [Next]_vars
  PROVE  OwnerIsCurrent'
<1>0. run \in Row
  BY DEF TypeOK
<1>1. ASSUME ~RowWrite PROVE OwnerIsCurrent'
  <2>1. run' = run
    BY <1>1, OnlyWritesChangeTheRow DEF rowVars
  <2>2. ASSUME NEW q \in Executor, Working(q)' PROVE Working(q) /\ attempt'[q] = attempt[q]
    <3>1. CASE UNCHANGED workerVars
      BY <2>2, <3>1 DEF workerVars, Working
    <3>2. ASSUME NEW p \in Executor, Step(p), ~ClaimCommits(p)
          PROVE  Working(q) /\ attempt'[q] = attempt[q]
      BY <2>2, <3>2 DEF TypeOK, Working, Step, Release, Deliver, ClaimRefused, TransactionFails,
         Reread, AgentEnds, LeaseLost, BeginComplete, CompleteCommits, CompleteRefused,
         BeginRenew, RenewCommits, RenewFails, Crash
    <3>3. ASSUME NEW r \in Request, CancelStep(r) PROVE UNCHANGED workerVars
      BY <3>3 DEF CancelStep, CancelLoads, CancelSaves, CancelFails
    <3> QED BY <1>1, <3>1, <3>2, <3>3 DEF RowWrite, Next, Tick, vars
  <2> QED BY <2>1, <2>2 DEF OwnerIsCurrent
<1>2. ASSUME NEW p \in Executor, ClaimCommits(p) PROVE OwnerIsCurrent'
  <2>1. run' = Claimed(p, reading[p]) /\ reading[p] \in Nat
    BY <1>2 DEF ClaimCommits, TypeOK
  <2>2. run'.leaseOwner = WorkerId[p]
    BY <1>0, <2>1 DEF Claimed, Row
  <2>3. \A q \in Executor : Working(q)' /\ q = p => attempt'[p] = run'.attempts
    BY <1>2 DEF ClaimCommits, Release, Working, TypeOK
  <2>4. \A q \in Executor : Working(q)' /\ q # p => Working(q)
    BY <1>2 DEF ClaimCommits, Release, Working, TypeOK
  <2> QED BY <1>2, <2>2, <2>3, <2>4 DEF OwnerIsCurrent
<1>3. ASSUME NEW p \in Executor, RenewCommits(p) PROVE OwnerIsCurrent'
  <2>1. run' = Renewed(beat[p]) /\ beat[p] \in Nat /\ pc' = pc /\ attempt' = attempt
    BY <1>3 DEF RenewCommits, TypeOK
  <2>2. /\ run'.leaseOwner = run.leaseOwner /\ run'.attempts = run.attempts
        /\ run'.status = run.status
    BY <1>0, <2>1, RenewedRow
  <2> QED BY <2>1, <2>2 DEF OwnerIsCurrent, Working
<1>4. ASSUME NEW p \in Executor, CompleteCommits(p) PROVE OwnerIsCurrent'
  <2>1. /\ run' = Ended(outcome[p], reading[p]) /\ outcome[p] \in Terminal
        /\ reading[p] \in Nat
    BY <1>4 DEF CompleteCommits, CompletionStatuses, Terminal, TypeOK
  <2> QED BY <1>0, <2>1, EndedRow DEF OwnerIsCurrent, Terminal
<1>5. ASSUME NEW r \in Request, CancelSaves(r), VersionUnchanged(r) PROVE OwnerIsCurrent'
  <2>1. run' = Canceled(r, cancelReading[r]) /\ cancelReading[r] \in Nat
    BY <1>5 DEF CancelSaves, TypeOK
  <2> QED BY <1>0, <2>1, CanceledRow DEF OwnerIsCurrent
<1> QED BY <1>1, <1>2, <1>3, <1>4, <1>5 DEF RowWrite

\* A heartbeat task runs beside an agent, or beside the wait for it to stop.
BesideAgent == \A p \in Executor : heartbeat[p] # "off" => pc[p] \in {"agent", "join"}

LEMMA BesideStep == ASSUME TypeOK, BesideAgent, [Next]_vars PROVE BesideAgent'
<1>1. ASSUME NEW p \in Executor, Step(p) PROVE BesideAgent'
  <2>1. ASSUME NEW q \in Executor \ {p} PROVE heartbeat'[q] = heartbeat[q] /\ pc'[q] = pc[q]
    BY <1>1 DEF TypeOK, Step, Release, Deliver, ClaimCommits, ClaimRefused, TransactionFails,
       Reread, AgentEnds, LeaseLost, BeginComplete, CompleteCommits, CompleteRefused,
       BeginRenew, RenewCommits, RenewFails, Crash
  <2>2. heartbeat'[p] # "off" => pc'[p] \in {"agent", "join"}
    BY <1>1 DEF BesideAgent, TypeOK, Step, Release, Deliver, ClaimCommits, ClaimRefused,
       TransactionFails, Reread, AgentEnds, LeaseLost, BeginComplete, CompleteCommits,
       CompleteRefused, BeginRenew, RenewCommits, RenewFails, Crash
  <2> QED BY <2>1, <2>2 DEF BesideAgent
<1>2. ASSUME UNCHANGED workerVars PROVE BesideAgent'
  BY <1>2 DEF BesideAgent, workerVars
<1>3. ASSUME NEW r \in Request, CancelStep(r) PROVE UNCHANGED workerVars
  BY <1>3 DEF CancelStep, CancelLoads, CancelSaves, CancelFails
<1> QED BY <1>1, <1>2, <1>3 DEF Next, Tick, vars

LEMMA RenewalsAreOwn ==
  ASSUME TypeOK, BesideAgent, OwnerIsCurrent, [Next]_vars, NEW p \in Executor,
         heartbeat[p] = "renew", heartbeat'[p] = "wait"
  PROVE  attempt[p] = run.attempts
<1>1. RenewCommits(p)
  <2>1. ASSUME NEW q \in Executor, Step(q) PROVE RenewCommits(p)
    <3>1. pc[p] \in {"agent", "join"}
      BY DEF BesideAgent
    <3>2. CASE q = p
      BY <2>1, <3>1, <3>2 DEF TypeOK, Step, Release, Deliver, ClaimCommits, ClaimRefused,
         TransactionFails, Reread, AgentEnds, LeaseLost, BeginComplete, CompleteCommits,
         CompleteRefused, BeginRenew, RenewFails, Crash
    <3>3. CASE q # p
      BY <2>1, <3>3 DEF TypeOK, Step, Release, Deliver, ClaimCommits, ClaimRefused,
         TransactionFails, Reread, AgentEnds, LeaseLost, BeginComplete, CompleteCommits,
         CompleteRefused, BeginRenew, RenewCommits, RenewFails, Crash
    <3> QED BY <3>2, <3>3
  <2>2. ASSUME UNCHANGED workerVars PROVE FALSE
    BY <2>2 DEF workerVars
  <2>3. ASSUME NEW r \in Request, CancelStep(r) PROVE UNCHANGED workerVars
    BY <2>3 DEF CancelStep, CancelLoads, CancelSaves, CancelFails
  <2> QED BY <2>1, <2>2, <2>3 DEF Next, Tick, vars
<1>2. Working(p)
  BY DEF BesideAgent, Working
<1> QED BY <1>1, <1>2 DEF RenewCommits, Renewable, OwnerIsCurrent

\* Processes with worker ids of their own: a renewal that succeeds is that of the execution
\* whose attempt the row names; one that was taken over is told so.
\* workflow_run_repository.py:193-245.
THEOREM OwnIdsRenewOwnAttempt ==
  ASSUME \A p, q \in Executor : WorkerId[p] = WorkerId[q] => p = q
  PROVE  Spec => RenewedByCurrentAttempt
<1>1. Init => OwnerIsCurrent /\ BesideAgent
  BY DEF Init, OwnerIsCurrent, BesideAgent
<1>2. TypeOK /\ IInv /\ OwnerIsCurrent /\ [Next]_vars => OwnerIsCurrent'
  BY OwnerStep
<1>3. TypeOK /\ BesideAgent /\ [Next]_vars => BesideAgent'
  BY BesideStep
<1>4. TypeOK /\ BesideAgent /\ OwnerIsCurrent /\ [Next]_vars =>
        [\A p \in Executor : heartbeat[p] = "renew" /\ heartbeat'[p] = "wait"
           => attempt[p] = run.attempts]_vars
  BY RenewalsAreOwn
<1> QED BY <1>1, <1>2, <1>3, <1>4, Invariance, PTL DEF Spec, RenewedByCurrentAttempt

\* The processes that take no part where ids are not shared stay idle, and those that take
\* part have an id of their own.
Bystanders ==
  \A p \in Executor \ {Alone, Other} : pc[p] = "idle" /\ heartbeat[p] = "off"

\* The same where replicas share an id but one, and only that one and one of the others run.
\* workflow_run_repository.py:193-245.
THEOREM DistinctRenewOwnAttempt ==
  ASSUME WorkerId = OneAlone, Alone \in Executor
  PROVE  SettingSpec => DistinctRenewedByCurrentAttempt
<1> DEFINE Kept == setting # "shared" => OwnerIsCurrent /\ BesideAgent /\ Bystanders
<1>1. SettingInit => Kept
  BY DEF SettingInit, Init, OwnerIsCurrent, BesideAgent, Bystanders
<1>2. TypeOK /\ IInv /\ Kept /\ [SettingNext]_<<vars, setting>> => Kept'
  <2> SUFFICES ASSUME TypeOK, IInv, Kept, [SettingNext]_<<vars, setting>>, setting # "shared"
               PROVE  (OwnerIsCurrent /\ BesideAgent /\ Bystanders)'
    BY SettingsAreSteps
  <2>1. [Next]_vars
    BY SettingsAreSteps
  <2>2. \A p \in Executor \ {Alone, Other} : ~ClaimCommits(p) /\ ~Working(p)
    BY DEF Bystanders, ClaimCommits, Working
  <2>3. \A p \in Executor \ {Alone} : WorkerId[p] = Other
    BY DEF OneAlone, Other
  <2>4. WorkerId[Alone] = Alone
    BY DEF OneAlone
  <2>5. ASSUME Other \in Executor PROVE Other # Alone \/ Executor \subseteq {Alone}
    BY DEF Other
  <2>6. OwnerIsCurrent'
    <3> SUFFICES ASSUME NEW p \in Executor, NEW q \in Executor, ClaimCommits(p), Working(q),
                        WorkerId[p] = WorkerId[q]
                 PROVE  p = q
      BY <2>1, OwnerStep
    <3> QED BY <2>2, <2>3, <2>4, <2>5
  <2>7. BesideAgent'
    BY <2>1, BesideStep
  <2>8. Bystanders'
    <3> SUFFICES ASSUME NEW p \in Executor \ {Alone, Other}
                 PROVE  pc'[p] = pc[p] /\ heartbeat'[p] = heartbeat[p]
      BY DEF Bystanders
    <3>1. ASSUME NEW q \in Executor, Takes(q), Step(q)
          PROVE  pc'[p] = pc[p] /\ heartbeat'[p] = heartbeat[p]
      <4>1. q # p
        BY <3>1 DEF Takes
      <4> QED BY <3>1, <4>1 DEF TypeOK, Step, Release, Deliver, ClaimCommits, ClaimRefused,
         TransactionFails, Reread, AgentEnds, LeaseLost, BeginComplete, CompleteCommits,
         CompleteRefused, BeginRenew, RenewCommits, RenewFails, Crash
    <3>2. CASE UNCHANGED workerVars
      BY <3>2 DEF workerVars
    <3>3. ASSUME NEW r \in Request, CancelStep(r) PROVE UNCHANGED workerVars
      BY <3>3 DEF CancelStep, CancelLoads, CancelSaves, CancelFails
    <3> QED BY <3>1, <3>2, <3>3 DEF SettingNext, Tick, vars
  <2> QED BY <2>6, <2>7, <2>8
<1>3. TypeOK /\ Kept /\ [SettingNext]_<<vars, setting>> =>
        [\A p \in Executor :
           setting # "shared" /\ heartbeat[p] = "renew" /\ heartbeat'[p] = "wait"
             => attempt[p] = run.attempts]_<<vars, setting>>
  BY SettingsAreSteps, RenewalsAreOwn
<1> QED BY <1>1, <1>2, <1>3, SettingsKeepTheInvariant, PTL
        DEF SettingSpec, DistinctRenewedByCurrentAttempt
=============================================================================
