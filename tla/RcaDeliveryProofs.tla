------------------------- MODULE RcaDeliveryProofs -------------------------
(***************************************************************************)
(* No record is passed over before it is done, for any number of           *)
(* consumers, runs, records and rebalances.  What is done stays done; so   *)
(* it is enough that a consumer who could commit a record has seen to it   *)
(* and that its position never runs ahead of what is done (Safe).          *)
(***************************************************************************)
EXTENDS RcaDelivery, TLAPS

----------------------------------------------------------------------------
(* What is done stays done.                                                *)

\* The log only grows at its end.
LEMMA LogGrows ==
  ASSUME TypeOK, [Next]_vars
  PROVE  /\ Len(log') \in Nat /\ Len(log) \in Nat /\ Len(log) <= Len(log')
         /\ \A i \in 1..Len(log) : log'[i] = log[i]
<1>1. CASE UNCHANGED log
  BY <1>1 DEF TypeOK
<1>2. CASE \E e \in Event : Publish(e)
  BY <1>2 DEF Publish, TypeOK
<1>3. UNCHANGED log \/ \E e \in Event : Publish(e)
  BY DEF Next, vars, Settle, Assign, Rebalance, Assigned, Leave, RunOnce, Poll,
     Skip, Reject, Claim, NotClaimed, Complete, LeaseLost, WorkFails,
     DeadLetter, DeadLetterFails, Commit, CommitFails, Expire, Cancel
<1> QED BY <1>1, <1>2, <1>3

\* A dead letter is never taken back, and only a consumer writes one.
LEMMA DeadLettersGrow ==
  ASSUME [Next]_vars  PROVE deadLetters \subseteq deadLetters'
BY DEF Next, vars, Publish, Settle, Assign, Rebalance, Assigned, Leave,
   RunOnce, Poll, Skip, Reject, Claim, NotClaimed, Complete, LeaseLost,
   WorkFails, DeadLetter, DeadLetterFails, Commit, CommitFails, Expire, Cancel

\* An ended run is neither claimed, completed nor canceled.
LEMMA EndedStaysEnded ==
  ASSUME TypeOK, [Next]_vars, NEW r \in Run, Ended(r)  PROVE Ended(r)'
<1>1. CASE UNCHANGED status
  BY <1>1 DEF Ended
<1>2. ASSUME NEW c \in Consumer, Claim(c) PROVE Ended(r)'
  <2>1. Record(c) # r
    BY <1>2 DEF Claim, Claimable, Ended
  <2> QED BY <1>2, <2>1 DEF Claim, TypeOK, Ended
<1>3. ASSUME NEW c \in Consumer, Complete(c) PROVE Ended(r)'
  <2>1. Record(c) # r
    BY <1>3 DEF Complete, Holds, Ended
  <2> QED BY <1>3, <2>1 DEF Complete, TypeOK, Ended
<1>4. ASSUME NEW s \in Run, Cancel(s) PROVE Ended(r)'
  BY <1>4 DEF Cancel, TypeOK, Ended
<1>5. \/ UNCHANGED status
      \/ \E c \in Consumer : Claim(c) \/ Complete(c)
      \/ \E s \in Run : Cancel(s)
  BY DEF Next, vars, runVars, Publish, Settle, Assign, Rebalance, Assigned,
     Leave, RunOnce, Poll, Skip, Reject, NotClaimed, LeaseLost, WorkFails,
     DeadLetter, DeadLetterFails, Commit, CommitFails, Expire
<1> QED BY <1>1, <1>2, <1>3, <1>4, <1>5

\* A record whose work is finished stays so, whatever a step does.
LEMMA DoneStays ==
  ASSUME TypeOK, [Next]_vars, NEW i \in 1..Len(log), Done(i)  PROVE Done(i)'
<1>1. log'[i] = log[i]
  BY LogGrows
<1>2. \A r \in Run : Ended(r) => Ended(r)'
  BY EndedStaysEnded
<1>3. i \in deadLetters => i \in deadLetters'
  BY DeadLettersGrow
<1> QED BY <1>1, <1>2, <1>3 DEF Done, Ended

----------------------------------------------------------------------------
(* Types.                                                                  *)

\* The initial states are typed and safe: nothing is committed.
LEMMA InitCorrect == Init => TypeOK /\ Safe
<1> SUFFICES ASSUME Init PROVE TypeOK /\ Safe
  OBVIOUS
<1>1. log = <<>> /\ log \in Seq(Event) /\ Len(log) = 0
  BY DEF Init
<1>2. TypeOK
  BY <1>1, RecordAssumption DEF Init, Outbox!Init, TypeOK, RecordAssumption
<1>3. Safe
  BY <1>1 DEF Init, Safe, ConsumerSafe
<1> QED BY <1>2, <1>3

\* Every step keeps the types.
LEMMA TypeStep ==
  ASSUME TypeOK, Safe, [Next]_vars  PROVE TypeOK'
<1>0. Len(log) \in Nat
  BY DEF TypeOK
<1>1. ASSUME NEW e \in Event, Publish(e) PROVE TypeOK'
  <2>1. log' \in Seq(Event) /\ Len(log') = Len(log) + 1
    BY <1>1 DEF Publish, TypeOK
  <2>2. copies' \in [Event -> Nat] /\ UNCHANGED settled
    BY <1>1 DEF Publish, Outbox!Send, TypeOK
  <2> QED BY <1>0, <1>1, <2>1, <2>2 DEF Publish, TypeOK, groupVars,
          consumerVars, runVars
<1>2. ASSUME NEW r \in Run, Settle(r) PROVE TypeOK'
  <2>1. settled' \in [Event -> {"open", "published", "failed"}]
    BY <1>2 DEF Settle, Outbox!Settle, Outbox!GiveUp, TypeOK, Event
  <2>2. UNCHANGED copies
    BY <1>2 DEF Settle, Outbox!Settle, Outbox!GiveUp
  <2> QED BY <1>2, <2>1, <2>2 DEF Settle, TypeOK, groupVars, consumerVars,
          runVars
<1>3. ASSUME NEW c \in Consumer, Assign(c) \/ Rebalance(c) PROVE TypeOK'
  <2>1. moves' \in 0..MaxMoves
    BY <1>3, RecordAssumption DEF Assign, Rebalance, TypeOK, RecordAssumption
  <2>2. Assigned(c)
    BY <1>3 DEF Assign, Rebalance
  <2>3. position' \in [Consumer -> Nat]
    <3>1. committed \in Nat
      BY DEF TypeOK
    <3> QED BY <2>2, <3>1 DEF Assigned
  <2> QED BY <2>1, <2>2, <2>3 DEF Assigned, TypeOK, outboxVars, runVars
<1>4. ASSUME NEW c \in Consumer, Leave(c) PROVE TypeOK'
  BY <1>4 DEF Leave, TypeOK, outboxVars, runVars
<1>5. ASSUME NEW r \in Run, Expire(r) \/ Cancel(r) PROVE TypeOK'
  BY <1>5 DEF Expire, Cancel, TypeOK, outboxVars, groupVars, consumerVars
<1>6. ASSUME NEW c \in Consumer, RunOnce(c) PROVE TypeOK'
  <2>1. /\ position' \in [Consumer -> Nat]
        /\ offset' \in [Consumer -> Nat]
        /\ pc' \in [Consumer ->
                     {"poll", "process", "execute", "deadletter", "commit"}]
    <3>1. CASE Poll(c)
      BY <3>1 DEF Poll, TypeOK
    <3>2. ASSUME pc[c] # "poll", Retry(c) PROVE <2>1!1 /\ <2>1!2 /\ <2>1!3
      <4>1. offset[c] - 1 \in Nat
        BY <3>2, <1>0 DEF Safe, ConsumerSafe, TypeOK
      <4> QED BY <3>2, <4>1 DEF Retry, Rewind, TypeOK
    <3>3. ASSUME NEW next \in {"execute", "deadletter", "commit"},
                 Proceed(c, next)
          PROVE  <2>1!1 /\ <2>1!2 /\ <2>1!3
      BY <3>3 DEF Proceed, TypeOK
    <3>4. CASE Return(c)
      BY <3>4 DEF Return, TypeOK
    <3>5. \/ Poll(c) \/ (pc[c] # "poll" /\ Retry(c)) \/ Return(c)
          \/ Proceed(c, "execute") \/ Proceed(c, "deadletter")
          \/ Proceed(c, "commit")
      BY <1>6 DEF RunOnce, Skip, Reject, Claim, NotClaimed, Complete,
         LeaseLost, WorkFails, DeadLetter, DeadLetterFails, Commit, CommitFails
    <3> QED BY <3>1, <3>2, <3>3, <3>4, <3>5
  <2>2. /\ status' \in [Run ->
                {"PENDING", "RUNNING", "SUCCEEDED", "FAILED", "CANCELED"}]
        /\ holder' \in [Run -> Consumer \cup {NoConsumer}]
        /\ expired' \in [Run -> BOOLEAN]
    <3>1. CASE Claim(c)
      BY <3>1 DEF Claim, TypeOK
    <3>2. CASE Complete(c)
      BY <3>2 DEF Complete, TypeOK
    <3>3. CASE UNCHANGED runVars
      BY <3>3 DEF runVars, TypeOK
    <3> QED BY <1>6, <3>1, <3>2, <3>3 DEF RunOnce, Poll, Skip, Reject,
            NotClaimed, LeaseLost, WorkFails, DeadLetter, DeadLetterFails,
            Commit, CommitFails
  <2>3. deadLetters' \subseteq 1..Len(log)
    <3>1. CASE DeadLetter(c)
      BY <3>1 DEF DeadLetter, Safe, ConsumerSafe, TypeOK
    <3>2. CASE UNCHANGED deadLetters
      BY <3>2 DEF TypeOK
    <3> QED BY <1>6, <3>1, <3>2 DEF RunOnce, Poll, Skip, Reject, Claim,
            NotClaimed, Complete, LeaseLost, WorkFails, DeadLetterFails,
            Commit, CommitFails
  <2>4. committed' \in Nat
    <3>1. CASE Commit(c)
      BY <3>1 DEF Commit, TypeOK
    <3>2. CASE UNCHANGED committed
      BY <3>2 DEF TypeOK
    <3> QED BY <1>6, <3>1, <3>2 DEF RunOnce, Poll, Skip, Reject, Claim,
            NotClaimed, Complete, LeaseLost, WorkFails, DeadLetter,
            DeadLetterFails, CommitFails, groupVars
  <2>5. UNCHANGED <<outboxVars, log, owner, moves>>
    BY <1>6 DEF RunOnce, Poll, Skip, Reject, Claim, NotClaimed, Complete,
       LeaseLost, WorkFails, DeadLetter, DeadLetterFails, Commit, CommitFails,
       groupVars
  <2> QED BY <2>1, <2>2, <2>3, <2>4, <2>5 DEF TypeOK, outboxVars
<1>7. CASE UNCHANGED vars
  BY <1>7 DEF vars, outboxVars, groupVars, consumerVars, runVars, TypeOK
<1> QED BY <1>1, <1>2, <1>3, <1>4, <1>5, <1>6, <1>7 DEF Next

----------------------------------------------------------------------------
(* Safe is inductive: one lemma for each way a consumer moves.             *)

\* A consumer the step does not concern.
LEMMA BystanderSafe ==
  ASSUME TypeOK, Safe, [Next]_vars, NEW c \in Consumer,
         position'[c] = position[c], pc'[c] = pc[c], offset'[c] = offset[c],
         owner' = c => owner = c
  PROVE  ConsumerSafe(c)'
<1> USE DEF TypeOK
<1>0. ConsumerSafe(c)
  BY DEF Safe
<1>1. position'[c] <= Len(log')
  BY <1>0, LogGrows DEF ConsumerSafe
<1>2. owner' = c => \A i \in 1..position'[c] :
                      Done(i)' \/ (pc'[c] # "poll" /\ i = offset'[c])
  BY <1>0, LogGrows, DoneStays DEF ConsumerSafe
<1>3. pc'[c] # "poll" => /\ offset'[c] \in 1..Len(log')
                         /\ \A i \in 1..(offset'[c] - 1) : Done(i)'
  BY <1>0, LogGrows, DoneStays DEF ConsumerSafe
<1>4. pc'[c] # "poll" => Record(c)' = Record(c)
  BY <1>0, LogGrows DEF ConsumerSafe, Record
<1>5. pc'[c] = "commit" => Done(offset[c])'
  <2>1. pc'[c] = "commit" => offset[c] \in 1..Len(log) /\ Done(offset[c])
    BY <1>0 DEF ConsumerSafe
  <2>2. \A i \in 1..Len(log) : Done(i) => Done(i)'
    BY DoneStays
  <2> QED BY <2>1, <2>2 DEF Done, Ended
<1> QED BY <1>0, <1>1, <1>2, <1>3, <1>4, <1>5 DEF ConsumerSafe

\* A consumer that seeks back to the record it could not finish stays safe.
LEMMA RetrySafe ==
  ASSUME TypeOK, Safe, [Next]_vars, NEW c \in Consumer,
         pc[c] # "poll", Retry(c), owner' = owner
  PROVE  ConsumerSafe(c)'
<1> USE DEF TypeOK
<1>0. ConsumerSafe(c)
  BY DEF Safe
<1>1. pc'[c] = "poll"
  BY DEF Retry
<1>2. position'[c] = IF owner = c THEN offset[c] - 1 ELSE position[c]
  BY DEF Retry, Rewind
<1>3. position'[c] <= Len(log')
  BY <1>0, <1>2, LogGrows DEF ConsumerSafe
<1>4. owner' = c => \A i \in 1..position'[c] : Done(i)'
  BY <1>0, <1>2, LogGrows, DoneStays DEF ConsumerSafe
<1> QED BY <1>1, <1>3, <1>4 DEF ConsumerSafe

\* Going on with a record is safe where it is of the kind the next step is for.
LEMMA ProceedSafe ==
  ASSUME TypeOK, Safe, [Next]_vars, NEW c \in Consumer,
         pc[c] # "poll", owner' = owner, log' = log,
         NEW next \in {"execute", "deadletter", "commit"}, Proceed(c, next),
         next = "execute" => Record(c) \in Run,
         next = "deadletter" => Record(c) \in Bad,
         next = "commit" => Done(offset[c])'
  PROVE  ConsumerSafe(c)'
<1> USE DEF TypeOK
<1>0. ConsumerSafe(c)
  BY DEF Safe
<1>1. pc'[c] = next /\ UNCHANGED <<position, offset>>
  BY DEF Proceed
<1>2. Record(c)' = Record(c)
  BY <1>1 DEF Record
<1>3. owner' = c => \A i \in 1..position'[c] :
                      Done(i)' \/ (pc'[c] # "poll" /\ i = offset'[c])
  BY <1>0, <1>1, LogGrows, DoneStays DEF ConsumerSafe
<1>4. \A i \in 1..(offset'[c] - 1) : Done(i)'
  BY <1>0, <1>1, LogGrows, DoneStays DEF ConsumerSafe
<1>5. position'[c] <= Len(log') /\ offset'[c] \in 1..Len(log')
  BY <1>0, <1>1 DEF ConsumerSafe
<1> QED BY <1>1, <1>2, <1>3, <1>4, <1>5 DEF ConsumerSafe

\* Polling again after a commit is safe.
LEMMA ReturnSafe ==
  ASSUME TypeOK, Safe, [Next]_vars, NEW c \in Consumer,
         pc[c] = "commit", Return(c), owner' = owner
  PROVE  ConsumerSafe(c)'
<1> USE DEF TypeOK
<1>0. ConsumerSafe(c)
  BY DEF Safe
<1>1. pc'[c] = "poll" /\ position'[c] = position[c]
  BY DEF Return
<1>2. owner = c => \A i \in 1..position[c] : Done(i)
  BY <1>0 DEF ConsumerSafe
<1>3. position'[c] <= Len(log')
  BY <1>0, <1>1, LogGrows DEF ConsumerSafe
<1>4. owner' = c => \A i \in 1..position'[c] : Done(i)'
  BY <1>0, <1>1, <1>2, LogGrows, DoneStays DEF ConsumerSafe
<1> QED BY <1>1, <1>3, <1>4 DEF ConsumerSafe

\* The partition changes hands.
LEMMA AssignedSafe ==
  ASSUME TypeOK, Safe, [Next]_vars, NEW c \in Consumer, Assigned(c)
  PROVE  \A d \in Consumer : ConsumerSafe(d)'
<1> USE DEF TypeOK
<1>1. SUFFICES ASSUME NEW d \in Consumer PROVE ConsumerSafe(d)'
  OBVIOUS
<1>2. /\ UNCHANGED <<pc, offset, log, committed>>
      /\ position'[d] = IF d = c THEN committed ELSE 0
      /\ owner' = c
  BY DEF Assigned
<1>3. ConsumerSafe(d) /\ committed <= Len(log)
  BY DEF Safe
<1>4. position'[d] <= Len(log')
  BY <1>2, <1>3
<1>5. \A i \in 1..position'[d] : Done(i)'
  BY <1>2, <1>3, DoneStays DEF Safe
<1>6. pc'[d] # "poll" => /\ offset'[d] \in 1..Len(log')
                         /\ \A i \in 1..(offset'[d] - 1) : Done(i)'
  <2> SUFFICES ASSUME pc[d] # "poll"
               PROVE  /\ offset[d] \in 1..Len(log)
                      /\ \A i \in 1..(offset[d] - 1) : Done(i)'
    BY <1>2
  <2>1. /\ offset[d] \in 1..Len(log)
        /\ \A i \in 1..(offset[d] - 1) : Done(i)
    BY <1>3 DEF ConsumerSafe
  <2>2. \A i \in 1..(offset[d] - 1) : i \in 1..Len(log)
    BY <2>1
  <2> QED BY <2>1, <2>2, DoneStays
<1>7. Record(d)' = Record(d)
  BY <1>2 DEF Record
<1>8. pc'[d] = "commit" => Done(offset[d])'
  <2>1. pc[d] = "commit" => offset[d] \in 1..Len(log) /\ Done(offset[d])
    BY <1>3 DEF ConsumerSafe
  <2>2. \A i \in 1..Len(log) : Done(i) => Done(i)'
    BY DoneStays
  <2> QED BY <1>2, <2>1, <2>2 DEF Done, Ended
<1> QED BY <1>2, <1>3, <1>4, <1>5, <1>6, <1>7, <1>8 DEF ConsumerSafe

\* One step of run_once, for the consumer that takes it.
LEMMA RunOnceSafe ==
  ASSUME TypeOK, Safe, [Next]_vars, NEW c \in Consumer, RunOnce(c)
  PROVE  ConsumerSafe(c)'
<1> USE DEF TypeOK
<1>0. ConsumerSafe(c)
  BY DEF Safe
<1>1. owner' = owner /\ log' = log
  BY DEF RunOnce, Poll, Skip, Reject, Claim, NotClaimed, Complete, LeaseLost,
     WorkFails, DeadLetter, DeadLetterFails, Commit, CommitFails, groupVars
<1>2. CASE Poll(c)
  <2>1. /\ pc[c] = "poll" /\ owner = c /\ position[c] < Len(log)
        /\ pc'[c] = "process"
        /\ position'[c] = position[c] + 1
        /\ offset'[c] = position[c] + 1
    BY <1>2 DEF Poll
  <2>2. \A i \in 1..position[c] : Done(i)'
    BY <1>0, <2>1, DoneStays DEF ConsumerSafe
  <2> QED BY <1>1, <2>1, <2>2 DEF ConsumerSafe
<1>3. CASE Retry(c) /\ pc[c] # "poll"
  BY <1>1, <1>3, RetrySafe
<1>4. CASE Skip(c) /\ Proceed(c, "commit")
  <2>1. Done(offset[c])'
    BY <1>1, <1>4, RecordAssumption
       DEF Skip, Done, Record, Proceed, RecordAssumption
  <2> QED BY <1>1, <1>4, <2>1, ProceedSafe DEF Skip
<1>5. CASE Reject(c) /\ Proceed(c, "deadletter")
  BY <1>1, <1>5, ProceedSafe DEF Reject
<1>6. CASE Claim(c) /\ Proceed(c, "execute")
  BY <1>1, <1>6, ProceedSafe DEF Claim
<1>7. CASE NotClaimed(c) /\ Ended(Record(c)) /\ Proceed(c, "commit")
  <2>1. Done(offset[c])'
    <3>1. Record(c) \in Run /\ Record(c) \notin Bad
      BY <1>7, RecordAssumption DEF NotClaimed, RecordAssumption
    <3>2. UNCHANGED <<log, offset, status>>
      BY <1>7 DEF NotClaimed, Proceed, runVars
    <3> QED BY <1>7, <3>1, <3>2 DEF Done, Record, Ended
  <2> QED BY <1>1, <1>7, <2>1, ProceedSafe DEF NotClaimed
<1>8. CASE Complete(c) /\ Proceed(c, "commit")
  <2>1. Record(c) \in Run /\ Record(c) \notin Bad
    BY <1>0, <1>8, RecordAssumption
       DEF Complete, ConsumerSafe, RecordAssumption
  <2>2. PICK result \in {"SUCCEEDED", "FAILED"} :
          status' = [status EXCEPT ![Record(c)] = result]
    BY <1>8 DEF Complete
  <2>3. Ended(Record(c))' /\ UNCHANGED <<log, offset>>
    BY <1>1, <1>8, <2>1, <2>2 DEF Ended, Proceed, Record
  <2>4. Done(offset[c])'
    BY <2>1, <2>3 DEF Done, Record
  <2> QED BY <1>1, <1>8, <2>4, ProceedSafe DEF Complete
<1>9. CASE DeadLetter(c) /\ Proceed(c, "commit")
  <2>1. Record(c) \notin Run
    BY <1>0, <1>9, RecordAssumption
       DEF DeadLetter, ConsumerSafe, RecordAssumption
  <2>2. UNCHANGED <<log, offset>> /\ offset[c] \in deadLetters'
    BY <1>1, <1>9 DEF DeadLetter, Proceed
  <2>3. Done(offset[c])'
    BY <2>1, <2>2 DEF Done, Record
  <2> QED BY <1>1, <1>9, <2>3, ProceedSafe DEF DeadLetter
<1>10. CASE Commit(c) /\ Return(c)
  BY <1>1, <1>10, ReturnSafe DEF Commit
<1> QED BY <1>2, <1>3, <1>4, <1>5, <1>6, <1>7, <1>8, <1>9, <1>10
        DEF RunOnce, Skip, Reject, Claim, NotClaimed, Complete, LeaseLost,
            WorkFails, DeadLetter, DeadLetterFails, Commit, CommitFails

\* Every step keeps the inductive invariant.
LEMMA SafeStep ==
  ASSUME TypeOK, Safe, [Next]_vars  PROVE Safe'
<1> USE DEF TypeOK
<1>1. committed' <= Len(log') /\ \A i \in 1..committed' : Done(i)'
  <2>1. CASE UNCHANGED committed
    BY <2>1, LogGrows, DoneStays DEF Safe
  <2>2. ASSUME NEW c \in Consumer, Commit(c) PROVE <1>1
    <3>1. ConsumerSafe(c) /\ pc[c] = "commit" /\ committed' = offset[c]
      BY <2>2 DEF Safe, Commit
    <3>2. offset[c] \in 1..Len(log) /\ \A i \in 1..offset[c] : Done(i)
      BY <3>1 DEF ConsumerSafe
    <3>3. \A i \in 1..offset[c] : Done(i)'
      BY <3>2, DoneStays
    <3> QED BY <3>1, <3>2, <3>3, LogGrows
  <2>3. UNCHANGED committed \/ \E c \in Consumer : Commit(c)
    BY DEF Next, vars, groupVars, Publish, Settle, Assign, Rebalance,
       Assigned, Leave, RunOnce, Poll, Skip, Reject, Claim, NotClaimed,
       Complete, LeaseLost, WorkFails, DeadLetter, DeadLetterFails,
       CommitFails, Expire, Cancel
  <2> QED BY <2>1, <2>2, <2>3
<1>2. ASSUME NEW c \in Consumer PROVE ConsumerSafe(c)'
  <2>1. CASE \/ \E e \in Event : Publish(e)
             \/ \E r \in Run : Settle(r) \/ Expire(r) \/ Cancel(r)
             \/ UNCHANGED vars
    BY <2>1, BystanderSafe DEF Publish, Settle, Expire, Cancel, vars,
       groupVars, consumerVars
  <2>2. ASSUME NEW d \in Consumer, Assign(d) \/ Rebalance(d)
        PROVE  ConsumerSafe(c)'
    BY <2>2, AssignedSafe DEF Assign, Rebalance
  <2>3. ASSUME NEW d \in Consumer, Leave(d) PROVE ConsumerSafe(c)'
    <3>1. CASE c = d
      <4>1. pc'[c] = "poll" /\ position'[c] = 0
        BY <2>3, <3>1 DEF Leave
      <4>2. position'[c] <= Len(log') /\ 1..position'[c] = {}
        BY <4>1, LogGrows
      <4> QED BY <4>1, <4>2 DEF ConsumerSafe
    <3>2. CASE c # d
      <4>1. owner' = c => owner = c
        BY <2>3, RecordAssumption DEF Leave, RecordAssumption
      <4> QED BY <2>3, <3>2, <4>1, BystanderSafe DEF Leave
    <3> QED BY <3>1, <3>2
  <2>4. ASSUME NEW d \in Consumer, RunOnce(d) PROVE ConsumerSafe(c)'
    <3>1. CASE c = d
      BY <2>4, <3>1, RunOnceSafe
    <3>2. CASE c # d
      <4>1. /\ position'[c] = position[c]
            /\ pc'[c] = pc[c]
            /\ offset'[c] = offset[c]
            /\ owner' = owner
        BY <2>4, <3>2 DEF RunOnce, Poll, Skip, Reject, Claim, NotClaimed,
           Complete, LeaseLost, WorkFails, DeadLetter, DeadLetterFails,
           Commit, CommitFails, groupVars, Retry, Rewind, Proceed, Return
      <4> QED BY <4>1, BystanderSafe
    <3> QED BY <3>1, <3>2
  <2> QED BY <2>1, <2>2, <2>3, <2>4 DEF Next
<1> QED BY <1>1, <1>2 DEF Safe

----------------------------------------------------------------------------
(* Theorems.                                                               *)

\* Types and the inductive invariant.
THEOREM DeliveryInvariance == Spec => [](TypeOK /\ Safe)
<1>1. Init => TypeOK /\ Safe
  BY InitCorrect
<1>2. TypeOK /\ Safe /\ [Next]_vars => (TypeOK /\ Safe)'
  BY TypeStep, SafeStep
<1> QED BY <1>1, <1>2, PTL DEF Spec

\* Group, consumers, runs and topic keep their types.
THEOREM DeliveryTypeCorrect == Spec => []TypeOK
<1> QED BY DeliveryInvariance, PTL

\* Whatever is committed is done: by whichever consumer, after whichever
\* rebalances, crashes and lost answers.  consumer.py:267-382.
THEOREM CommittedIsDone == Spec => []NothingSkipped
<1>1. Safe => NothingSkipped
  BY DEF Safe, NothingSkipped
<1> QED BY <1>1, DeliveryInvariance, PTL
=============================================================================
