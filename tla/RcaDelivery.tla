---------------------------- MODULE RcaDelivery ----------------------------
(***************************************************************************)
(* From the outbox to the end of a run: the events of the outbox reach one *)
(* partition of the topic, the consumers of a group take records from it   *)
(* one at a time, execute the runs they ask for, and commit offsets by     *)
(* hand, after the work.                                                   *)
(*                                                                         *)
(* The outbox is the contract AtLeastOnce, which OutboxDispatch implements.*)
(* A run is what WorkflowLease makes of it: a status, the execution that   *)
(* holds its lease, and whether that lease has run out.  A consumer        *)
(* handles one record at a time, so the consumer names the execution.      *)
(* All events of a run have the run as their key, so one partition is the  *)
(* whole story of the runs it carries.                                     *)
(***************************************************************************)
EXTENDS Naturals, Sequences

CONSTANTS
  Consumer,     \* processes of the consumer group
  NoConsumer,
  Run,          \* workflow runs; each has its rca.requested event
  Foreign,      \* events of other types on the shared topic
  Bad,          \* records no version of the message contract accepts
  MaxLog,       \* bound: records that reach the topic
  MaxMoves      \* bound: rebalances that take the partition from a live owner

ASSUME RecordAssumption ==
  /\ Run \cap Foreign = {}
  /\ Run \cap Bad = {}
  /\ Foreign \cap Bad = {}
  /\ NoConsumer \notin Consumer
  /\ MaxLog \in Nat
  /\ MaxMoves \in Nat

Event == Run \cup Foreign \cup Bad

VARIABLES
  settled,      \* how the outbox ended each event
  copies,       \* copies of each event that reached the topic
  log,          \* the partition
  committed,    \* the group's committed offset: records before the next one
  owner,        \* the consumer the partition is assigned to
  moves,        \* rebalances so far
  deadLetters,  \* offsets that are in the dead-letter topic
  position,     \* how far each consumer has polled
  pc,           \* what each consumer does
  offset,       \* the record it does it with
  status,       \* of each run
  holder,       \* the consumer whose execution has its lease
  expired       \* whether that lease has run out

outboxVars == <<settled, copies>>
groupVars == <<committed, owner, moves>>
consumerVars == <<position, pc, offset>>
runVars == <<status, holder, expired>>
vars == <<outboxVars, log, groupVars, deadLetters, consumerVars, runVars>>

Outbox == INSTANCE AtLeastOnce

Ended(r) == status[r] \in {"SUCCEEDED", "FAILED", "CANCELED"}

Record(c) == log[offset[c]]

----------------------------------------------------------------------------
(* Around the consumers: the outbox, the group, leases and people.         *)

\* A dispatcher publishes; the answer may be lost, so it may do so again.
Publish(e) ==
  /\ Len(log) < MaxLog
  /\ Outbox!Send(e)
  /\ log' = Append(log, e)
  /\ UNCHANGED <<groupVars, deadLetters, consumerVars, runVars>>

\* How the outbox ends the events of runs; what it records of the others
\* decides nothing here.
Settle(e) ==
  /\ Outbox!Settle(e) \/ Outbox!GiveUp({e})
  /\ UNCHANGED <<log, groupVars, deadLetters, consumerVars, runVars>>

\* The consumer is assigned the partition and starts at the committed offset;
\* nobody else has a position in it.
Assigned(c) ==
  /\ owner' = c
  /\ position' = [d \in Consumer |-> IF d = c THEN committed ELSE 0]
  /\ UNCHANGED <<outboxVars, log, committed, deadLetters, pc, offset, runVars>>

Assign(c) ==
  /\ owner = NoConsumer
  /\ Assigned(c)
  /\ UNCHANGED moves

\* A rebalance takes the partition from its owner, who may be in the middle
\* of a record, and gives it to another or to the same consumer again.
Rebalance(c) ==
  /\ owner # NoConsumer
  /\ moves < MaxMoves
  /\ moves' = moves + 1
  /\ Assigned(c)

\* The consumer dies or is stopped, and comes back with nothing.
Leave(c) ==
  /\ pc' = [pc EXCEPT ![c] = "poll"]
  /\ offset' = [offset EXCEPT ![c] = 0]
  /\ position' = [position EXCEPT ![c] = 0]
  /\ owner' = IF owner = c THEN NoConsumer ELSE owner
  /\ UNCHANGED <<outboxVars, log, committed, moves, deadLetters, runVars>>

\* No heartbeat arrived in time: the holder died, stalls or is cut off.
Expire(r) ==
  /\ status[r] = "RUNNING"
  /\ ~expired[r]
  /\ expired' = [expired EXCEPT ![r] = TRUE]
  /\ UNCHANGED <<outboxVars, log, groupVars, deadLetters, consumerVars, status,
                 holder>>

Cancel(r) ==
  /\ ~Ended(r)
  /\ status' = [status EXCEPT ![r] = "CANCELED"]
  /\ holder' = [holder EXCEPT ![r] = NoConsumer]
  /\ expired' = [expired EXCEPT ![r] = FALSE]
  /\ UNCHANGED <<outboxVars, log, groupVars, deadLetters, consumerVars>>

----------------------------------------------------------------------------
(* One run_once of a consumer.                                             *)

Poll(c) ==
  /\ pc[c] = "poll"
  /\ owner = c
  /\ position[c] < Len(log)
  /\ position' = [position EXCEPT ![c] = @ + 1]
  /\ offset' = [offset EXCEPT ![c] = position[c] + 1]
  /\ pc' = [pc EXCEPT ![c] = "process"]
  /\ UNCHANGED <<outboxVars, log, groupVars, deadLetters, runVars>>

\* Mutation: a retry leaves the position behind the record.
NoRewind(c) == UNCHANGED position

\* Mutation: the seek goes back one record too far.
RewindTooFar(c) ==
  position' = [position EXCEPT ![c] = IF owner = c THEN offset[c] - 2 ELSE @]

\* Seek back to the record; refused when the partition is no longer assigned.
Rewind(c) ==
  position' = [position EXCEPT ![c] = IF owner = c THEN offset[c] - 1 ELSE @]

\* The record has to be handled again.
Retry(c) ==
  /\ pc' = [pc EXCEPT ![c] = "poll"]
  /\ offset' = [offset EXCEPT ![c] = 0]
  /\ Rewind(c)

Proceed(c, next) ==
  /\ pc' = [pc EXCEPT ![c] = next]
  /\ UNCHANGED <<position, offset>>

\* The record is passed.
Return(c) ==
  /\ pc' = [pc EXCEPT ![c] = "poll"]
  /\ offset' = [offset EXCEPT ![c] = 0]
  /\ UNCHANGED position

\* An event of another type is acknowledged unseen.
Skip(c) ==
  /\ pc[c] = "process"
  /\ Record(c) \in Foreign
  /\ Proceed(c, "commit")
  /\ UNCHANGED <<outboxVars, log, groupVars, deadLetters, runVars>>

\* Mutation: what cannot be parsed is tried again, like any other error.
RejectRetries(c) ==
  /\ pc[c] = "process"
  /\ Record(c) \in Bad
  /\ Retry(c)
  /\ UNCHANGED <<outboxVars, log, groupVars, deadLetters, runVars>>

Reject(c) ==
  /\ pc[c] = "process"
  /\ Record(c) \in Bad
  /\ Proceed(c, "deadletter")
  /\ UNCHANGED <<outboxVars, log, groupVars, deadLetters, runVars>>

\* Mutation: only a PENDING run can be claimed.
ClaimableWhenPending(r) == status[r] = "PENDING"

Claimable(r) ==
  \/ status[r] = "PENDING"
  \/ status[r] = "RUNNING" /\ expired[r]

\* The claim commits, and the consumer executes the run or never learns.
Claim(c) ==
  /\ pc[c] = "process"
  /\ Record(c) \in Run
  /\ Claimable(Record(c))
  /\ status' = [status EXCEPT ![Record(c)] = "RUNNING"]
  /\ holder' = [holder EXCEPT ![Record(c)] = c]
  /\ expired' = [expired EXCEPT ![Record(c)] = FALSE]
  /\ Proceed(c, "execute") \/ Retry(c)
  /\ UNCHANGED <<outboxVars, log, groupVars, deadLetters>>

\* No claim: an ended run needs no work, a live one is tried again later.
NotClaimed(c) ==
  /\ pc[c] = "process"
  /\ Record(c) \in Run
  /\ ~Claimable(Record(c))
  /\ IF Ended(Record(c)) THEN Proceed(c, "commit") ELSE Retry(c)
  /\ UNCHANGED <<outboxVars, log, groupVars, deadLetters, runVars>>

Holds(c, r) == status[r] = "RUNNING" /\ holder[r] = c /\ ~expired[r]

\* The completion commits, and the consumer learns of it or not.
Complete(c) ==
  /\ pc[c] = "execute"
  /\ Holds(c, Record(c))
  /\ \E result \in {"SUCCEEDED", "FAILED"} :
       status' = [status EXCEPT ![Record(c)] = result]
  /\ holder' = [holder EXCEPT ![Record(c)] = NoConsumer]
  /\ Proceed(c, "commit") \/ Retry(c)
  /\ UNCHANGED <<outboxVars, log, groupVars, deadLetters, expired>>

\* A heartbeat or the completion finds the lease lost.
LeaseLost(c) ==
  /\ pc[c] = "execute"
  /\ ~Holds(c, Record(c))
  /\ Retry(c)
  /\ UNCHANGED <<outboxVars, log, groupVars, deadLetters, runVars>>

\* A transaction fails.
WorkFails(c) ==
  /\ pc[c] \in {"process", "execute"}
  /\ Record(c) \in Run
  /\ Retry(c)
  /\ UNCHANGED <<outboxVars, log, groupVars, deadLetters, runVars>>

DeadLetter(c) ==
  /\ pc[c] = "deadletter"
  /\ deadLetters' = deadLetters \cup {offset[c]}
  /\ Proceed(c, "commit") \/ Retry(c)
  /\ UNCHANGED <<outboxVars, log, groupVars, runVars>>

DeadLetterFails(c) ==
  /\ pc[c] = "deadletter"
  /\ Retry(c)
  /\ UNCHANGED <<outboxVars, log, groupVars, deadLetters, runVars>>

\* The broker accepts a commit from the owner of the partition only, also one
\* of an earlier assignment; its answer may be lost.
Commit(c) ==
  /\ pc[c] = "commit"
  /\ owner = c
  /\ committed' = offset[c]
  /\ Return(c) \/ Retry(c)
  /\ UNCHANGED <<outboxVars, log, owner, moves, deadLetters, runVars>>

CommitFails(c) ==
  /\ pc[c] = "commit"
  /\ Retry(c)
  /\ UNCHANGED <<outboxVars, log, groupVars, deadLetters, runVars>>

----------------------------------------------------------------------------
Init ==
  /\ Outbox!Init
  /\ log = <<>>
  /\ committed = 0
  /\ owner = NoConsumer
  /\ moves = 0
  /\ deadLetters = {}
  /\ position = [c \in Consumer |-> 0]
  /\ pc = [c \in Consumer |-> "poll"]
  /\ offset = [c \in Consumer |-> 0]
  /\ status = [r \in Run |-> "PENDING"]
  /\ holder = [r \in Run |-> NoConsumer]
  /\ expired = [r \in Run |-> FALSE]

RunOnce(c) ==
  \/ Poll(c) \/ Skip(c) \/ Reject(c) \/ Claim(c) \/ NotClaimed(c)
  \/ Complete(c) \/ LeaseLost(c) \/ WorkFails(c)
  \/ DeadLetter(c) \/ DeadLetterFails(c) \/ Commit(c) \/ CommitFails(c)

Next ==
  \/ \E e \in Event : Publish(e)
  \/ \E c \in Consumer : Assign(c) \/ Rebalance(c) \/ Leave(c) \/ RunOnce(c)
  \/ \E r \in Run : Settle(r) \/ Expire(r) \/ Cancel(r)

Spec == Init /\ [][Next]_vars

(***************************************************************************)
(* Fairness: the outbox keeps its promise, a group with a free partition   *)
(* assigns it, an abandoned lease runs out, and no step of a consumer      *)
(* fails every time it is tried.                                           *)
(***************************************************************************)
Abandoned(r) ==
  \A c \in Consumer : ~(pc[c] = "execute" /\ Record(c) = r /\ holder[r] = c)

Fairness ==
  /\ \A r \in Run : WF_vars(Settle(r))
  /\ \A r \in Run : WF_vars(Abandoned(r) /\ Expire(r))
  /\ WF_vars(\E c \in Consumer : Assign(c))
  /\ SF_vars(\E c \in Consumer : Poll(c))
  /\ \A c \in Consumer :
       WF_vars(NotClaimed(c) \/ LeaseLost(c))
  /\ SF_vars(\E c \in Consumer :
       Skip(c) \/ Reject(c) \/ (NotClaimed(c) /\ Proceed(c, "commit")))
  /\ SF_vars(\E c \in Consumer : Claim(c) /\ Proceed(c, "execute"))
  /\ SF_vars(\E c \in Consumer : Complete(c))
  /\ SF_vars(\E c \in Consumer : DeadLetter(c) /\ Proceed(c, "commit"))
  /\ SF_vars(\E c \in Consumer : Commit(c) /\ Return(c))

FairSpec == Spec /\ Fairness

\* A record needs no further work.
Done(i) ==
  /\ log[i] \in Run => Ended(log[i])
  /\ log[i] \in Bad => i \in deadLetters

\* What makes NothingSkipped inductive: whoever may commit a record has seen
\* to it, and to every record before it.
ConsumerSafe(c) ==
  /\ position[c] <= Len(log)
  /\ owner = c => \A i \in 1..position[c] :
                    Done(i) \/ (pc[c] # "poll" /\ i = offset[c])
  /\ pc[c] # "poll" =>
       /\ offset[c] \in 1..Len(log)
       /\ \A i \in 1..(offset[c] - 1) : Done(i)
  /\ pc[c] = "execute" => Record(c) \in Run
  /\ pc[c] = "deadletter" => Record(c) \in Bad
  /\ pc[c] = "commit" => Done(offset[c])

Safe ==
  /\ committed <= Len(log)
  /\ \A i \in 1..committed : Done(i)
  /\ \A c \in Consumer : ConsumerSafe(c)

(***************************************************************************)
(* Properties.                                                             *)
(***************************************************************************)

TypeOK ==
  /\ settled \in [Event -> {"open", "published", "failed"}]
  /\ copies \in [Event -> Nat]
  /\ log \in Seq(Event)
  /\ committed \in Nat
  /\ owner \in Consumer \cup {NoConsumer}
  /\ moves \in 0..MaxMoves
  /\ deadLetters \subseteq 1..Len(log)
  /\ position \in [Consumer -> Nat]
  /\ pc \in [Consumer ->
              {"poll", "process", "execute", "deadletter", "commit"}]
  /\ offset \in [Consumer -> Nat]
  /\ status \in [Run ->
              {"PENDING", "RUNNING", "SUCCEEDED", "FAILED", "CANCELED"}]
  /\ holder \in [Run -> Consumer \cup {NoConsumer}]
  /\ expired \in [Run -> BOOLEAN]

\* No record before the committed offset is lost: its run has ended, or it is
\* in the dead-letter topic, whoever commits, after whatever rebalance.
\* consumer.py:267-382, rca_record_processor.py:59-110.
NothingSkipped ==
  /\ committed <= Len(log)
  /\ \A i \in 1..committed : Done(i)

\* Whoever owns the partition catches up with it, again and again: a record
\* nobody can parse, or a run somebody else works on, does not stop those
\* behind it.  The owner's position tells, not the committed offset: a consumer
\* that was reassigned the partition in the middle of a record commits that
\* record late, and so sets the offset back until the next commit.
\* consumer.py:304-322.
Drains ==
  Len(log) > 0
    ~> \E c \in Consumer : owner = c /\ pc[c] = "poll" /\ position[c] = Len(log)

\* A run that was requested ends, unless the outbox marked its event FAILED,
\* which operators are alerted of.  rca_service.py:129-134.
RequestedRunsEnd == \A r \in Run : <>(Ended(r) \/ settled[r] = "failed")
=============================================================================
