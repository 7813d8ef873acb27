--------------------------- MODULE OutboxDispatch ---------------------------
(***************************************************************************)
(* The outbox dispatchers: processes that claim due rows of outbox_events  *)
(* in one short transaction, publish them one by one outside any           *)
(* transaction, and settle each with a conditional UPDATE.                 *)
(*                                                                         *)
(* The claim locks its rows (FOR UPDATE SKIP LOCKED), so it is two steps,  *)
(* select and commit.  Between any two steps a process may crash, stall    *)
(* past its lease, or lose the answer of a commit; a publish that fails or *)
(* times out may or may not have reached the topic.                        *)
(*                                                                         *)
(* Times are kept as what is left of them: a lease or a delay is a number  *)
(* of ticks that Tick counts down, and has passed when it is 0.            *)
(***************************************************************************)
EXTENDS Naturals, FiniteSets

CONSTANTS
  Dispatcher,      \* outbox worker processes
  WorkerName,      \* values worker_id may take
  WorkerId,        \* worker_id of each process; replicas may share one
  NoWorker,        \* lock_id IS NULL
  Event,           \* rows of outbox_events
  Dirty,           \* rows that violate the event contract when mapped
  NoEvent,
  BatchSize,       \* OutboxDispatcherConfig.batch_size
  MaxAttempts,     \* OutboxDispatcherConfig.max_attempts
  LeaseDuration,   \* OutboxDispatcherConfig.lease_duration, in ticks
  PublishTimeout,  \* OutboxDispatcherConfig.publish_timeout
  MaxBackoff       \* OutboxDispatcherConfig.max_backoff

ASSUME ConfigAssumption ==
  /\ BatchSize \in Nat \ {0}
  /\ MaxAttempts \in Nat \ {0}
  /\ PublishTimeout \in Nat \ {0}
  /\ MaxBackoff \in Nat
  /\ LeaseDuration \in Nat
  /\ LeaseDuration > BatchSize * PublishTimeout

ASSUME IdentityAssumption ==
  /\ WorkerId \in [Dispatcher -> WorkerName]
  /\ NoWorker \notin WorkerName
  /\ NoEvent \notin Event
  /\ Dirty \subseteq Event
  /\ IsFiniteSet(Dispatcher) /\ IsFiniteSet(Event)

VARIABLES
  event,    \* the rows: status, attempts, lock_id, lease and delay left
  sent,     \* copies of each event that reached the topic
  pc,       \* what each process is doing
  batch,    \* rows its claim selected and it has not dispatched yet
  tries,    \* ClaimedOutboxEvent.attempts of those rows
  expired,  \* exhausted rows its claim marks FAILED
  lease,    \* what is left of the lease its claim is about to write
  elapsed,  \* how long its publish has taken
  current,  \* the row it has just published, or failed to
  verdict   \* what it is about to write there

rowVars == <<event, sent>>
workerVars == <<pc, batch, tries, expired, lease, elapsed, current, verdict>>
vars == <<rowVars, workerVars>>

----------------------------------------------------------------------------
(* Which rows a claim takes.                                               *)

Processing(e) == event[e].status = "PROCESSING"

PendingDue(e) == event[e].status = "PENDING" /\ event[e].delay = 0

StaleProcessing(e) == Processing(e) /\ event[e].lease = 0

Claimable(e) ==
  (PendingDue(e) \/ StaleProcessing(e)) /\ event[e].attempts < MaxAttempts

\* Mutation: exhausted rows are left as they are.
NeverExhausted(e) == FALSE

Exhausted(e) == StaleProcessing(e) /\ event[e].attempts >= MaxAttempts

\* Mutation: a plain SELECT takes no locks.
NothingLocked == {}

\* Rows locked by a claim transaction under way.
Locked == UNION {batch[p] \cup expired[p] : p \in {q \in Dispatcher :
                                                     pc[q] = "claim"}}

----------------------------------------------------------------------------
(* One cycle of run_once.                                                  *)

\* The cycle is over, or an error ended it: the rest of the batch is dropped.
Rest(p) ==
  /\ pc' = [pc EXCEPT ![p] = "idle"]
  /\ batch' = [batch EXCEPT ![p] = {}]
  /\ tries' = [tries EXCEPT ![p] = [e \in Event |-> 0]]
  /\ expired' = [expired EXCEPT ![p] = {}]
  /\ lease' = [lease EXCEPT ![p] = 0]
  /\ elapsed' = [elapsed EXCEPT ![p] = 0]
  /\ current' = [current EXCEPT ![p] = NoEvent]
  /\ verdict' = [verdict EXCEPT ![p] = "none"]

\* The claim transaction: mark exhausted rows, which waits for their locks,
\* then lock at most BatchSize claimable rows, skipping locked ones.  The
\* order of the rows is abstracted: any full batch may be the first one.
SelectBatch(p) ==
  /\ pc[p] = "idle"
  /\ LET dead == {e \in Event : Exhausted(e)}
         free == {e \in Event : Claimable(e)} \ Locked
     IN /\ dead \cap Locked = {}
        /\ expired' = [expired EXCEPT ![p] = dead]
        /\ \E rows \in SUBSET free :
             /\ Cardinality(rows) =
                  IF Cardinality(free) < BatchSize THEN Cardinality(free)
                                                   ELSE BatchSize
             /\ batch' = [batch EXCEPT ![p] = rows]
             /\ tries' = [tries EXCEPT ![p] =
                  [e \in Event |-> IF e \in rows THEN event[e].attempts + 1
                                                 ELSE 0]]
  /\ lease' = [lease EXCEPT ![p] = LeaseDuration]
  /\ pc' = [pc EXCEPT ![p] = "claim"]
  /\ UNCHANGED <<rowVars, elapsed, current, verdict>>

\* What a committed claim leaves in row e.
ClaimedRow(p, e) ==
  IF e \in batch[p]
    THEN [event[e] EXCEPT !.status = "PROCESSING", !.attempts = tries[p][e],
                          !.lockId = WorkerId[p], !.lease = lease[p]]
  ELSE IF e \in expired[p]
    THEN [event[e] EXCEPT !.status = "FAILED", !.lockId = NoWorker,
                          !.lease = 0]
  ELSE event[e]

\* The claim commits; its answer may be lost, and then the rows stay leased
\* to a process that does not know.
CommitClaim(p) ==
  /\ pc[p] = "claim"
  /\ batch[p] \cap Dirty = {}
  /\ event' = [e \in Event |-> ClaimedRow(p, e)]
  /\ \/ /\ batch[p] # {}
        /\ pc' = [pc EXCEPT ![p] = "publish"]
        /\ expired' = [expired EXCEPT ![p] = {}]
        /\ lease' = [lease EXCEPT ![p] = 0]
        /\ UNCHANGED <<batch, tries, elapsed, current, verdict>>
     \/ Rest(p)
  /\ UNCHANGED sent

\* The transaction fails, or mapping a dirty row raises: all is rolled back.
ClaimFails(p) ==
  /\ pc[p] = "claim"
  /\ Rest(p)
  /\ UNCHANGED rowVars

\* Mutation: a failed publish leaves a status no claim looks for.
VerdictUnknown(ok, attempts) ==
  IF ok THEN "PUBLISHED"
  ELSE IF attempts >= MaxAttempts THEN "FAILED" ELSE "RETRY"

\* Mutation: the budget is not looked at when a publish fails.
VerdictAlwaysRetry(ok, attempts) == IF ok THEN "PUBLISHED" ELSE "PENDING"

Verdict(ok, attempts) ==
  IF ok THEN "PUBLISHED"
  ELSE IF attempts >= MaxAttempts THEN "FAILED" ELSE "PENDING"

\* The publish of one row ends: acknowledged, or an error or the timeout,
\* and then nobody knows whether the topic has it.
Publish(p) ==
  /\ pc[p] = "publish"
  /\ \E e \in batch[p], ok, reached \in BOOLEAN :
       /\ ok => reached
       /\ sent' = [sent EXCEPT ![e] = IF reached THEN @ + 1 ELSE @]
       /\ current' = [current EXCEPT ![p] = e]
       /\ verdict' = [verdict EXCEPT ![p] = Verdict(ok, tries[p][e])]
  /\ pc' = [pc EXCEPT ![p] = "mark"]
  /\ elapsed' = [elapsed EXCEPT ![p] = 0]
  /\ UNCHANGED <<event, batch, tries, expired, lease>>

\* Mutation: rows are settled by event_id alone.
OwnedByAnyone(p, e) == TRUE

\* Mutation: rows are settled by whoever finds them in PROCESSING.
OwnedWhileProcessing(p, e) == Processing(e)

\* WHERE status = PROCESSING AND lock_id = worker_id.
Owned(p, e) == Processing(e) /\ event[e].lockId = WorkerId[p]

\* What a settled row keeps.
SettledRow(r, status, delay) ==
  [r EXCEPT !.status = status, !.lockId = NoWorker, !.lease = 0,
            !.delay = IF status = "PENDING" THEN delay ELSE r.delay]

\* mark_published, mark_retry and mark_failed; the next row of the batch is
\* published only when this returns.  A row lock makes the update wait.
Mark(p) ==
  /\ pc[p] = "mark"
  /\ current[p] \notin Locked
  /\ Owned(p, current[p])
  /\ \E delay \in 0..MaxBackoff :
       event' = [event EXCEPT ![current[p]] = SettledRow(@, verdict[p], delay)]
  /\ \/ /\ batch[p] # {current[p]}
        /\ pc' = [pc EXCEPT ![p] = "publish"]
        /\ batch' = [batch EXCEPT ![p] = @ \ {current[p]}]
        /\ tries' = [tries EXCEPT ![p][current[p]] = 0]
        /\ current' = [current EXCEPT ![p] = NoEvent]
        /\ verdict' = [verdict EXCEPT ![p] = "none"]
        /\ UNCHANGED <<expired, lease, elapsed>>
     \/ Rest(p)
  /\ UNCHANGED sent

\* The row is no longer this worker's, or the database fails: the error ends
\* the cycle, and rows of the batch not yet published wait for their lease.
MarkFails(p) ==
  /\ pc[p] = "mark"
  /\ Rest(p)
  /\ UNCHANGED rowVars

\* The process dies, its transaction and its locks with it.
Crash(p) ==
  /\ pc[p] # "idle"
  /\ Rest(p)
  /\ UNCHANGED rowVars

----------------------------------------------------------------------------

Less(n) == IF n = 0 THEN 0 ELSE n - 1

\* A tick passes; a publish remembers at most that its timeout has passed.
Tick ==
  /\ event' = [e \in Event |-> [event[e] EXCEPT !.lease = Less(@),
                                                !.delay = Less(@)]]
  /\ lease' = [p \in Dispatcher |-> Less(lease[p])]
  /\ elapsed' = [p \in Dispatcher |->
                   IF pc[p] = "publish" /\ elapsed[p] < PublishTimeout
                     THEN elapsed[p] + 1 ELSE elapsed[p]]
  /\ UNCHANGED <<sent, pc, batch, tries, expired, current, verdict>>

Init ==
  /\ event = [e \in Event |-> [status |-> "PENDING", attempts |-> 0,
                               lockId |-> NoWorker, lease |-> 0, delay |-> 0]]
  /\ sent = [e \in Event |-> 0]
  /\ pc = [p \in Dispatcher |-> "idle"]
  /\ batch = [p \in Dispatcher |-> {}]
  /\ tries = [p \in Dispatcher |-> [e \in Event |-> 0]]
  /\ expired = [p \in Dispatcher |-> {}]
  /\ lease = [p \in Dispatcher |-> 0]
  /\ elapsed = [p \in Dispatcher |-> 0]
  /\ current = [p \in Dispatcher |-> NoEvent]
  /\ verdict = [p \in Dispatcher |-> "none"]

\* What a live process does next.
Cycle(p) ==
  \/ SelectBatch(p) \/ CommitClaim(p) \/ ClaimFails(p)
  \/ Publish(p) \/ Mark(p) \/ MarkFails(p)

Next == Tick \/ \E p \in Dispatcher : Cycle(p) \/ Crash(p)

Spec == Init /\ [][Next]_vars

\* Time passes; a process that is up, or comes up again, keeps cycling; and
\* the database does not refuse for ever every claim that found something to do.
CommitWork(p) == CommitClaim(p) /\ batch[p] \cup expired[p] # {}

Fairness ==
  /\ WF_vars(Tick)
  /\ \A p \in Dispatcher : WF_vars(Cycle(p)) /\ SF_vars(CommitWork(p))

FairSpec == Spec /\ Fairness

(***************************************************************************)
(* Properties.                                                             *)
(***************************************************************************)

Statuses == {"PENDING", "PROCESSING", "PUBLISHED", "FAILED"}

\* Type invariant of the rows and the processes.
TypeOK ==
  /\ event \in [Event -> [status: Statuses, attempts: Nat,
                          lockId: WorkerName \cup {NoWorker},
                          lease: 0..LeaseDuration, delay: 0..MaxBackoff]]
  /\ sent \in [Event -> Nat]
  /\ pc \in [Dispatcher -> {"idle", "claim", "publish", "mark"}]
  /\ batch \in [Dispatcher -> SUBSET Event]
  /\ tries \in [Dispatcher -> [Event -> Nat]]
  /\ expired \in [Dispatcher -> SUBSET Event]
  /\ lease \in [Dispatcher -> 0..LeaseDuration]
  /\ elapsed \in [Dispatcher -> 0..PublishTimeout]
  /\ current \in [Dispatcher -> Event \cup {NoEvent}]
  /\ verdict \in [Dispatcher -> {"none", "PENDING", "PUBLISHED", "FAILED"}]

\* Duplicates are bounded: an event reaches the topic at most once per claim,
\* and is claimed at most MaxAttempts times, through crashes, stalls, lost
\* answers and takeovers.  outbox_dispatch_store.py:67-73.
CopiesWithinBudget ==
  \A e \in Event : sent[e] <= event[e].attempts
                   /\ event[e].attempts <= MaxAttempts

\* Two processes never hold the same claim of a row: the number of attempts
\* tells a claim from the one that took it over, as only row locks ensure.
\* outbox_dispatch_store.py:149-179.
Holds(p, e) == pc[p] \in {"publish", "mark"} /\ e \in batch[p]
ClaimsAreExclusive ==
  \A p, q \in Dispatcher, e \in Event :
    p # q /\ Holds(p, e) /\ Holds(q, e) => tries[p][e] # tries[q][e]

\* An event that waits can still be claimed: no sequence of claims, failures
\* and takeovers queues a row whose attempts are used up, where no claim and
\* no clean-up would ever find it.  outbox_dispatch_store.py:156-172.
WaitingIsClaimable ==
  \A e \in Event : event[e].status = "PENDING" => event[e].attempts < MaxAttempts

\* A worker settles a row only under the claim it holds: one that was taken
\* over while it was publishing changes nothing.
\* outbox_dispatch_store.py:203-225.
SettledUnderOwnClaim ==
  \A p \in Dispatcher :
    pc[p] = "mark" /\ event[current[p]].status = "PROCESSING"
                   /\ event'[current[p]].status # "PROCESSING"
                   /\ pc'[p] # "mark"
      => tries[p][current[p]] = event[current[p]].attempts
SettlesOwnClaim == [][SettledUnderOwnClaim]_vars

\* The detailed dispatchers implement the contract of the outbox.
Settled(e) == CASE event[e].status = "PUBLISHED" -> "published"
                [] event[e].status = "FAILED" -> "failed"
                [] OTHER -> "open"

Contract == INSTANCE AtLeastOnce WITH
  settled <- [e \in Event |-> Settled(e)], copies <- sent

\* Safety part: what is marked published reached the topic, and what is
\* settled stays so.
ImplementsAtLeastOnce == Contract!Spec

\* With its liveness: every event is settled in the end.
DeliversAtLeastOnce == Contract!FairSpec

\* A row the mapper rejects does not keep others from being settled.
CleanEventsSettle ==
  \A e \in Event \ Dirty : <>(Settled(e) # "open")

(***************************************************************************)
(* A process that keeps to its timeouts is never taken over: the batch     *)
(* fits into the lease.                                                    *)
(***************************************************************************)

\* Mutation: the publish has no timeout.
PublishUnbounded(p) == pc[p] \in {"claim", "mark"}

\* asyncio.timeout ends the publish; transactions take no time.
Late(p) ==
  \/ pc[p] \in {"claim", "mark"}
  \/ pc[p] = "publish" /\ elapsed[p] = PublishTimeout

PromptNext ==
  \/ Tick /\ \A p \in Dispatcher : ~Late(p)
  \/ \E p \in Dispatcher : Cycle(p) \/ Crash(p)

PromptSpec == Init /\ [][PromptNext]_vars

\* No two live processes have the same row to publish.
\* outbox_dispatcher.py:28-44.
NoOverlap ==
  \A p, q \in Dispatcher, e \in Event : Holds(p, e) /\ Holds(q, e) => p = q
=============================================================================
