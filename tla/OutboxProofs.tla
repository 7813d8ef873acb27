---------------------------- MODULE OutboxProofs ----------------------------
(***************************************************************************)
(* The dispatchers of the outbox, for any number of processes and events:  *)
(* two of them never hold the same claim, no event reaches the topic more  *)
(* often than it was claimed, and they implement AtLeastOnce.  A claim is  *)
(* selected and committed under row locks (Selected), so its number of     *)
(* attempts is new to whoever holds an older claim of the row (Held); each *)
(* claim that may still publish is counted beside the copies that were     *)
(* sent (Budgeted).  If every process keeps to its timeouts, the lease of  *)
(* a row outlasts the rest of the batch (Leased), and no two processes     *)
(* have the same row to publish.                                           *)
(***************************************************************************)
EXTENDS MCOutboxDispatch, TLAPS, FiniteSetTheorems

\* Those who hold a claim of e and have not published it yet.
Unsent(e) == {p \in Dispatcher : Holds(p, e) /\ ~(pc[p] = "mark" /\ current[p] = e)}

\* The rows of a claim under way are locked, and are as they were selected.
Chosen(p) == batch[p] \cup expired[p]
LocksHold ==
  \A p, q \in Dispatcher :
    p # q /\ pc[p] = "claim" /\ pc[q] = "claim" => Chosen(p) \cap Chosen(q) = {}

\* What a claim found is still so when it commits.
SelectedBy(p) ==
  /\ \A e \in batch[p] : /\ tries[p][e] = event[e].attempts + 1
                         /\ event[e].attempts < MaxAttempts
                         /\ event[e].status \in {"PENDING", "PROCESSING"}
  /\ \A e \in expired[p] : /\ event[e].status = "PROCESSING"
                           /\ event[e].attempts >= MaxAttempts
Selected == \A p \in Dispatcher : pc[p] = "claim" => SelectedBy(p)

\* Who holds a row was its claimant at some time.
Held ==
  \A p \in Dispatcher, e \in Event : Holds(p, e) => tries[p][e] \in 1..event[e].attempts

\* What a process is about to write follows from the publish before it.
MarkingBy(p) ==
  /\ current[p] \in batch[p]
  /\ verdict[p] \in {"PENDING", "PUBLISHED", "FAILED"}
  /\ verdict[p] = "PUBLISHED" => sent[current[p]] > 0
  /\ verdict[p] = "PENDING" => tries[p][current[p]] < MaxAttempts
Marking == \A p \in Dispatcher : pc[p] = "mark" => MarkingBy(p)

\* A claim that may still publish counts like a copy.
Budgeted ==
  \A e \in Event : /\ sent[e] + Cardinality(Unsent(e)) <= event[e].attempts
                   /\ event[e].attempts <= MaxAttempts

\* The inductive invariant.
IInv == TypeOK /\ LocksHold /\ Selected /\ Held /\ Marking /\ ClaimsAreExclusive /\ Budgeted

----------------------------------------------------------------------------
(* Types.                                                                  *)

\* A row of outbox_events.
RowType == [status: Statuses, attempts: Nat, lockId: WorkerName \cup {NoWorker},
            lease: 0..LeaseDuration, delay: 0..MaxBackoff]

\* A constant of the configuration is a number.
LEMMA ConfigNat == /\ BatchSize \in Nat /\ MaxAttempts \in Nat \ {0} /\ PublishTimeout \in Nat \ {0}
                   /\ MaxBackoff \in Nat /\ LeaseDuration \in Nat
BY ConfigAssumption DEF ConfigAssumption

\* Going back to rest keeps the types of a process.
LEMMA RestType ==
  ASSUME TypeOK, NEW p \in Dispatcher, Rest(p), rowVars' = rowVars
  PROVE  TypeOK'
BY ConfigNat DEF TypeOK, Rest, rowVars

\* Selecting a batch keeps the types; a claim counts one attempt more.
LEMMA SelectType ==
  ASSUME TypeOK, NEW p \in Dispatcher, SelectBatch(p)
  PROVE  TypeOK'
<1>1. rowVars' = rowVars /\ elapsed' = elapsed /\ current' = current /\ verdict' = verdict
  BY DEF SelectBatch
<1>2. /\ pc' \in [Dispatcher -> {"idle", "claim", "publish", "mark"}]
      /\ lease' \in [Dispatcher -> 0..LeaseDuration]
  BY ConfigNat DEF SelectBatch, TypeOK
<1>3. PICK rows \in SUBSET Event :
        /\ batch' = [batch EXCEPT ![p] = rows]
        /\ tries' = [tries EXCEPT ![p] =
             [e \in Event |-> IF e \in rows THEN event[e].attempts + 1 ELSE 0]]
  BY DEF SelectBatch
<1>4. [e \in Event |-> IF e \in rows THEN event[e].attempts + 1 ELSE 0] \in [Event -> Nat]
  BY DEF TypeOK
<1>5. batch' \in [Dispatcher -> SUBSET Event] /\ tries' \in [Dispatcher -> [Event -> Nat]]
  BY <1>3, <1>4 DEF TypeOK
<1>6. expired' \in [Dispatcher -> SUBSET Event]
  BY DEF SelectBatch, TypeOK
<1> QED BY <1>1, <1>2, <1>5, <1>6 DEF TypeOK, rowVars

\* A row some of whose columns are written is a row.
LEMMA WrittenRow ==
  ASSUME NEW r \in RowType, NEW s \in Statuses, NEW a \in Nat,
         NEW w \in WorkerName \cup {NoWorker}, NEW l \in 0..LeaseDuration, NEW d \in 0..MaxBackoff
  PROVE  /\ [r EXCEPT !.status = s, !.attempts = a, !.lockId = w, !.lease = l] \in RowType
         /\ [r EXCEPT !.status = s, !.lockId = w, !.lease = l] \in RowType
         /\ [r EXCEPT !.status = s, !.lockId = w, !.lease = l, !.delay = d] \in RowType
BY DEF RowType

\* What a claim writes is a row.
LEMMA ClaimedRowType ==
  ASSUME TypeOK, NEW p \in Dispatcher, NEW e \in Event
  PROVE  ClaimedRow(p, e) \in RowType
<1> DEFINE r == event[e]
           a == tries[p][e]
           w == WorkerId[p]
           l == lease[p]
<1>1. r \in RowType /\ a \in Nat /\ l \in 0..LeaseDuration /\ w \in WorkerName \cup {NoWorker}
  BY IdentityAssumption DEF TypeOK, RowType, IdentityAssumption
<1>2. "PROCESSING" \in Statuses /\ "FAILED" \in Statuses /\ 0 \in 0..LeaseDuration
      /\ NoWorker \in WorkerName \cup {NoWorker}
  BY ConfigNat DEF Statuses
<1>3. ClaimedRow(p, e) = IF e \in batch[p]
          THEN [r EXCEPT !.status = "PROCESSING", !.attempts = a, !.lockId = w, !.lease = l]
        ELSE IF e \in expired[p]
          THEN [r EXCEPT !.status = "FAILED", !.lockId = NoWorker, !.lease = 0]
        ELSE r
  BY DEF ClaimedRow
<1> HIDE DEF r, a, w, l
<1>4. [r EXCEPT !.status = "PROCESSING", !.attempts = a, !.lockId = w, !.lease = l] \in RowType
  BY <1>1, <1>2 DEF RowType
<1>5. [r EXCEPT !.status = "FAILED", !.lockId = NoWorker, !.lease = 0] \in RowType
  BY <1>1, <1>2 DEF RowType
<1> QED BY <1>1, <1>3, <1>4, <1>5

\* Committing a claim keeps the types.
LEMMA CommitType ==
  ASSUME TypeOK, NEW p \in Dispatcher, CommitClaim(p)
  PROVE  TypeOK'
<1>1. event' \in [Event -> RowType] /\ sent' = sent
  BY ClaimedRowType DEF CommitClaim
<1>2. CASE Rest(p)
  BY <1>1, <1>2, ConfigNat DEF TypeOK, Rest, RowType
<1>3. CASE /\ batch[p] # {}
           /\ pc' = [pc EXCEPT ![p] = "publish"]
           /\ expired' = [expired EXCEPT ![p] = {}]
           /\ lease' = [lease EXCEPT ![p] = 0]
           /\ UNCHANGED <<batch, tries, elapsed, current, verdict>>
  BY <1>1, <1>3, ConfigNat DEF TypeOK, RowType
<1> QED BY <1>2, <1>3 DEF CommitClaim

\* Publishing keeps the types.
LEMMA PublishType ==
  ASSUME TypeOK, NEW p \in Dispatcher, Publish(p)
  PROVE  TypeOK'
<1>1. PICK e \in batch[p], ok, reached \in BOOLEAN :
        /\ sent' = [sent EXCEPT ![e] = IF reached THEN @ + 1 ELSE @]
        /\ current' = [current EXCEPT ![p] = e]
        /\ verdict' = [verdict EXCEPT ![p] = Verdict(ok, tries[p][e])]
  BY DEF Publish
<1>2. e \in Event
  BY DEF TypeOK
<1>3. sent' \in [Event -> Nat]
  BY <1>1, <1>2 DEF TypeOK
<1>4. Verdict(ok, tries[p][e]) \in {"none", "PENDING", "PUBLISHED", "FAILED"}
  BY DEF Verdict
<1>5. /\ pc' = [pc EXCEPT ![p] = "mark"] /\ elapsed' = [elapsed EXCEPT ![p] = 0]
      /\ UNCHANGED <<event, batch, tries, expired, lease>>
  BY DEF Publish
<1> QED BY <1>1, <1>2, <1>3, <1>4, <1>5, ConfigNat DEF TypeOK

\* What a mark writes is a row.
LEMMA MarkedRow ==
  ASSUME TypeOK, Marking, NEW p \in Dispatcher, Mark(p)
  PROVE  /\ current[p] \in Event /\ current[p] \in batch[p]
         /\ event' \in [Event -> RowType]
         /\ \A e \in Event \ {current[p]} : event'[e] = event[e]
         /\ event'[current[p]].status = verdict[p]
         /\ event'[current[p]].attempts = event[current[p]].attempts
         /\ event'[current[p]].lockId = NoWorker
<1>1. current[p] \in Event /\ current[p] \in batch[p] /\ verdict[p] \in Statuses
  BY DEF Mark, Marking, MarkingBy, TypeOK, Statuses
<1>2. PICK delay \in 0..MaxBackoff :
        event' = [event EXCEPT ![current[p]] = SettledRow(@, verdict[p], delay)]
  BY DEF Mark
<1> DEFINE s == verdict[p]
<1>3. s \in Statuses
  BY <1>1
<1> HIDE DEF s
<1>4. ASSUME NEW r \in RowType
      PROVE  /\ SettledRow(r, s, delay) \in RowType /\ SettledRow(r, s, delay).status = s
             /\ SettledRow(r, s, delay).attempts = r.attempts
             /\ SettledRow(r, s, delay).lockId = NoWorker
  <2> DEFINE d == IF s = "PENDING" THEN delay ELSE r.delay
  <2>1. SettledRow(r, s, delay) =
          [r EXCEPT !.status = s, !.lockId = NoWorker, !.lease = 0, !.delay = d]
    BY DEF SettledRow
  <2>2. d \in 0..MaxBackoff
    BY <1>4 DEF RowType
  <2> HIDE DEF d
  <2>3. 0 \in 0..LeaseDuration
    BY ConfigNat
  <2> QED BY <1>3, <1>4, <2>1, <2>2, <2>3 DEF RowType
<1>5. event \in [Event -> RowType]
  BY DEF TypeOK, RowType
<1>6. event' = [event EXCEPT ![current[p]] = SettledRow(@, s, delay)]
  BY <1>2 DEF s
<1>7. event' \in [Event -> RowType]
  BY <1>1, <1>4, <1>5, <1>6
<1>8. \A e \in Event \ {current[p]} : event'[e] = event[e]
  BY <1>1, <1>5, <1>6
<1>9. event'[current[p]] = SettledRow(event[current[p]], s, delay)
  BY <1>1, <1>5, <1>6
<1> QED BY <1>1, <1>4, <1>5, <1>7, <1>8, <1>9 DEF s

\* Settling a row keeps the types.
LEMMA MarkType ==
  ASSUME TypeOK, Marking, NEW p \in Dispatcher, Mark(p)
  PROVE  TypeOK'
<1>1. event' \in [Event -> RowType] /\ sent' = sent /\ current[p] \in Event
  BY MarkedRow DEF Mark
<1>2. CASE Rest(p)
  BY <1>1, <1>2, ConfigNat DEF TypeOK, Rest, RowType
<1>3. CASE /\ pc' = [pc EXCEPT ![p] = "publish"]
           /\ batch' = [batch EXCEPT ![p] = @ \ {current[p]}]
           /\ tries' = [tries EXCEPT ![p][current[p]] = 0]
           /\ current' = [current EXCEPT ![p] = NoEvent]
           /\ verdict' = [verdict EXCEPT ![p] = "none"]
           /\ UNCHANGED <<expired, lease, elapsed>>
  <2>1. tries' \in [Dispatcher -> [Event -> Nat]]
    BY <1>1, <1>3 DEF TypeOK
  <2>2. batch' \in [Dispatcher -> SUBSET Event]
    BY <1>3 DEF TypeOK
  <2> QED BY <1>1, <1>3, <2>1, <2>2 DEF TypeOK, RowType
<1> QED BY <1>2, <1>3 DEF Mark

\* A tick changes no status, no attempts and no lock.
LEMMA TickRows ==
  ASSUME TypeOK, Tick
  PROVE  /\ event' \in [Event -> RowType]
         /\ \A e \in Event : /\ event'[e].status = event[e].status
                             /\ event'[e].attempts = event[e].attempts
                             /\ event'[e].lockId = event[e].lockId
<1> DEFINE Later(e) == [event[e] EXCEPT !.lease = Less(@), !.delay = Less(@)]
<1>1. ASSUME NEW e \in Event
      PROVE  /\ Later(e) \in RowType /\ Later(e).status = event[e].status
             /\ Later(e).attempts = event[e].attempts /\ Later(e).lockId = event[e].lockId
  <2>1. event[e] \in RowType
    BY DEF TypeOK, RowType
  <2>2. Less(event[e].lease) \in 0..LeaseDuration /\ Less(event[e].delay) \in 0..MaxBackoff
    BY <2>1, ConfigNat DEF RowType, Less
  <2> QED BY <2>1, <2>2 DEF RowType
<1>2. event' = [e \in Event |-> Later(e)]
  BY DEF Tick
<1> HIDE DEF Later
<1> QED BY <1>1, <1>2

\* Time keeps the types.
LEMMA TickType ==
  ASSUME TypeOK, Tick
  PROVE  TypeOK'
<1>1. event' \in [Event -> RowType]
  BY TickRows
<1>2. \A p \in Dispatcher : Less(lease[p]) \in 0..LeaseDuration
  <2>1. ASSUME NEW p \in Dispatcher PROVE Less(lease[p]) \in 0..LeaseDuration
    <3>1. lease[p] \in 0..LeaseDuration
      BY DEF TypeOK
    <3> QED BY <3>1, ConfigNat DEF Less
  <2> QED BY <2>1
<1>3. lease' \in [Dispatcher -> 0..LeaseDuration]
  BY <1>2 DEF Tick
<1>4. elapsed' \in [Dispatcher -> 0..PublishTimeout]
  <2>1. ASSUME NEW p \in Dispatcher
        PROVE  (IF pc[p] = "publish" /\ elapsed[p] < PublishTimeout
                  THEN elapsed[p] + 1 ELSE elapsed[p]) \in 0..PublishTimeout
    <3>1. elapsed[p] \in 0..PublishTimeout
      BY DEF TypeOK
    <3> QED BY <3>1, ConfigNat
  <2> QED BY <2>1 DEF Tick
<1>5. UNCHANGED <<sent, pc, batch, tries, expired, current, verdict>>
  BY DEF Tick
<1> QED BY <1>1, <1>3, <1>4, <1>5 DEF TypeOK, RowType

----------------------------------------------------------------------------
(* The invariant.  A step is one of a process, and the others are as before. *)

\* Nothing of q changes but what is left of its times.
AsBefore(q) ==
  /\ pc'[q] = pc[q] /\ batch'[q] = batch[q] /\ tries'[q] = tries[q]
  /\ expired'[q] = expired[q] /\ current'[q] = current[q] /\ verdict'[q] = verdict[q]

\* A step of one process leaves the others as they are.
LEMMA OthersAsBefore ==
  ASSUME TypeOK, NEW p \in Dispatcher, Cycle(p) \/ Crash(p), NEW q \in Dispatcher, q # p
  PROVE  AsBefore(q)
<1>1. CASE Rest(p)
  BY <1>1 DEF Rest, AsBefore, TypeOK
<1>2. CASE SelectBatch(p)
  <2>1. PICK rows, t : batch' = [batch EXCEPT ![p] = rows] /\ tries' = [tries EXCEPT ![p] = t]
    BY <1>2 DEF SelectBatch
  <2> QED BY <1>2, <2>1 DEF SelectBatch, AsBefore, TypeOK
<1>3. CASE CommitClaim(p)
  BY <1>1, <1>3 DEF CommitClaim, AsBefore, TypeOK
<1>4. CASE Publish(p)
  <2>1. PICK e, v : current' = [current EXCEPT ![p] = e] /\ verdict' = [verdict EXCEPT ![p] = v]
    BY <1>4 DEF Publish
  <2> QED BY <1>4, <2>1 DEF Publish, AsBefore, TypeOK
<1>5. CASE Mark(p)
  BY <1>1, <1>5 DEF Mark, AsBefore, TypeOK
<1> QED BY <1>1, <1>2, <1>3, <1>4, <1>5 DEF Cycle, Crash, ClaimFails, MarkFails

\* Who has not published yet are finitely many, and fewer count less.
LEMMA UnsentCount ==
  ASSUME NEW e \in Event
  PROVE  /\ IsFiniteSet(Unsent(e)) /\ Cardinality(Unsent(e)) \in Nat
         /\ IsFiniteSet(Unsent(e)') /\ Cardinality(Unsent(e)') \in Nat
         /\ Unsent(e)' \subseteq Unsent(e) => Cardinality(Unsent(e)') <= Cardinality(Unsent(e))
<1>1. IsFiniteSet(Dispatcher)
  BY IdentityAssumption DEF IdentityAssumption
<1>2. IsFiniteSet(Unsent(e)) /\ IsFiniteSet(Unsent(e)')
  BY <1>1, FS_Subset DEF Unsent
<1> QED BY <1>2, FS_Subset, FS_CardinalityType

\* A process that drops what it had, or selects, disturbs nobody.
LEMMA Withdrawn ==
  ASSUME IInv, NEW p \in Dispatcher, Cycle(p) \/ Crash(p), rowVars' = rowVars,
         pc'[p] \in {"idle", "claim"}, pc'[p] = "claim" => SelectBatch(p)
  PROVE  (LocksHold /\ Selected /\ Held /\ Marking /\ ClaimsAreExclusive /\ Budgeted)'
<1>1. \A q \in Dispatcher \ {p} : AsBefore(q)
  BY OthersAsBefore DEF IInv
<1>2. event' = event /\ sent' = sent
  BY DEF rowVars
<1>3. \A q \in Dispatcher, e \in Event : Holds(q, e)' => q # p /\ Holds(q, e)
  BY <1>1 DEF Holds, AsBefore
<1>4. ASSUME pc'[p] = "claim"
      PROVE  LocksHold' /\ Selected'
  <2>0. SelectBatch(p)
    BY <1>4
  <2> DEFINE dead == {e \in Event : Exhausted(e)}
             free == {e \in Event : Claimable(e)} \ Locked
  <2>1. PICK rows \in SUBSET free :
          /\ batch' = [batch EXCEPT ![p] = rows]
          /\ tries' = [tries EXCEPT ![p] =
               [e \in Event |-> IF e \in rows THEN event[e].attempts + 1 ELSE 0]]
    BY <2>0 DEF SelectBatch
  <2>2. dead \cap Locked = {} /\ expired' = [expired EXCEPT ![p] = dead]
    BY <2>0 DEF SelectBatch
  <2>3. batch'[p] = rows /\ expired'[p] = dead
        /\ \A e \in rows : tries'[p][e] = event[e].attempts + 1
    BY <2>1, <2>2 DEF IInv, TypeOK
  <2>4. \A q \in Dispatcher \ {p} : pc[q] = "claim" => Chosen(q) \subseteq Locked
    BY DEF Locked, Chosen
  <2>5. Chosen(p)' \cap Locked = {}
    BY <2>2, <2>3 DEF Chosen
  <2>6. LocksHold'
    BY <1>1, <2>4, <2>5 DEF IInv, LocksHold, AsBefore, Chosen
  <2>7. SelectedBy(p)'
    BY <1>2, <2>3 DEF SelectedBy, Claimable, PendingDue, StaleProcessing, Processing, Exhausted
  <2>8. Selected'
    BY <1>1, <1>2, <2>7 DEF IInv, Selected, SelectedBy, AsBefore
  <2> QED BY <2>6, <2>8
<1>5. ASSUME pc'[p] = "idle"
      PROVE  LocksHold' /\ Selected'
  <2>1. LocksHold'
    BY <1>1, <1>5 DEF IInv, LocksHold, AsBefore, Chosen
  <2>2. Selected'
    BY <1>1, <1>2, <1>5 DEF IInv, Selected, SelectedBy, AsBefore
  <2> QED BY <2>1, <2>2
<1>6. Held'
  BY <1>1, <1>2, <1>3 DEF IInv, Held, AsBefore
<1>7. Marking'
  BY <1>1, <1>2 DEF IInv, Marking, MarkingBy, AsBefore
<1>8. ClaimsAreExclusive'
  BY <1>1, <1>3 DEF IInv, ClaimsAreExclusive, AsBefore
<1>9. Budgeted'
  <2>1. ASSUME NEW e \in Event PROVE Unsent(e)' \subseteq Unsent(e)
    BY <1>1, <1>3 DEF Unsent, AsBefore
  <2>2. ASSUME NEW e \in Event
        PROVE  sent[e] + Cardinality(Unsent(e)') <= event[e].attempts
    <3>1. sent[e] \in Nat /\ event[e].attempts \in Nat
      BY DEF IInv, TypeOK
    <3> QED BY <2>1, <3>1, UnsentCount DEF IInv, Budgeted
  <2> QED BY <1>2, <2>2 DEF IInv, Budgeted
<1> QED BY <1>4, <1>5, <1>6, <1>7, <1>8, <1>9

\* A claim that commits has a number of attempts that nobody had before.
LEMMA CommitSafe ==
  ASSUME IInv, NEW p \in Dispatcher, CommitClaim(p)
  PROVE  (LocksHold /\ Selected /\ Held /\ Marking /\ ClaimsAreExclusive /\ Budgeted)'
<1>1. \A q \in Dispatcher \ {p} : AsBefore(q)
  BY OthersAsBefore DEF IInv, Cycle
<1>2. /\ pc'[p] \in {"idle", "publish"} /\ sent' = sent /\ pc[p] = "claim"
      /\ pc'[p] = "publish" => batch'[p] = batch[p] /\ tries'[p] = tries[p]
  BY DEF CommitClaim, Rest, IInv, TypeOK
<1>3. SelectedBy(p) /\ TypeOK /\ batch[p] \in SUBSET Event
  BY <1>2 DEF IInv, Selected, TypeOK
<1>4. ASSUME NEW e \in batch[p]
      PROVE  /\ event'[e].attempts = event[e].attempts + 1
             /\ tries[p][e] = event[e].attempts + 1
             /\ event[e].attempts + 1 <= MaxAttempts
  <2>1. e \in Event /\ event[e] \in RowType
    BY <1>3 DEF TypeOK, RowType
  <2>2. event'[e].attempts = tries[p][e]
    BY <2>1 DEF CommitClaim, ClaimedRow, RowType
  <2>3. event[e].attempts \in Nat
    BY <2>1 DEF RowType
  <2> QED BY <1>3, <2>2, <2>3, ConfigNat DEF SelectedBy
<1>5. ASSUME NEW e \in Event \ batch[p]
      PROVE  event'[e].attempts = event[e].attempts
  <2>1. event[e] \in RowType
    BY <1>3 DEF TypeOK, RowType
  <2> QED BY <2>1 DEF CommitClaim, ClaimedRow, RowType
<1>6. ASSUME NEW e \in Event, e \notin Chosen(p)
      PROVE  event'[e] = event[e]
  BY <1>6 DEF CommitClaim, ClaimedRow, Chosen
<1>7. \A e \in Event : event[e].attempts \in Nat /\ sent[e] \in Nat
  BY <1>3 DEF TypeOK
<1>8. LocksHold'
  BY <1>1, <1>2 DEF IInv, LocksHold, AsBefore, Chosen
<1>9. Selected'
  <2>1. ASSUME NEW q \in Dispatcher, pc'[q] = "claim" PROVE SelectedBy(q)'
    <3>1. q # p /\ AsBefore(q) /\ pc[q] = "claim"
      BY <1>1, <1>2, <2>1 DEF AsBefore
    <3>2. Chosen(q) \subseteq Event /\ Chosen(q) \cap Chosen(p) = {}
      BY <1>2, <1>3, <3>1 DEF IInv, LocksHold, TypeOK, Chosen
    <3>3. \A e \in Chosen(q) : event'[e] = event[e]
      BY <1>6, <3>2
    <3> QED BY <3>1, <3>3 DEF IInv, Selected, SelectedBy, AsBefore, Chosen
  <2> QED BY <2>1 DEF Selected
<1>10. \A q \in Dispatcher \ {p}, e \in Event :
         Holds(q, e)' => Holds(q, e) /\ tries'[q][e] = tries[q][e]
  BY <1>1 DEF Holds, AsBefore
<1>11. \A e \in Event : Holds(p, e)' => e \in batch[p] /\ tries'[p][e] = tries[p][e]
  BY <1>2 DEF Holds
<1>12. Held'
  <2>1. ASSUME NEW q \in Dispatcher, NEW e \in Event, Holds(q, e)'
        PROVE  tries'[q][e] \in 1..event'[e].attempts
    <3>1. CASE q = p
      BY <1>4, <1>7, <1>11, <2>1, <3>1
    <3>2. CASE q # p
      <4>1. tries'[q][e] \in 1..event[e].attempts
        BY <1>10, <2>1, <3>2 DEF IInv, Held
      <4> QED BY <1>4, <1>5, <1>7, <4>1
    <3> QED BY <3>1, <3>2
  <2> QED BY <2>1 DEF Held
<1>13. Marking'
  <2>1. ASSUME NEW q \in Dispatcher, pc'[q] = "mark" PROVE MarkingBy(q)'
    <3>1. q # p /\ AsBefore(q) /\ pc[q] = "mark"
      BY <1>1, <1>2, <2>1 DEF AsBefore
    <3> QED BY <1>2, <3>1 DEF IInv, Marking, MarkingBy, AsBefore
  <2> QED BY <2>1 DEF Marking
<1>14. ClaimsAreExclusive'
  <2>1. ASSUME NEW q \in Dispatcher, q # p, NEW e \in Event, Holds(p, e)', Holds(q, e)'
        PROVE  tries'[p][e] # tries'[q][e]
    <3>1. tries'[p][e] = event[e].attempts + 1
      BY <1>4, <1>11, <2>1
    <3>2. tries'[q][e] \in 1..event[e].attempts
      BY <1>10, <2>1 DEF IInv, Held
    <3> QED BY <1>7, <3>1, <3>2
  <2>2. ASSUME NEW q \in Dispatcher \ {p}, NEW r \in Dispatcher \ {p}, q # r,
               NEW e \in Event, Holds(q, e)', Holds(r, e)'
        PROVE  tries'[q][e] # tries'[r][e]
    BY <1>10, <2>2 DEF IInv, ClaimsAreExclusive
  <2> QED BY <2>1, <2>2 DEF ClaimsAreExclusive
<1>15. Budgeted'
  <2>1. ASSUME NEW e \in Event \ batch[p]
        PROVE  sent[e] + Cardinality(Unsent(e)') <= event'[e].attempts /\ event'[e].attempts <= MaxAttempts
    <3>1. Unsent(e)' \subseteq Unsent(e)
      BY <1>1, <1>10, <1>11 DEF Unsent, AsBefore
    <3> QED BY <1>5, <1>7, <3>1, UnsentCount DEF IInv, Budgeted
  <2>2. ASSUME NEW e \in batch[p]
        PROVE  sent[e] + Cardinality(Unsent(e)') <= event'[e].attempts /\ event'[e].attempts <= MaxAttempts
    <3>0. e \in Event
      BY <1>3
    <3>1. Unsent(e)' \subseteq Unsent(e) \cup {p}
      BY <1>1, <1>10, <3>0 DEF Unsent, AsBefore
    <3>2. p \notin Unsent(e)
      BY <1>2 DEF Unsent, Holds
    <3>3. /\ IsFiniteSet(Unsent(e) \cup {p})
          /\ Cardinality(Unsent(e) \cup {p}) = Cardinality(Unsent(e)) + 1
      BY <3>0, <3>2, UnsentCount, FS_AddElement
    <3>4. Cardinality(Unsent(e)') <= Cardinality(Unsent(e)) + 1
      BY <3>1, <3>3, FS_Subset
    <3>5. sent[e] + Cardinality(Unsent(e)) <= event[e].attempts
      BY <3>0 DEF IInv, Budgeted
    <3>6. Cardinality(Unsent(e)) \in Nat /\ Cardinality(Unsent(e)') \in Nat
      BY <3>0, UnsentCount
    <3> QED BY <1>4, <1>7, <3>0, <3>4, <3>5, <3>6
  <2> QED BY <1>2, <2>1, <2>2 DEF Budgeted
<1> QED BY <1>8, <1>9, <1>12, <1>13, <1>14, <1>15

\* A publish turns a claim that may still publish into at most one copy.
LEMMA PublishSafe ==
  ASSUME IInv, NEW p \in Dispatcher, Publish(p)
  PROVE  (LocksHold /\ Selected /\ Held /\ Marking /\ ClaimsAreExclusive /\ Budgeted)'
<1>1. \A q \in Dispatcher \ {p} : AsBefore(q)
  BY OthersAsBefore DEF IInv, Cycle
<1>2. TypeOK /\ pc[p] = "publish" /\ pc'[p] = "mark" /\ event' = event
      /\ batch' = batch /\ tries' = tries /\ expired' = expired
  BY DEF Publish, IInv, TypeOK
<1>3. PICK x \in batch[p], ok, reached \in BOOLEAN :
        /\ ok => reached
        /\ sent' = [sent EXCEPT ![x] = IF reached THEN @ + 1 ELSE @]
        /\ current' = [current EXCEPT ![p] = x]
        /\ verdict' = [verdict EXCEPT ![p] = Verdict(ok, tries[p][x])]
  BY DEF Publish
<1>4. x \in Event /\ current'[p] = x /\ verdict'[p] = Verdict(ok, tries[p][x])
  BY <1>2, <1>3 DEF TypeOK
<1>5. /\ \A e \in Event : sent[e] \in Nat /\ event[e].attempts \in Nat
      /\ \A e \in Event \ {x} : sent'[e] = sent[e]
      /\ sent'[x] = IF reached THEN sent[x] + 1 ELSE sent[x]
  BY <1>2, <1>3, <1>4 DEF TypeOK
<1>6. \A q \in Dispatcher, e \in Event : Holds(q, e)' => Holds(q, e)
  BY <1>1, <1>2 DEF Holds, AsBefore
<1>7. LocksHold' /\ Selected'
  BY <1>1, <1>2 DEF IInv, LocksHold, Selected, SelectedBy, AsBefore, Chosen
<1>8. Held' /\ ClaimsAreExclusive'
  BY <1>2, <1>6 DEF IInv, Held, ClaimsAreExclusive
<1>9. Marking'
  <2>1. MarkingBy(p)'
    BY <1>2, <1>3, <1>4, <1>5, ConfigNat DEF MarkingBy, Verdict, TypeOK
  <2>2. ASSUME NEW q \in Dispatcher \ {p}, pc'[q] = "mark" PROVE MarkingBy(q)'
    <3>1. AsBefore(q) /\ MarkingBy(q)
      BY <1>1, <2>2 DEF IInv, Marking, AsBefore
    <3>2. current[q] \in Event
      BY <1>2, <3>1 DEF MarkingBy, TypeOK
    <3>3. sent'[current[q]] >= sent[current[q]] /\ sent[current[q]] \in Nat
      BY <1>4, <1>5, <3>2
    <3>4. sent'[current[q]] \in Nat
      BY <1>4, <1>5, <3>2
    <3> QED BY <1>2, <3>1, <3>3, <3>4 DEF MarkingBy, AsBefore
  <2> QED BY <2>1, <2>2 DEF Marking
<1>10. Budgeted'
  <2>1. ASSUME NEW e \in Event \ {x} PROVE sent'[e] + Cardinality(Unsent(e)') <= event[e].attempts
    <3>1. Unsent(e)' \subseteq Unsent(e)
      BY <1>1, <1>2, <1>6 DEF Unsent, AsBefore
    <3> QED BY <1>5, <3>1, UnsentCount DEF IInv, Budgeted
  <2>2. sent'[x] + Cardinality(Unsent(x)') <= event[x].attempts
    <3>1. p \in Unsent(x)
      BY <1>2, <1>3 DEF Unsent, Holds
    <3>2. Unsent(x)' \subseteq Unsent(x) \ {p}
      BY <1>1, <1>2, <1>4, <1>6 DEF Unsent, AsBefore
    <3>3. /\ IsFiniteSet(Unsent(x) \ {p})
          /\ Cardinality(Unsent(x) \ {p}) = Cardinality(Unsent(x)) - 1
      BY <1>4, <3>1, UnsentCount, FS_RemoveElement
    <3>4. Cardinality(Unsent(x)') <= Cardinality(Unsent(x)) - 1
      BY <3>2, <3>3, FS_Subset
    <3>5. sent[x] + Cardinality(Unsent(x)) <= event[x].attempts
      BY <1>4 DEF IInv, Budgeted
    <3>6. Cardinality(Unsent(x)) \in Nat /\ Cardinality(Unsent(x)') \in Nat
      BY <1>4, UnsentCount
    <3>7. sent[x] \in Nat /\ event[x].attempts \in Nat /\ sent'[x] <= sent[x] + 1
      BY <1>4, <1>5
    <3>8. sent'[x] \in Nat
      BY <1>4, <1>5
    <3> QED BY <3>4, <3>5, <3>6, <3>7, <3>8
  <2> QED BY <1>2, <2>1, <2>2 DEF IInv, Budgeted
<1> QED BY <1>7, <1>8, <1>9, <1>10

\* A mark leaves the attempts of its row, and touches no locked one.
LEMMA MarkSafe ==
  ASSUME IInv, NEW p \in Dispatcher, Mark(p)
  PROVE  (LocksHold /\ Selected /\ Held /\ Marking /\ ClaimsAreExclusive /\ Budgeted)'
<1>1. \A q \in Dispatcher \ {p} : AsBefore(q)
  BY OthersAsBefore DEF IInv, Cycle
<1>2. /\ TypeOK /\ pc[p] = "mark" /\ sent' = sent /\ current[p] \in Event
      /\ \A e \in Event : event'[e].attempts = event[e].attempts
      /\ \A e \in Event \ {current[p]} : event'[e] = event[e]
  BY MarkedRow DEF Mark, IInv
<1>3. /\ pc'[p] \in {"idle", "publish"}
      /\ pc'[p] = "publish" => batch'[p] = batch[p] \ {current[p]}
      /\ pc'[p] = "publish" => \A e \in Event \ {current[p]} : tries'[p][e] = tries[p][e]
  <2>1. CASE Rest(p)
    BY <1>2, <2>1 DEF Rest, TypeOK
  <2>2. CASE ~Rest(p)
    <3>1. /\ pc' = [pc EXCEPT ![p] = "publish"]
          /\ batch' = [batch EXCEPT ![p] = @ \ {current[p]}]
          /\ tries' = [tries EXCEPT ![p][current[p]] = 0]
      BY <2>2 DEF Mark
    <3> QED BY <1>2, <3>1 DEF TypeOK
  <2> QED BY <2>1, <2>2
<1>4. \A q \in Dispatcher, e \in Event :
        Holds(q, e)' => /\ Holds(q, e) /\ tries'[q][e] = tries[q][e]
                        /\ q = p => pc'[q] = "publish" /\ e # current[p]
  BY <1>1, <1>2, <1>3 DEF Holds, AsBefore
<1>5. LocksHold'
  BY <1>1, <1>3 DEF IInv, LocksHold, AsBefore, Chosen
<1>6. Selected'
  <2>1. ASSUME NEW q \in Dispatcher, pc'[q] = "claim" PROVE SelectedBy(q)'
    <3>1. q # p /\ AsBefore(q) /\ pc[q] = "claim"
      BY <1>1, <1>3, <2>1 DEF AsBefore
    <3>2. Chosen(q) \subseteq Locked /\ Chosen(q) \subseteq Event
      BY <1>2, <3>1 DEF Locked, Chosen, TypeOK
    <3>3. \A e \in Chosen(q) : event'[e] = event[e]
      BY <1>2, <3>2 DEF Mark
    <3> QED BY <3>1, <3>3 DEF IInv, Selected, SelectedBy, AsBefore, Chosen
  <2> QED BY <2>1 DEF Selected
<1>7. Held' /\ ClaimsAreExclusive'
  <2>1. Held'
    BY <1>2, <1>4 DEF IInv, Held
  <2>2. ClaimsAreExclusive'
    BY <1>4 DEF IInv, ClaimsAreExclusive
  <2> QED BY <2>1, <2>2
<1>8. Marking'
  <2>1. ASSUME NEW q \in Dispatcher, pc'[q] = "mark" PROVE MarkingBy(q)'
    <3>1. q # p /\ AsBefore(q) /\ pc[q] = "mark"
      BY <1>1, <1>3, <2>1 DEF AsBefore
    <3> QED BY <1>2, <3>1 DEF IInv, Marking, MarkingBy, AsBefore
  <2> QED BY <2>1 DEF Marking
<1>9. Budgeted'
  <2>1. ASSUME NEW e \in Event PROVE Unsent(e)' \subseteq Unsent(e)
    BY <1>1, <1>4 DEF Unsent, AsBefore
  <2>2. ASSUME NEW e \in Event
        PROVE  sent[e] + Cardinality(Unsent(e)') <= event[e].attempts
    <3>1. sent[e] \in Nat /\ event[e].attempts \in Nat
      BY <1>2 DEF TypeOK
    <3> QED BY <2>1, <3>1, UnsentCount DEF IInv, Budgeted
  <2> QED BY <1>2, <2>2 DEF IInv, Budgeted
<1> QED BY <1>5, <1>6, <1>7, <1>8, <1>9

\* Time disturbs nothing of this.
LEMMA TickSafe ==
  ASSUME IInv, Tick
  PROVE  (LocksHold /\ Selected /\ Held /\ Marking /\ ClaimsAreExclusive /\ Budgeted)'
<1>1. /\ \A e \in Event : event'[e].status = event[e].status /\ event'[e].attempts = event[e].attempts
      /\ UNCHANGED <<sent, pc, batch, tries, expired, current, verdict>>
  BY TickRows DEF IInv, Tick
<1>2. \A q \in Dispatcher : batch[q] \subseteq Event /\ expired[q] \subseteq Event
  BY DEF IInv, TypeOK
<1>3. \A e \in Event : Unsent(e)' = Unsent(e)
  BY <1>1 DEF Unsent, Holds
<1>4. LocksHold'
  BY <1>1 DEF IInv, LocksHold, Chosen
<1>5. Selected'
  BY <1>1, <1>2 DEF IInv, Selected, SelectedBy
<1>6. Held' /\ ClaimsAreExclusive'
  BY <1>1 DEF IInv, Held, ClaimsAreExclusive, Holds
<1>7. Marking'
  BY <1>1 DEF IInv, Marking, MarkingBy
<1>8. Budgeted'
  BY <1>1, <1>3 DEF IInv, Budgeted
<1> QED BY <1>4, <1>5, <1>6, <1>7, <1>8

\* At the start nothing is claimed.
LEMMA InitSafe == Init => IInv
<1> SUFFICES ASSUME Init PROVE IInv
  OBVIOUS
<1>1. TypeOK
  BY ConfigNat DEF Init, TypeOK, Statuses
<1>2. \A p \in Dispatcher : pc[p] = "idle"
  BY DEF Init
<1>3. \A e \in Event : sent[e] = 0 /\ event[e].attempts = 0 /\ Unsent(e) = {}
  BY <1>2 DEF Init, Unsent, Holds
<1>4. LocksHold /\ Selected /\ Held /\ Marking /\ ClaimsAreExclusive
  BY <1>2 DEF LocksHold, Selected, Held, Marking, ClaimsAreExclusive, Holds
<1>5. Budgeted
  BY <1>3, ConfigNat, FS_EmptySet DEF Budgeted
<1> QED BY <1>1, <1>4, <1>5 DEF IInv

\* The invariant is inductive.
LEMMA StepSafe == IInv /\ [Next]_vars => IInv'
<1> SUFFICES ASSUME IInv, [Next]_vars PROVE IInv'
  OBVIOUS
<1>1. CASE UNCHANGED vars
  <2>1. \A e \in Event : Unsent(e)' = Unsent(e)
    BY <1>1 DEF vars, workerVars, Unsent, Holds
  <2> QED BY <1>1, <2>1 DEF vars, rowVars, workerVars, IInv, TypeOK, LocksHold, Chosen, Selected,
          SelectedBy, Held, Holds, Marking, MarkingBy, ClaimsAreExclusive, Budgeted
<1>2. CASE Tick
  BY <1>2, TickSafe, TickType DEF IInv
<1>3. ASSUME NEW p \in Dispatcher, Cycle(p) \/ Crash(p) PROVE IInv'
  <2>1. CASE Rest(p) /\ rowVars' = rowVars
    <3>1. pc'[p] = "idle"
      BY <2>1 DEF Rest, IInv, TypeOK
    <3> QED BY <1>3, <2>1, <3>1, Withdrawn, RestType DEF IInv
  <2>2. CASE SelectBatch(p)
    <3>1. pc'[p] = "claim" /\ rowVars' = rowVars
      BY <2>2 DEF SelectBatch, IInv, TypeOK, rowVars
    <3> QED BY <1>3, <2>2, <3>1, Withdrawn, SelectType DEF IInv
  <2>3. CASE CommitClaim(p)
    BY <2>3, CommitSafe, CommitType DEF IInv
  <2>4. CASE Publish(p)
    BY <2>4, PublishSafe, PublishType DEF IInv
  <2>5. CASE Mark(p)
    BY <2>5, MarkSafe, MarkType DEF IInv
  <2> QED BY <1>3, <2>1, <2>2, <2>3, <2>4, <2>5 DEF Cycle, Crash, ClaimFails, MarkFails, rowVars
<1> QED BY <1>1, <1>2, <1>3 DEF Next

----------------------------------------------------------------------------
(* What follows from it, whatever the ids of the workers.                  *)

\* The invariant holds of every reachable state, and with it the types.
THEOREM AlwaysTyped == Spec => []TypeOK
<1>1. Spec => []IInv
  BY InitSafe, StepSafe, PTL DEF Spec
<1>2. IInv => TypeOK
  BY DEF IInv
<1> QED BY <1>1, <1>2, PTL

\* No two processes hold the same claim of a row (row locks of claim_batch).
THEOREM AlwaysExclusive == Spec => []ClaimsAreExclusive
<1>1. Spec => []IInv
  BY InitSafe, StepSafe, PTL DEF Spec
<1>2. IInv => ClaimsAreExclusive
  BY DEF IInv
<1> QED BY <1>1, <1>2, PTL

\* An event reaches the topic at most once for each claim, and is claimed at most
\* MaxAttempts times.
THEOREM AlwaysWithinBudget == Spec => []CopiesWithinBudget
<1>1. Spec => []IInv
  BY InitSafe, StepSafe, PTL DEF Spec
<1>2. IInv => CopiesWithinBudget
  <2>1. ASSUME IInv, NEW e \in Event PROVE sent[e] <= event[e].attempts
    <3>1. sent[e] \in Nat /\ event[e].attempts \in Nat
      BY <2>1 DEF IInv, TypeOK
    <3> QED BY <2>1, <3>1, UnsentCount DEF IInv, Budgeted
  <2> QED BY <2>1 DEF IInv, Budgeted, CopiesWithinBudget
<1> QED BY <1>1, <1>2, PTL

\* Every step is one of the contract, or changes nothing of it.
LEMMA ContractStep ==
  ASSUME IInv, [Next]_vars
  PROVE  [Contract!Next]_(Contract!vars)
<1> DEFINE settlement == [e \in Event |-> Settled(e)]
<1>1. CASE UNCHANGED vars
  BY <1>1 DEF vars, rowVars, Contract!vars, Settled
<1>2. CASE Tick
  <2>1. settlement' = settlement
    BY <1>2, TickRows DEF IInv, Settled
  <2> QED BY <1>2, <2>1 DEF Tick, Contract!vars
<1>3. ASSUME NEW p \in Dispatcher, Cycle(p) \/ Crash(p)
      PROVE  [Contract!Next]_(Contract!vars)
  <2>1. CASE rowVars' = rowVars
    BY <2>1 DEF rowVars, Contract!vars, Settled
  <2>2. CASE CommitClaim(p)
    <3>1. sent' = sent /\ SelectedBy(p) /\ expired[p] \in SUBSET Event
          /\ batch[p] \cap expired[p] = {}
      <4>1. sent' = sent /\ SelectedBy(p) /\ expired[p] \in SUBSET Event /\ batch[p] \in SUBSET Event
        BY <2>2 DEF CommitClaim, IInv, Selected, TypeOK
      <4>2. \A e \in Event : event[e].attempts \in Nat
        BY DEF IInv, TypeOK
      <4> QED BY <4>1, <4>2, ConfigNat DEF SelectedBy
    <3>2. ASSUME NEW e \in Event
          PROVE  Settled(e)' = IF e \in expired[p] THEN "failed" ELSE Settled(e)
      <4>1. event[e] \in RowType /\ event'[e] = ClaimedRow(p, e)
        BY <2>2 DEF IInv, TypeOK, RowType, CommitClaim
      <4>2. CASE e \in batch[p]
        <5>1. event'[e].status = "PROCESSING"
          BY <4>1, <4>2 DEF ClaimedRow, RowType
        <5> QED BY <3>1, <4>2, <5>1 DEF Settled, SelectedBy
      <4>3. CASE e \in expired[p]
        <5>1. event'[e].status = "FAILED"
          BY <3>1, <4>1, <4>3 DEF ClaimedRow, RowType
        <5> QED BY <4>3, <5>1 DEF Settled
      <4>4. CASE e \notin batch[p] \cup expired[p]
        BY <4>1, <4>4 DEF ClaimedRow, Settled
      <4> QED BY <4>2, <4>3, <4>4
    <3>3. CASE expired[p] = {}
      BY <3>1, <3>2, <3>3 DEF Contract!vars
    <3>4. CASE expired[p] # {}
      <4>1. \A e \in expired[p] : settlement[e] = "open"
        BY <3>1 DEF SelectedBy, Settled
      <4>2. Contract!GiveUp(expired[p])
        BY <3>1, <3>2, <3>4, <4>1 DEF Contract!GiveUp
      <4> QED BY <3>1, <4>2 DEF Contract!Next
    <3> QED BY <3>3, <3>4
  <2>3. CASE Publish(p)
    <3>1. PICK x \in batch[p], reached \in BOOLEAN :
            sent' = [sent EXCEPT ![x] = IF reached THEN @ + 1 ELSE @]
      BY <2>3 DEF Publish
    <3>2. x \in Event /\ sent \in [Event -> Nat] /\ settlement' = settlement
      BY <2>3 DEF Publish, IInv, TypeOK, Settled
    <3>3. CASE reached
      <4>1. Contract!Send(x)
        BY <3>1, <3>2, <3>3 DEF Contract!Send
      <4> QED BY <3>2, <4>1 DEF Contract!Next
    <3>4. CASE ~reached
      BY <3>1, <3>2, <3>4 DEF Contract!vars
    <3> QED BY <3>3, <3>4
  <2>4. CASE Mark(p)
    <3>0. PICK x \in Event : x = current[p]
      BY <2>4, MarkedRow DEF IInv
    <3>1. /\ x \in Event /\ sent' = sent /\ event'[x].status = verdict[p]
          /\ \A e \in Event \ {x} : event'[e] = event[e]
      BY <2>4, <3>0, MarkedRow DEF IInv, Mark
    <3>2. Settled(x) = "open" /\ MarkingBy(p)
      BY <2>4, <3>0 DEF Mark, Owned, Processing, Settled, IInv, Marking
    <3>3. \A e \in Event \ {x} : Settled(e)' = Settled(e)
      BY <3>1 DEF Settled
    <3>4. CASE verdict[p] = "PENDING"
      <4>1. settlement' = settlement
        BY <3>1, <3>2, <3>3, <3>4 DEF Settled
      <4> QED BY <3>1, <4>1 DEF Contract!vars
    <3>5. CASE verdict[p] = "PUBLISHED"
      <4>1. Settled(x)' = "published"
        BY <3>1, <3>5 DEF Settled
      <4>2. settlement' = [settlement EXCEPT ![x] = "published"]
        BY <3>1, <3>3, <4>1
      <4>3. Contract!Settle(x)
        BY <3>0, <3>1, <3>2, <3>5, <4>2 DEF Contract!Settle, MarkingBy
      <4> QED BY <3>1, <4>3 DEF Contract!Next
    <3>6. CASE verdict[p] = "FAILED"
      <4>1. Settled(x)' = "failed"
        BY <3>1, <3>6 DEF Settled
      <4>2. Contract!GiveUp({x})
        BY <3>1, <3>2, <3>3, <4>1 DEF Contract!GiveUp
      <4> QED BY <3>1, <4>2 DEF Contract!Next
    <3> QED BY <3>2, <3>4, <3>5, <3>6 DEF MarkingBy
  <2> QED BY <1>3, <2>1, <2>2, <2>3, <2>4 DEF Cycle, Crash, ClaimFails, MarkFails, SelectBatch
<1> QED BY <1>1, <1>2, <1>3 DEF Next

\* The dispatchers implement the contract of the outbox: what is marked published
\* reached the topic, and what is settled stays so.
THEOREM AlwaysAtLeastOnce == Spec => ImplementsAtLeastOnce
<1>1. Spec => []IInv
  BY InitSafe, StepSafe, PTL DEF Spec
<1>2. Init => Contract!Init
  BY DEF Init, Contract!Init, Settled
<1>3. IInv /\ [Next]_vars => [Contract!Next]_(Contract!vars)
  BY ContractStep
<1> QED BY <1>1, <1>2, <1>3, PTL DEF Spec, ImplementsAtLeastOnce, Contract!Spec

----------------------------------------------------------------------------
(* What holds when no two processes share a worker id.                     *)

\* The WORKER_ID of every replica is its own.
OwnIds == \A p, q \in Dispatcher : WorkerId[p] = WorkerId[q] => p = q

\* Who finds its id in the lock of a row it holds, holds the last claim of it.
LockIsMine ==
  \A p \in Dispatcher, e \in Event :
    Holds(p, e) /\ Owned(p, e) => tries[p][e] = event[e].attempts

\* The invariant of processes with ids of their own.
DInv == IInv /\ LockIsMine /\ WaitingIsClaimable

\* The lock of a row changes hands only with its attempts.
LEMMA OwnStep ==
  ASSUME OwnIds, DInv, [Next]_vars
  PROVE  LockIsMine' /\ WaitingIsClaimable'
<1>0. IInv
  BY DEF DInv
<1>1. CASE UNCHANGED vars
  BY <1>1 DEF DInv, vars, rowVars, workerVars, LockIsMine, WaitingIsClaimable, Holds, Owned, Processing
<1>2. CASE Tick
  <2>1. \A e \in Event : /\ event'[e].status = event[e].status
                        /\ event'[e].attempts = event[e].attempts
                        /\ event'[e].lockId = event[e].lockId
    BY <1>0, <1>2, TickRows DEF IInv
  <2>2. UNCHANGED <<pc, batch, tries>>
    BY <1>2 DEF Tick
  <2> QED BY <2>1, <2>2 DEF DInv, LockIsMine, WaitingIsClaimable, Holds, Owned, Processing
<1>3. ASSUME NEW p \in Dispatcher, Cycle(p) \/ Crash(p)
      PROVE  LockIsMine' /\ WaitingIsClaimable'
  <2>1. \A q \in Dispatcher \ {p}, e \in Event :
          Holds(q, e)' => Holds(q, e) /\ tries'[q][e] = tries[q][e]
    BY <1>0, <1>3, OthersAsBefore DEF IInv, AsBefore, Holds
  <2>2. CASE event' = event /\ \A e \in Event : Holds(p, e)' => Holds(p, e) /\ tries'[p][e] = tries[p][e]
    <3>1. \A q \in Dispatcher, e \in Event :
            Holds(q, e)' => Holds(q, e) /\ tries'[q][e] = tries[q][e]
      BY <2>1, <2>2
    <3> QED BY <2>2, <3>1 DEF DInv, LockIsMine, WaitingIsClaimable, Owned, Processing
  <2>3. CASE Rest(p) /\ rowVars' = rowVars
    BY <1>0, <2>2, <2>3 DEF Rest, rowVars, IInv, TypeOK, Holds
  <2>4. CASE SelectBatch(p)
    BY <1>0, <2>2, <2>4 DEF SelectBatch, rowVars, IInv, TypeOK, Holds
  <2>5. CASE Publish(p)
    BY <1>0, <2>2, <2>5 DEF Publish, IInv, TypeOK, Holds
  <2>6. CASE CommitClaim(p)
    <3>1. /\ batch[p] \in SUBSET Event /\ SelectedBy(p)
          /\ \A e \in Event : Holds(p, e)' => e \in batch[p] /\ tries'[p][e] = tries[p][e]
      BY <1>0, <2>6 DEF CommitClaim, Rest, IInv, Selected, TypeOK, Holds
    <3>2. ASSUME NEW e \in batch[p]
          PROVE  /\ event'[e].status = "PROCESSING" /\ event'[e].lockId = WorkerId[p]
                 /\ event'[e].attempts = tries[p][e]
      <4>1. event[e] \in RowType
        BY <1>0, <3>1 DEF IInv, TypeOK, RowType
      <4> QED BY <2>6, <3>1, <4>1 DEF CommitClaim, ClaimedRow, RowType
    <3>3. ASSUME NEW e \in Event \ batch[p]
          PROVE  event'[e] = event[e] \/ event'[e].status = "FAILED"
      <4>1. event[e] \in RowType
        BY <1>0 DEF IInv, TypeOK, RowType
      <4> QED BY <2>6, <4>1 DEF CommitClaim, ClaimedRow, RowType
    <3>4. ASSUME NEW q \in Dispatcher, NEW e \in Event, Holds(q, e)', Owned(q, e)'
          PROVE  tries'[q][e] = event'[e].attempts
      <4>1. CASE e \in batch[p]
        <5>1. q = p
          BY <3>2, <3>4, <4>1 DEF OwnIds, Owned
        <5> QED BY <3>1, <3>2, <3>4, <4>1, <5>1
      <4>2. CASE e \notin batch[p]
        <5>1. q # p
          BY <3>1, <3>4, <4>2
        <5>2. event'[e] = event[e]
          BY <3>3, <3>4, <4>2 DEF Owned, Processing
        <5> QED BY <2>1, <3>4, <5>1, <5>2 DEF DInv, LockIsMine, Owned, Processing
      <4> QED BY <4>1, <4>2
    <3>5. LockIsMine'
      BY <3>4 DEF LockIsMine
    <3>6. WaitingIsClaimable'
      BY <3>2, <3>3 DEF DInv, WaitingIsClaimable
    <3> QED BY <3>5, <3>6
  <2>7. CASE Mark(p)
    <3>1. PICK x \in Event : x = current[p]
      BY <1>0, <2>7, MarkedRow DEF IInv
    <3>2. /\ x \in batch[p] /\ event'[x].status = verdict[p]
          /\ event'[x].attempts = event[x].attempts
          /\ \A e \in Event \ {x} : event'[e] = event[e]
      BY <1>0, <2>7, <3>1, MarkedRow DEF IInv
    <3>3. /\ MarkingBy(p) /\ tries[p][x] = event[x].attempts
      BY <1>0, <2>7, <3>1, <3>2 DEF Mark, IInv, Marking, DInv, LockIsMine, Holds
    <3>4. \A e \in Event : Holds(p, e)' => /\ e # x /\ Holds(p, e)
                                          /\ tries'[p][e] = tries[p][e]
      <4>1. CASE Rest(p)
        BY <1>0, <4>1 DEF Rest, IInv, TypeOK, Holds
      <4>2. CASE ~Rest(p)
        <5>1. /\ pc[p] = "mark" /\ pc' = [pc EXCEPT ![p] = "publish"]
              /\ batch' = [batch EXCEPT ![p] = @ \ {x}]
              /\ tries' = [tries EXCEPT ![p][x] = 0]
          BY <2>7, <3>1, <4>2 DEF Mark
        <5> QED BY <1>0, <5>1 DEF IInv, TypeOK, Holds
      <4> QED BY <4>1, <4>2
    <3>5. ~Processing(x)'
      BY <3>2, <3>3 DEF MarkingBy, Processing
    <3>6. ASSUME NEW q \in Dispatcher, NEW e \in Event, Holds(q, e)', Owned(q, e)'
          PROVE  tries'[q][e] = event'[e].attempts
      <4>1. e # x
        BY <3>5, <3>6 DEF Owned
      <4>2. Holds(q, e) /\ tries'[q][e] = tries[q][e] /\ event'[e] = event[e]
        BY <2>1, <3>2, <3>4, <3>6, <4>1
      <4> QED BY <3>6, <4>2 DEF DInv, LockIsMine, Owned, Processing
    <3>7. LockIsMine'
      BY <3>6 DEF LockIsMine
    <3>8. WaitingIsClaimable'
      BY <3>1, <3>2, <3>3 DEF DInv, WaitingIsClaimable, MarkingBy
    <3> QED BY <3>7, <3>8
  <2> QED BY <1>3, <2>3, <2>4, <2>5, <2>6, <2>7 DEF Cycle, Crash, ClaimFails, MarkFails, rowVars
<1> QED BY <1>1, <1>2, <1>3 DEF Next

\* With ids of their own the stronger invariant is inductive.
LEMMA OwnStart == Init => DInv
<1>1. Init => LockIsMine /\ WaitingIsClaimable
  BY ConfigNat DEF Init, LockIsMine, WaitingIsClaimable, Holds
<1> QED BY <1>1, InitSafe DEF DInv

LEMMA OwnInvariant ==
  ASSUME OwnIds  PROVE Spec => []DInv
<1>1. Init => DInv
  BY OwnStart
<1>2. DInv /\ [Next]_vars => DInv'
  BY OwnStep, StepSafe DEF DInv
<1> QED BY <1>1, <1>2, PTL DEF Spec

\* Processes with ids of their own queue no row whose attempts are used up.
THEOREM OwnIdsStrandNothing ==
  ASSUME OwnIds  PROVE Spec => []WaitingIsClaimable
<1>1. Spec => []DInv
  BY OwnInvariant
<1>2. DInv => WaitingIsClaimable
  BY DEF DInv
<1> QED BY <1>1, <1>2, PTL

LEMMA OwnSettlement ==
  ASSUME DInv, [Next]_vars  PROVE SettledUnderOwnClaim
<1>1. SUFFICES ASSUME NEW p \in Dispatcher, pc[p] = "mark", pc'[p] # "mark",
                      event'[current[p]].status # event[current[p]].status
               PROVE  tries[p][current[p]] = event[current[p]].attempts
  BY DEF SettledUnderOwnClaim
<1>2. IInv /\ TypeOK
  BY DEF DInv, IInv
<1>3. Cycle(p) \/ Crash(p)
  <2>1. \A q \in Dispatcher \ {p} : ~(Cycle(q) \/ Crash(q))
    BY <1>1, <1>2, OthersAsBefore DEF AsBefore
  <2>2. ~Tick /\ ~UNCHANGED vars
    BY <1>1 DEF Tick, vars, workerVars
  <2> QED BY <2>1, <2>2 DEF Next
<1>4. Mark(p)
  BY <1>1, <1>3 DEF Cycle, Crash, SelectBatch, CommitClaim, ClaimFails, Publish, MarkFails, rowVars
<1>5. current[p] \in batch[p] /\ current[p] \in Event
  BY <1>2, <1>4, MarkedRow DEF IInv
<1> QED BY <1>1, <1>4, <1>5 DEF DInv, LockIsMine, Mark, Holds

\* Processes with ids of their own settle a row only under the claim they hold.
THEOREM OwnIdsSettleOwnClaim ==
  ASSUME OwnIds  PROVE Spec => SettlesOwnClaim
<1>1. Spec => []DInv
  BY OwnInvariant
<1>2. DInv /\ [Next]_vars => [SettledUnderOwnClaim]_vars
  BY OwnSettlement
<1> QED BY <1>1, <1>2, PTL DEF Spec, SettlesOwnClaim

\* Every step of an instance keeps its setting, and is one of Next where ids are not
\* shared and one of PromptNext where timeouts are kept.
LEMMA SettingsAreSteps ==
  ASSUME [SettingNext]_<<vars, setting>>
  PROVE  /\ setting' = setting
         /\ setting # "shared" => [Next]_vars
         /\ setting = "prompt" => [PromptNext]_vars
<1>1. CASE UNCHANGED <<vars, setting>>
  BY <1>1
<1>2. CASE SettingNext
  BY <1>2 DEF SettingNext, Next, PromptNext
<1> QED BY <1>1, <1>2

LEMMA OwnSettings ==
  ASSUME WorkerId = DistinctIds
  PROVE  SettingSpec => [](setting # "shared" => DInv)
<1> DEFINE Kept == setting # "shared" => DInv
<1>0. OwnIds
  BY DEF OwnIds, DistinctIds
<1>1. SettingInit => Kept
  BY OwnStart DEF SettingInit
<1>2. Kept /\ [SettingNext]_<<vars, setting>> => Kept'
  <2> SUFFICES ASSUME DInv, [SettingNext]_<<vars, setting>>, setting # "shared" PROVE DInv'
    BY SettingsAreSteps
  <2> QED BY <1>0, SettingsAreSteps, OwnStep, StepSafe DEF DInv
<1> QED BY <1>1, <1>2, PTL DEF SettingSpec

\* In the settings without a shared id no row is queued with its attempts used up.
THEOREM OwnSettingsStrandNothing ==
  ASSUME WorkerId = DistinctIds  PROVE SettingSpec => []DistinctWaitingIsClaimable
<1>1. (setting # "shared" => DInv) => DistinctWaitingIsClaimable
  BY DEF DInv, DistinctWaitingIsClaimable
<1> QED BY <1>1, OwnSettings, PTL

\* In the settings without a shared id a row is settled only under the claim its worker
\* holds.
THEOREM OwnSettingsSettleOwnClaim ==
  ASSUME WorkerId = DistinctIds  PROVE SettingSpec => DistinctSettleOwnClaim
<1>1. (setting # "shared" => DInv) /\ [SettingNext]_<<vars, setting>> =>
        [setting # "shared" => SettledUnderOwnClaim]_<<vars, setting>>
  BY SettingsAreSteps, OwnSettlement
<1> QED BY <1>1, OwnSettings, PTL DEF SettingSpec, DistinctSettleOwnClaim
----------------------------------------------------------------------------
(* What holds when every process keeps to its timeouts, shared ids or not. *)

\* How many ticks the rows p still has to publish may take.
Left(p) ==
  (IF pc[p] = "publish" THEN Cardinality(batch[p]) ELSE Cardinality(batch[p]) - 1)
    * PublishTimeout

\* Transactions take no time, and a batch is no larger than configured.
Timely ==
  \A p \in Dispatcher :
    /\ pc[p] # "publish" => elapsed[p] = 0
    /\ pc[p] = "claim" => lease[p] = LeaseDuration
    /\ Cardinality(batch[p]) <= BatchSize

\* The lease of a held row outlasts what is left of the batch.
Leased ==
  \A p \in Dispatcher, e \in Event :
    Holds(p, e) => Processing(e) /\ event[e].lease + elapsed[p] > Left(p)

\* No claim under way takes a row from anyone.
Apart ==
  \A p, q \in Dispatcher : pc[p] = "claim" => \A e \in Chosen(p) : ~Holds(q, e)

\* The invariant of processes that keep to their timeouts.
PInv == IInv /\ Timely /\ Leased /\ Apart /\ NoOverlap

\* The batch of a process is finite, and removing a row counts one less.
LEMMA BatchCount ==
  ASSUME TypeOK, NEW p \in Dispatcher
  PROVE  /\ IsFiniteSet(batch[p]) /\ Cardinality(batch[p]) \in Nat
         /\ \A e \in batch[p] : /\ Cardinality(batch[p]) >= 1
                                /\ Cardinality(batch[p] \ {e}) = Cardinality(batch[p]) - 1
<1>1. batch[p] \in SUBSET Event /\ IsFiniteSet(Event)
  BY IdentityAssumption DEF TypeOK, IdentityAssumption
<1>2. IsFiniteSet(batch[p])
  BY <1>1, FS_Subset
<1>3. Cardinality(batch[p]) \in Nat
  BY <1>2, FS_CardinalityType
<1>4. ASSUME NEW e \in batch[p]
      PROVE  /\ Cardinality(batch[p]) >= 1
             /\ Cardinality(batch[p] \ {e}) = Cardinality(batch[p]) - 1
  <2>1. /\ IsFiniteSet(batch[p] \ {e})
        /\ Cardinality(batch[p] \ {e}) = Cardinality(batch[p]) - 1
    BY <1>2, <1>4, FS_RemoveElement
  <2>2. Cardinality(batch[p] \ {e}) \in Nat
    BY <2>1, FS_CardinalityType
  <2> QED BY <1>3, <2>1, <2>2
<1> QED BY <1>2, <1>3, <1>4

\* Publishing n rows takes PublishTimeout more than publishing one less.
LEMMA TimesPublish ==
  ASSUME NEW n \in Nat
  PROVE  /\ n * PublishTimeout \in Nat
         /\ n >= 1 => /\ (n - 1) * PublishTimeout \in Nat
                      /\ n * PublishTimeout = (n - 1) * PublishTimeout + PublishTimeout
         /\ n <= BatchSize => n * PublishTimeout < LeaseDuration
<1>1. PublishTimeout \in Nat /\ BatchSize \in Nat /\ LeaseDuration \in Nat
  BY ConfigNat
<1>2. n * PublishTimeout \in Nat
  BY <1>1
<1>3. n >= 1 => /\ (n - 1) * PublishTimeout \in Nat
                /\ n * PublishTimeout = (n - 1) * PublishTimeout + PublishTimeout
  BY <1>1
<1>4. n <= BatchSize => n * PublishTimeout <= BatchSize * PublishTimeout
  BY <1>1
<1>5. BatchSize * PublishTimeout < LeaseDuration /\ BatchSize * PublishTimeout \in Nat
  BY <1>1, ConfigAssumption DEF ConfigAssumption
<1> QED BY <1>1, <1>2, <1>3, <1>4, <1>5

\* What a claim that commits leaves in a row.
LEMMA CommittedRow ==
  ASSUME NEW p \in Dispatcher, CommitClaim(p), NEW e \in Event
  PROVE  event'[e] = ClaimedRow(p, e)
BY DEF CommitClaim

\* What a tick leaves in a row, and of the time a publish has taken.
LEMMA TickedTimes ==
  ASSUME TypeOK, Tick
  PROVE  /\ UNCHANGED <<pc, batch, expired>>
         /\ \A e \in Event : /\ event'[e].status = event[e].status
                             /\ event'[e].lease = Less(event[e].lease)
         /\ \A p \in Dispatcher :
              elapsed'[p] = IF pc[p] = "publish" /\ elapsed[p] < PublishTimeout
                              THEN elapsed[p] + 1 ELSE elapsed[p]
<1>1. ASSUME NEW e \in Event
      PROVE  event'[e].status = event[e].status /\ event'[e].lease = Less(event[e].lease)
  <2> DEFINE later == Less(event[e].lease)
             delay == Less(event[e].delay)
  <2>1. event[e] \in RowType
    BY DEF TypeOK, RowType
  <2>2. event'[e] = [event[e] EXCEPT !.lease = later, !.delay = delay]
    BY DEF Tick
  <2> HIDE DEF later, delay
  <2>3. event'[e].status = event[e].status /\ event'[e].lease = later
    BY <2>1, <2>2 DEF RowType
  <2> QED BY <2>3 DEF later
<1>2. ASSUME NEW p \in Dispatcher
      PROVE  elapsed'[p] = IF pc[p] = "publish" /\ elapsed[p] < PublishTimeout
                             THEN elapsed[p] + 1 ELSE elapsed[p]
  BY DEF Tick
<1>3. UNCHANGED <<pc, batch, expired>>
  BY DEF Tick
<1> QED BY <1>1, <1>2, <1>3

\* A row that is held is leased: no claim may take it.
LEMMA HeldIsLeased ==
  ASSUME PInv, NEW p \in Dispatcher, NEW e \in Event, Holds(p, e)
  PROVE  /\ Processing(e) /\ event[e].lease \in Nat /\ event[e].lease > 0
         /\ ~Claimable(e) /\ ~Exhausted(e)
<1>1. TypeOK /\ e \in batch[p] /\ pc[p] \in {"publish", "mark"}
  BY DEF PInv, IInv, Holds
<1>2. /\ Processing(e) /\ event[e].lease + elapsed[p] > Left(p)
      /\ event[e].lease \in Nat /\ elapsed[p] \in Nat /\ elapsed[p] <= PublishTimeout
  BY <1>1, ConfigNat DEF PInv, Leased, TypeOK
<1>3. event[e].lease > 0
  <2>1. CASE pc[p] = "publish"
    <3> DEFINE n == Cardinality(batch[p])
    <3>0. n \in Nat /\ n >= 1
      BY <1>1, BatchCount
    <3>1. Left(p) >= PublishTimeout /\ Left(p) \in Nat
      <4>1. Left(p) = n * PublishTimeout
        BY <2>1 DEF Left
      <4> HIDE DEF n
      <4>2. /\ n * PublishTimeout \in Nat /\ (n - 1) * PublishTimeout \in Nat
            /\ n * PublishTimeout = (n - 1) * PublishTimeout + PublishTimeout
        BY <3>0, TimesPublish
      <4> QED BY <4>1, <4>2, ConfigNat
    <3> QED BY <1>2, <3>1, ConfigNat
  <2>2. CASE pc[p] = "mark"
    <3>1. elapsed[p] = 0 /\ Left(p) \in Nat
      BY <1>1, <2>2, BatchCount, TimesPublish DEF Left, PInv, Timely
    <3> QED BY <1>2, <3>1
  <2> QED BY <1>1, <2>1, <2>2
<1> QED BY <1>2, <1>3 DEF Claimable, Exhausted, StaleProcessing, PendingDue, Processing

\* A step of one process leaves the others their times.
LEMMA OthersTimes ==
  ASSUME TypeOK, NEW p \in Dispatcher, Cycle(p) \/ Crash(p), NEW q \in Dispatcher, q # p
  PROVE  lease'[q] = lease[q] /\ elapsed'[q] = elapsed[q]
<1>1. CASE Rest(p)
  BY <1>1 DEF Rest, TypeOK
<1> QED BY <1>1 DEF Cycle, Crash, SelectBatch, CommitClaim, ClaimFails, Publish, Mark,
                    MarkFails, TypeOK

\* A step that changes no row another process holds leaves that one in time.
LEMMA OthersTimely ==
  ASSUME PInv, NEW p \in Dispatcher, Cycle(p) \/ Crash(p), NEW q \in Dispatcher, q # p
  PROVE  /\ pc'[q] # "publish" => elapsed'[q] = 0
         /\ pc'[q] = "claim" => lease'[q] = LeaseDuration
         /\ Cardinality(batch'[q]) <= BatchSize
         /\ \A e \in Event : Holds(q, e)' =>
              /\ Holds(q, e)
              /\ event'[e] = event[e] =>
                   Processing(e)' /\ event'[e].lease + elapsed'[q] > Left(q)'
<1>1. AsBefore(q) /\ lease'[q] = lease[q] /\ elapsed'[q] = elapsed[q]
  BY OthersAsBefore, OthersTimes DEF PInv, IInv
<1>2. Left(q)' = Left(q)
  BY <1>1 DEF Left, AsBefore
<1> QED BY <1>1, <1>2 DEF PInv, Timely, Leased, AsBefore, Holds, Processing

\* Going back to rest, or selecting rows that nobody holds.
LEMMA PromptWithdrawn ==
  ASSUME PInv, NEW p \in Dispatcher, Cycle(p) \/ Crash(p), rowVars' = rowVars,
         pc'[p] \in {"idle", "claim"}, pc'[p] = "claim" => SelectBatch(p),
         pc'[p] = "idle" => Rest(p)
  PROVE  (Timely /\ Leased /\ Apart /\ NoOverlap)'
<1>1. TypeOK /\ event' = event
  BY DEF PInv, IInv, rowVars
<1>2. \A q \in Dispatcher, e \in Event : Holds(q, e)' => q # p /\ Holds(q, e)
  BY OthersTimely DEF Holds
<1>3. /\ elapsed'[p] = 0
      /\ pc'[p] = "claim" => lease'[p] = LeaseDuration
      /\ Cardinality(batch'[p]) <= BatchSize
  <2>1. CASE pc'[p] = "idle"
    <3>1. elapsed'[p] = 0 /\ batch'[p] = {}
      BY <1>1, <2>1 DEF Rest, TypeOK
    <3> QED BY <2>1, <3>1, FS_EmptySet, ConfigNat
  <2>2. CASE pc'[p] = "claim"
    <3>1. PICK rows \in SUBSET Event :
            /\ Cardinality(rows) = IF Cardinality({e \in Event : Claimable(e)} \ Locked) < BatchSize
                                     THEN Cardinality({e \in Event : Claimable(e)} \ Locked)
                                     ELSE BatchSize
            /\ batch' = [batch EXCEPT ![p] = rows]
      BY <2>2 DEF SelectBatch
    <3>2. Cardinality({e \in Event : Claimable(e)} \ Locked) \in Nat
      <4>1. IsFiniteSet({e \in Event : Claimable(e)} \ Locked)
        BY IdentityAssumption, FS_Subset DEF IdentityAssumption
      <4> QED BY <4>1, FS_CardinalityType
    <3>3. Cardinality(batch'[p]) <= BatchSize
      BY <1>1, <3>1, <3>2, ConfigNat DEF TypeOK
    <3>4. lease'[p] = LeaseDuration /\ elapsed'[p] = 0
      BY <1>1, <2>2 DEF SelectBatch, PInv, Timely, TypeOK
    <3> QED BY <3>3, <3>4
  <2> QED BY <2>1, <2>2
<1>4. Timely'
  BY <1>3, OthersTimely DEF Timely
<1>5. Leased'
  BY <1>1, <1>2, OthersTimely DEF Leased
<1>6. ASSUME NEW r \in Dispatcher, NEW q \in Dispatcher, pc'[r] = "claim",
             NEW e \in Chosen(r)', Holds(q, e)'
      PROVE  FALSE
  <2>0. e \in Event
    <3>1. batch'[r] \subseteq Event /\ expired'[r] \subseteq Event
      BY SelectType, RestType, <1>1, OthersAsBefore, <1>6 DEF AsBefore, TypeOK
    <3> QED BY <1>6, <3>1 DEF Chosen
  <2>1. Holds(q, e)
    BY <1>2, <1>6, <2>0
  <2>2. CASE r = p
    <3>0. SelectBatch(p) /\ batch \in [Dispatcher -> SUBSET Event]
          /\ expired \in [Dispatcher -> SUBSET Event]
      BY <1>1, <1>6, <2>2 DEF TypeOK
    <3>1. Claimable(e) \/ Exhausted(e)
      <4>1. expired'[p] = {x \in Event : Exhausted(x)}
        BY <3>0 DEF SelectBatch
      <4>2. batch'[p] \subseteq {x \in Event : Claimable(x)}
        BY <3>0 DEF SelectBatch
      <4> QED BY <1>6, <2>2, <4>1, <4>2 DEF Chosen
    <3> QED BY <2>0, <2>1, <3>1, HeldIsLeased
  <2>3. CASE r # p
    <3>1. AsBefore(r)
      BY <1>1, <2>3, OthersAsBefore
    <3> QED BY <1>6, <2>1, <3>1 DEF PInv, Apart, AsBefore, Chosen
  <2> QED BY <2>2, <2>3
<1>7. Apart'
  BY <1>6 DEF Apart
<1>8. NoOverlap'
  BY <1>2 DEF PInv, NoOverlap
<1> QED BY <1>4, <1>5, <1>7, <1>8

\* A claim that commits leases its rows for the whole batch, and touches no row
\* of another.
LEMMA PromptCommit ==
  ASSUME PInv, NEW p \in Dispatcher, CommitClaim(p)
  PROVE  (Timely /\ Leased /\ Apart /\ NoOverlap)'
<1>1. /\ TypeOK /\ pc[p] = "claim" /\ elapsed[p] = 0 /\ lease[p] = LeaseDuration
      /\ Cycle(p) /\ batch[p] \in SUBSET Event
  BY DEF CommitClaim, PInv, IInv, Timely, Cycle, TypeOK
<1>2. /\ pc'[p] \in {"idle", "publish"} /\ elapsed'[p] = 0 /\ batch'[p] \in {batch[p], {}}
      /\ pc'[p] = "publish" => batch'[p] = batch[p]
  BY <1>1 DEF CommitClaim, Rest, TypeOK
<1>3. Cardinality(batch'[p]) <= BatchSize
  <2>1. Cardinality(batch[p]) <= BatchSize /\ Cardinality({}) <= BatchSize
    BY FS_EmptySet, ConfigNat DEF PInv, Timely
  <2> QED BY <1>2, <2>1
<1>4. Timely'
  BY <1>1, <1>2, <1>3, OthersTimely DEF Timely
<1>5. \A q \in Dispatcher, e \in Event : Holds(q, e) => e \notin Chosen(p)
  BY <1>1 DEF PInv, Apart
<1>6. ASSUME NEW e \in Event, e \notin Chosen(p)
      PROVE  event'[e] = event[e]
  BY <1>6, CommittedRow DEF ClaimedRow, Chosen
<1>7. \A e \in Event : Holds(p, e)' => pc'[p] = "publish" /\ e \in batch[p]
  BY <1>2 DEF Holds
<1>8. ASSUME NEW e \in Event, Holds(p, e)'
      PROVE  Processing(e)' /\ event'[e].lease + elapsed'[p] > Left(p)'
  <2>1. event[e] \in RowType /\ e \in batch[p] /\ pc'[p] = "publish" /\ batch'[p] = batch[p]
    BY <1>1, <1>2, <1>7, <1>8 DEF TypeOK, RowType
  <2>2. event'[e].status = "PROCESSING" /\ event'[e].lease = LeaseDuration
    <3>1. event'[e] = [event[e] EXCEPT !.status = "PROCESSING", !.attempts = tries[p][e],
                                       !.lockId = WorkerId[p], !.lease = lease[p]]
      BY <2>1, CommittedRow DEF ClaimedRow
    <3> QED BY <1>1, <2>1, <3>1 DEF RowType
  <2> DEFINE n == Cardinality(batch[p])
  <2>3. Left(p)' = n * PublishTimeout
    BY <2>1 DEF Left
  <2>4. n \in Nat /\ n <= BatchSize
    BY <1>1, BatchCount DEF PInv, Timely
  <2> HIDE DEF n
  <2>5. n * PublishTimeout < LeaseDuration
    BY <2>4, TimesPublish
  <2> QED BY <1>2, <2>2, <2>3, <2>5, ConfigNat DEF Processing
<1>9. Leased'
  <2>1. ASSUME NEW q \in Dispatcher, q # p, NEW e \in Event, Holds(q, e)'
        PROVE  Processing(e)' /\ event'[e].lease + elapsed'[q] > Left(q)'
    BY <1>1, <1>5, <1>6, <2>1, OthersTimely
  <2> QED BY <1>8, <2>1 DEF Leased
<1>10. ASSUME NEW r \in Dispatcher, NEW q \in Dispatcher, pc'[r] = "claim",
              NEW e \in Chosen(r)', Holds(q, e)'
       PROVE  FALSE
  <2>1. r # p
    BY <1>2, <1>10
  <2>2. AsBefore(r)
    BY <1>1, <2>1, OthersAsBefore
  <2>3. pc[r] = "claim" /\ e \in Chosen(r) /\ e \in Event
    BY <1>1, <1>10, <2>2 DEF AsBefore, Chosen, TypeOK
  <2>4. CASE q = p
    BY <1>1, <1>7, <1>10, <2>1, <2>3, <2>4 DEF PInv, IInv, LocksHold, Chosen
  <2>5. CASE q # p
    BY <1>1, <1>10, <2>3, <2>5, OthersTimely DEF PInv, Apart
  <2> QED BY <2>4, <2>5
<1>11. Apart'
  BY <1>10 DEF Apart
<1>12. NoOverlap'
  <2>1. \A q \in Dispatcher \ {p}, e \in Event : Holds(q, e)' => Holds(q, e) /\ e \notin batch[p]
    BY <1>1, <1>5, OthersTimely DEF Chosen
  <2> QED BY <1>7, <2>1 DEF PInv, NoOverlap
<1> QED BY <1>4, <1>9, <1>11, <1>12

\* A publish has taken at most its timeout.
LEMMA PromptPublish ==
  ASSUME PInv, NEW p \in Dispatcher, Publish(p)
  PROVE  (Timely /\ Leased /\ Apart /\ NoOverlap)'
<1>1. /\ TypeOK /\ Cycle(p) /\ pc[p] = "publish" /\ pc'[p] = "mark" /\ event' = event
      /\ batch' = batch /\ expired' = expired /\ elapsed'[p] = 0
  BY DEF Publish, PInv, IInv, Cycle, TypeOK
<1>2. \A q \in Dispatcher, e \in Event : Holds(q, e)' => Holds(q, e)
  BY <1>1, OthersTimely DEF Holds
<1>3. Timely'
  BY <1>1, OthersTimely DEF Timely, PInv
<1>4. ASSUME NEW e \in Event, Holds(p, e)'
      PROVE  Processing(e)' /\ event'[e].lease + elapsed'[p] > Left(p)'
  <2> DEFINE n == Cardinality(batch[p])
  <2>1. Left(p) = n * PublishTimeout /\ Left(p)' = (n - 1) * PublishTimeout
    BY <1>1 DEF Left
  <2>2. n \in Nat /\ n >= 1
    BY <1>1, <1>2, <1>4, BatchCount DEF Holds
  <2>3. /\ Processing(e) /\ event[e].lease + elapsed[p] > Left(p)
        /\ event[e].lease \in Nat /\ elapsed[p] \in Nat /\ elapsed[p] <= PublishTimeout
    BY <1>1, <1>2, <1>4, ConfigNat DEF PInv, Leased, TypeOK
  <2> HIDE DEF n
  <2>4. /\ n * PublishTimeout \in Nat /\ (n - 1) * PublishTimeout \in Nat
        /\ n * PublishTimeout = (n - 1) * PublishTimeout + PublishTimeout
    BY <2>2, TimesPublish
  <2> QED BY <1>1, <2>1, <2>3, <2>4, ConfigNat DEF Processing
<1>5. Leased'
  BY <1>1, <1>4, OthersTimely DEF Leased
<1>6. \A q \in Dispatcher : pc'[q] = "claim" => pc[q] = "claim"
  BY <1>1, OthersAsBefore DEF AsBefore
<1>7. Apart' /\ NoOverlap'
  <2>1. \A q \in Dispatcher : Chosen(q)' = Chosen(q) /\ Chosen(q) \subseteq Event
    BY <1>1 DEF Chosen, TypeOK
  <2> QED BY <1>2, <1>6, <2>1 DEF PInv, Apart, NoOverlap
<1> QED BY <1>3, <1>5, <1>7

\* A mark settles a row that nobody else holds.
LEMMA PromptMark ==
  ASSUME PInv, NEW p \in Dispatcher, Mark(p)
  PROVE  (Timely /\ Leased /\ Apart /\ NoOverlap)'
<1>0. TypeOK /\ Cycle(p) /\ pc[p] = "mark" /\ elapsed[p] = 0
  BY DEF Mark, PInv, IInv, Timely, Cycle
<1>1. PICK x \in Event : x = current[p]
  BY <1>0, MarkedRow DEF PInv, IInv
<1>2. x \in batch[p] /\ \A e \in Event \ {x} : event'[e] = event[e]
  BY <1>0, <1>1, MarkedRow DEF PInv, IInv
<1>3. /\ pc'[p] \in {"idle", "publish"} /\ elapsed'[p] = 0
      /\ pc'[p] = "publish" => batch'[p] = batch[p] \ {x}
      /\ pc'[p] = "idle" => batch'[p] = {}
  <2>1. CASE Rest(p)
    BY <1>0, <2>1 DEF Rest, TypeOK
  <2>2. CASE ~Rest(p)
    <3>1. /\ pc' = [pc EXCEPT ![p] = "publish"] /\ elapsed' = elapsed
          /\ batch' = [batch EXCEPT ![p] = @ \ {x}]
      BY <1>1, <2>2 DEF Mark
    <3> QED BY <1>0, <3>1 DEF TypeOK
  <2> QED BY <2>1, <2>2
<1>4. /\ Cardinality(batch[p] \ {x}) = Cardinality(batch[p]) - 1
      /\ Cardinality(batch[p]) \in Nat /\ Cardinality(batch[p]) <= BatchSize
  BY <1>0, <1>2, BatchCount DEF PInv, Timely
<1>5. Timely'
  <2>1. Cardinality(batch'[p]) <= BatchSize
    <3>1. CASE pc'[p] = "publish"
      <4>1. Cardinality(batch'[p]) = Cardinality(batch[p] \ {x})
        BY <1>3, <3>1
      <4> QED BY <1>4, <4>1, ConfigNat
    <3>2. CASE pc'[p] = "idle"
      <4>1. Cardinality(batch'[p]) = 0
        BY <1>3, <3>2, FS_EmptySet
      <4> QED BY <4>1, ConfigNat
    <3> QED BY <1>3, <3>1, <3>2
  <2> QED BY <1>0, <1>3, <2>1, OthersTimely DEF Timely
<1>6. \A e \in Event : Holds(p, e)' => pc'[p] = "publish" /\ e # x /\ Holds(p, e)
  BY <1>0, <1>3 DEF Holds
<1>7. \A q \in Dispatcher \ {p}, e \in Event : Holds(q, e)' => e # x /\ Holds(q, e)
  <2>1. Holds(p, x)
    BY <1>0, <1>2 DEF Holds
  <2> QED BY <1>0, <2>1, OthersTimely DEF PInv, NoOverlap
<1>8. Leased'
  <2>1. ASSUME NEW e \in Event, Holds(p, e)'
        PROVE  Processing(e)' /\ event'[e].lease + elapsed'[p] > Left(p)'
    <3>1. Left(p)' = Left(p)
      BY <1>0, <1>3, <1>4, <1>6, <2>1 DEF Left
    <3> QED BY <1>0, <1>2, <1>3, <1>6, <2>1, <3>1 DEF PInv, Leased, Processing
  <2>2. ASSUME NEW q \in Dispatcher \ {p}, NEW e \in Event, Holds(q, e)'
        PROVE  Processing(e)' /\ event'[e].lease + elapsed'[q] > Left(q)'
    BY <1>0, <1>2, <1>7, <2>2, OthersTimely
  <2> QED BY <2>1, <2>2 DEF Leased
<1>9. ASSUME NEW r \in Dispatcher, NEW q \in Dispatcher, pc'[r] = "claim",
             NEW e \in Chosen(r)', Holds(q, e)'
      PROVE  FALSE
  <2>1. r # p
    BY <1>3, <1>9
  <2>2. AsBefore(r)
    BY <1>0, <2>1, OthersAsBefore
  <2>3. pc[r] = "claim" /\ e \in Chosen(r) /\ e \in Event
    BY <1>0, <1>9, <2>2 DEF AsBefore, Chosen, TypeOK
  <2> QED BY <1>6, <1>7, <1>9, <2>3 DEF PInv, Apart
<1>10. Apart'
  BY <1>9 DEF Apart
<1>11. NoOverlap'
  BY <1>6, <1>7 DEF PInv, NoOverlap
<1> QED BY <1>5, <1>8, <1>10, <1>11

\* Time passes only while everybody is in time.
LEMMA PromptTick ==
  ASSUME PInv, Tick, \A p \in Dispatcher : ~Late(p)
  PROVE  (Timely /\ Leased /\ Apart /\ NoOverlap)'
<1>1. TypeOK /\ UNCHANGED <<pc, batch, expired>>
  BY TickedTimes DEF PInv, IInv
<1>2. ASSUME NEW p \in Dispatcher
      PROVE  /\ elapsed[p] \in 0..PublishTimeout
             /\ elapsed'[p] = IF pc[p] = "publish" /\ elapsed[p] < PublishTimeout
                                THEN elapsed[p] + 1 ELSE elapsed[p]
  BY <1>1, TickedTimes DEF TypeOK
<1>3. ASSUME NEW p \in Dispatcher
      PROVE  pc[p] \notin {"claim", "mark"} /\ (pc[p] = "publish" => elapsed[p] # PublishTimeout)
  BY DEF Late
<1>4. Timely'
  <2>1. ASSUME NEW p \in Dispatcher
        PROVE  (pc[p] # "publish" => elapsed'[p] = 0) /\ Cardinality(batch[p]) <= BatchSize
    BY <1>2 DEF PInv, Timely
  <2> QED BY <1>1, <1>3, <2>1 DEF Timely
<1>5. ASSUME NEW p \in Dispatcher, NEW e \in Event, Holds(p, e)'
      PROVE  Processing(e)' /\ event'[e].lease + elapsed'[p] > Left(p)'
  <2>1. Holds(p, e) /\ Left(p)' = Left(p) /\ pc[p] = "publish"
    BY <1>1, <1>3, <1>5 DEF Holds, Left
  <2>2. /\ Processing(e) /\ event[e].lease \in Nat /\ event[e].lease > 0
        /\ event[e].lease + elapsed[p] > Left(p)
    BY <2>1, HeldIsLeased DEF PInv, Leased
  <2>3. elapsed[p] \in Nat /\ elapsed[p] < PublishTimeout
    BY <1>3, <1>2, <2>1, ConfigNat
  <2>4. elapsed'[p] = elapsed[p] + 1
    BY <1>2, <2>1, <2>3
  <2>5. event'[e].status = event[e].status /\ event'[e].lease = event[e].lease - 1
    BY <1>1, <2>2, TickedTimes DEF Less
  <2>6. event[e].lease - 1 + (elapsed[p] + 1) = event[e].lease + elapsed[p]
    BY <2>2, <2>3
  <2> QED BY <2>1, <2>2, <2>4, <2>5, <2>6 DEF Processing
<1>6. Leased'
  BY <1>5 DEF Leased
<1>7. Apart' /\ NoOverlap'
  BY <1>1, <1>3 DEF PInv, Apart, NoOverlap, Holds
<1> QED BY <1>4, <1>6, <1>7

LEMMA PromptStart == Init => PInv
<1>1. Init => Timely /\ Leased /\ Apart /\ NoOverlap
  BY ConfigNat, FS_EmptySet DEF Init, Timely, Leased, Apart, NoOverlap, Holds
<1> QED BY <1>1, InitSafe DEF PInv

LEMMA PromptStep == ASSUME PInv, [PromptNext]_vars PROVE PInv'
<1>1. IInv'
  BY StepSafe DEF PInv, PromptNext, Next
<1>2. CASE UNCHANGED vars
  BY <1>1, <1>2 DEF vars, rowVars, workerVars, PInv, Timely, Leased, Apart, NoOverlap, Holds,
                    Left, Chosen, Processing
<1>3. CASE Tick /\ \A p \in Dispatcher : ~Late(p)
  BY <1>1, <1>3, PromptTick DEF PInv
<1>4. ASSUME NEW p \in Dispatcher, Cycle(p) \/ Crash(p)
      PROVE  PInv'
  <2>1. CASE Rest(p) /\ rowVars' = rowVars
    <3>1. pc'[p] = "idle"
      BY <2>1 DEF Rest, PInv, IInv, TypeOK
    <3> QED BY <1>1, <1>4, <2>1, <3>1, PromptWithdrawn DEF PInv
  <2>2. CASE SelectBatch(p)
    <3>1. pc'[p] = "claim" /\ rowVars' = rowVars
      BY <2>2 DEF SelectBatch, PInv, IInv, TypeOK, rowVars
    <3> QED BY <1>1, <1>4, <2>2, <3>1, PromptWithdrawn DEF PInv
  <2>3. CASE CommitClaim(p)
    BY <1>1, <2>3, PromptCommit DEF PInv
  <2>4. CASE Publish(p)
    BY <1>1, <2>4, PromptPublish DEF PInv
  <2>5. CASE Mark(p)
    BY <1>1, <2>5, PromptMark DEF PInv
  <2> QED BY <1>4, <2>1, <2>2, <2>3, <2>4, <2>5 DEF Cycle, Crash, ClaimFails, MarkFails, rowVars
<1> QED BY <1>2, <1>3, <1>4 DEF PromptNext

\* Processes that keep to their timeouts never have a row to publish in common,
\* with any number of them, of rows and of ids: the batch fits into the lease
\* (outbox_dispatcher.py:28-44).
THEOREM PromptNeverOverlap == SettingSpec => []PromptNeverOverlaps
<1> DEFINE Kept == setting = "prompt" => PInv
<1>1. SettingInit => Kept
  BY PromptStart DEF SettingInit
<1>2. Kept /\ [SettingNext]_<<vars, setting>> => Kept'
  BY SettingsAreSteps, PromptStep
<1>3. Kept => PromptNeverOverlaps
  BY DEF PInv, PromptNeverOverlaps
<1> QED BY <1>1, <1>2, <1>3, PTL DEF SettingSpec
=============================================================================
