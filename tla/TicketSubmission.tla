-------------------------- MODULE TicketSubmission --------------------------
(* From the report of one RCA to tickets in external systems.  Requests      *)
(* create a draft, decide it and submit it to targets, each as reads and one *)
(* commit at READ COMMITTED, repeated under their idempotency keys           *)
(* (TicketDraftApplicationService, TicketSubmissionApplicationService);      *)
(* consumers take the submission's event, call the target's gateway and      *)
(* record the result (TicketSubmissionRequestedMessageHandler), with every   *)
(* message delivered again until it is acknowledged, and perhaps later.      *)
EXTENDS Naturals, FiniteSets

CONSTANTS
  Requester,        \* requests, each of which may be repeated
  Inquiry,          \* what they may ask
  Target,           \* target systems
  Deduplicating,    \* targets that honour the Idempotency-Key header
  Submitter,        \* consumers of ticket_submission.requested
  WorkerName,       \* worker ids
  WorkerOf,         \* the worker id of each consumer
  MaxTickets        \* bound: tickets a target holds

Choice == {"APPROVED", "REJECTED"}
NoAsk == [kind |-> "none"]
ASSUME TicketAssumption ==
  /\ Deduplicating \subseteq Target
  /\ WorkerOf \in [Submitter -> WorkerName]
  /\ MaxTickets \in Nat \ {0}
  /\ \A a \in Inquiry : /\ a.kind \in {"create", "decide", "submit"}
                        /\ a.choice \in Choice /\ a.target \in Target
                        /\ a.expected \in 1..2

VARIABLES
  draft,         \* ticket_drafts: the row of this RCA
  submission,    \* ticket_submissions: the row of each target
  request,       \* the requests
  handling,      \* the consumers
  tickets,       \* external: tickets in each target
  settled        \* messages acknowledged, and messages dead-lettered
ticketVars == <<draft, submission, request, handling, tickets, settled>>

Serial == 1..MaxTickets
Ticket == [key : Target \cup Submitter, serial : Serial]
NoTicket == [key |-> "none", serial |-> 0]
NoResult == [status |-> "none", ticket |-> NoTicket, by |-> "none"]
NoDraft == [status |-> "none", created |-> NoAsk, decided |-> NoAsk]
NoSubmission == [status |-> "none", asked |-> NoAsk, result |-> NoResult]
NoWork == [step |-> "idle", target |-> "none", outcome |-> NoResult]

\* A draft that was approved earlier, under keys of others.
ApprovedBefore(a, b) == [status |-> "APPROVED", created |-> a, decided |-> b]

TicketInit ==
  /\ \/ draft = NoDraft
     \/ \E a, b \in Inquiry : a.kind = "create" /\ b.kind = "decide" /\ b.choice = "APPROVED"
                              /\ draft = ApprovedBefore(a, b)
  /\ submission = [t \in Target |-> NoSubmission]
  /\ request \in [Requester -> [ask : Inquiry, step : {"idle"}]]
  /\ handling = [c \in Submitter |-> NoWork]
  /\ tickets = [t \in Target |-> {}]
  /\ settled = [acked |-> {}, dead |-> {}]
----------------------------------------------------------------------------
\* The rows a request's key is looked up in.  A row keeps the key it was
\* written under and a hash of what was asked: here, all that was asked.
Version == IF draft.status = "DRAFT" THEN 1 ELSE 2
DraftAsks == {draft.created} \ {NoAsk}
DecisionAsks == {draft.decided} \ {NoAsk}
SubmissionAsks == {submission[t].asked : t \in Target} \ {NoAsk}
Recorded(kind) ==
  CASE kind = "create" -> DraftAsks
    [] kind = "decide" -> DecisionAsks
    [] kind = "submit" -> SubmissionAsks
KeyUsed(a) == \E b \in Recorded(a.kind) : b.key = a.key
SameRequest(a) == a \in Recorded(a.kind)

\* What the loads of a request find: nothing, something in the way that makes
\* it a conflict, or that it may go on.
Missing(a) == a.kind \in {"decide", "submit"} /\ draft.status = "none"
Unsuited(a) ==
  CASE a.kind = "create" -> draft.status # "none"
    [] a.kind = "decide" -> Version # a.expected
    [] a.kind = "submit" -> \/ draft.status # "APPROVED" \/ Version # a.expected
                            \/ submission[a.target].status # "none"
MayDecide(a) == a.kind = "decide" => draft.status = "DRAFT"

Turn(q, step) == request' = [request EXCEPT ![q].step = step]
Asked(q) == request[q].ask

\* A first request, or a repeat by a caller that was told of an error or of
\* nothing.
Inquire(q) ==
  /\ request[q].step \in {"idle", "done", "refused"}
  /\ Turn(q, "key")
  /\ UNCHANGED <<draft, submission, handling, tickets, settled>>

\* By idempotency key: a replay of the same request, or another use of its key.
LooksUpKey(q) ==
  /\ request[q].step = "key"
  /\ Turn(q, IF SameRequest(Asked(q)) THEN "done"
             ELSE IF KeyUsed(Asked(q)) THEN "refused" ELSE "load")
  /\ UNCHANGED <<draft, submission, handling, tickets, settled>>

Loads(q) ==
  /\ request[q].step = "load"
  /\ Turn(q, CASE Missing(Asked(q)) -> "refused"
               [] ~Missing(Asked(q)) /\ Unsuited(Asked(q)) -> "conflict"
               [] ~Missing(Asked(q)) /\ ~Unsuited(Asked(q)) ->
                    IF MayDecide(Asked(q)) THEN "save" ELSE "refused")
  /\ UNCHANGED <<draft, submission, handling, tickets, settled>>

\* The unique indexes and the conditional UPDATE, at the commit.
Storable(a) ==
  CASE a.kind = "create" -> draft.status = "none"
    [] a.kind = "decide" -> draft.status = "DRAFT" /\ Version = a.expected
    [] a.kind = "submit" -> submission[a.target].status = "none" /\ ~KeyUsed(a)

StoresDraft(a) ==
  /\ draft' = [draft EXCEPT !.status = "DRAFT", !.created = a]
  /\ UNCHANGED submission
StoresDecision(a) ==
  /\ draft' = [draft EXCEPT !.status = a.choice, !.decided = a]
  /\ UNCHANGED submission
StoresSubmission(a) ==
  /\ submission' = [submission EXCEPT ![a.target].status = "REQUESTED",
                                      ![a.target].asked = a]
  /\ UNCHANGED draft
Stored(a) ==
  \/ a.kind = "create" /\ StoresDraft(a)
  \/ a.kind = "decide" /\ StoresDecision(a)
  \/ a.kind = "submit" /\ StoresSubmission(a)

\* The row and its event are committed; the answer may be lost.
Saves(q) ==
  /\ request[q].step = "save"
  /\ Storable(Asked(q))
  /\ Stored(Asked(q))
  /\ Turn(q, "done") \/ Turn(q, "refused")
  /\ UNCHANGED <<handling, tickets, settled>>

Conflicts(q) ==
  /\ request[q].step = "save" /\ ~Storable(Asked(q))
  /\ Turn(q, "conflict")
  /\ UNCHANGED <<draft, submission, handling, tickets, settled>>

Recovers(q) ==
  /\ request[q].step = "conflict"
  /\ Turn(q, IF SameRequest(Asked(q)) THEN "done" ELSE "refused")
  /\ UNCHANGED <<draft, submission, handling, tickets, settled>>

\* The run has not succeeded, or its evidence is gone; a clock is behind; a
\* statement fails or the process dies.
Breaks(q) ==
  /\ request[q].step \in {"key", "load", "save", "conflict"}
  /\ Turn(q, "refused")
  /\ UNCHANGED <<draft, submission, handling, tickets, settled>>
----------------------------------------------------------------------------
Work(c, w) ==
  /\ handling' = [handling EXCEPT ![c] = w]
Holds(c, step) == handling[c].step = step
Aim(c) == handling[c].target

\* A consumer is given the event of a submission, for the first time or again,
\* and loads submission and draft in one transaction.  What does not fit the
\* rows is dead-lettered, what is final already is acknowledged.
Fitting(t) == draft.status = "APPROVED" /\ submission[t].asked.expected = Version
Take(c, t) ==
  /\ Holds(c, "idle") /\ submission[t].status # "none"
  /\ Work(c, [NoWork EXCEPT !.target = t,
       !.step = IF ~Fitting(t) THEN "dead"
                ELSE IF submission[t].status = "REQUESTED" THEN "call" ELSE "ack"])
  /\ UNCHANGED <<draft, submission, request, tickets, settled>>

\* The gateway is called with the event's id as Idempotency-Key.
\* Mutation: with a key of each consumer's own.
OwnKey(c) == c
GatewayKey(c) == Aim(c)
Answers(c, k) ==
  Work(c, [handling[c] EXCEPT !.step = "record",
             !.outcome = [status |-> "SUBMITTED", ticket |-> k, by |-> WorkerOf[c]]])
OwnTickets(c) == {k \in tickets[Aim(c)] : k.key = GatewayKey(c)}

\* External: the target opens a ticket, or answers with the one it has.
OpenTicket(c) ==
  /\ Holds(c, "call")
  /\ IF Aim(c) \in Deduplicating /\ OwnTickets(c) # {}
     THEN /\ \E k \in OwnTickets(c) : Answers(c, k) \/ Work(c, NoWork)
          /\ UNCHANGED tickets
     ELSE \E n \in Serial :
            LET k == [key |-> GatewayKey(c), serial |-> n] IN
            /\ \A x \in tickets[Aim(c)] : x.serial < n
            /\ tickets' = [tickets EXCEPT ![Aim(c)] = @ \cup {k}]
            /\ Answers(c, k) \/ Work(c, NoWork)     \* the answer is lost
  /\ UNCHANGED <<draft, submission, request, settled>>

\* External: a final refusal (a 4xx of a vendor, succeeded: false).
RefuseTicket(c) ==
  /\ Holds(c, "call")
  /\ ~(Aim(c) \in Deduplicating /\ OwnTickets(c) # {})
  /\ Work(c, [handling[c] EXCEPT !.step = "record",
       !.outcome = [status |-> "FAILED", ticket |-> NoTicket, by |-> WorkerOf[c]]])
  /\ UNCHANGED <<draft, submission, request, tickets, settled>>

\* Mutation: the result is written whatever the status of the row.
StillAny(t) == submission[t].status # "none"
StillRequested(t) == submission[t].status = "REQUESTED"

RecordResult(c) ==
  /\ Holds(c, "record") /\ StillRequested(Aim(c))
  /\ submission' = [submission EXCEPT ![Aim(c)].status = handling[c].outcome.status,
                                      ![Aim(c)].result = handling[c].outcome]
  /\ \/ Work(c, [handling[c] EXCEPT !.step = "ack"])
     \/ Work(c, NoWork)
  /\ UNCHANGED <<draft, request, tickets, settled>>

\* Somebody has recorded a result under the event's key: the same one is a
\* replay, another one a conflict, and the message comes again.
ResultIsThere(c) ==
  /\ Holds(c, "record") /\ ~StillRequested(Aim(c))
  /\ Work(c, IF submission[Aim(c)].result = handling[c].outcome
             THEN [handling[c] EXCEPT !.step = "ack"] ELSE NoWork)
  /\ UNCHANGED <<draft, submission, request, tickets, settled>>

Acknowledge(c) ==
  /\ Holds(c, "ack")
  /\ settled' = [settled EXCEPT !.acked = @ \cup {Aim(c)}]
  /\ Work(c, NoWork)
  /\ UNCHANGED <<draft, submission, request, tickets>>

DeadLetter(c) ==
  /\ Holds(c, "dead")
  /\ settled' = [settled EXCEPT !.dead = @ \cup {Aim(c)}]
  /\ Work(c, NoWork)
  /\ UNCHANGED <<draft, submission, request, tickets>>

\* A gateway error, a failed statement, a clock that reads earlier than
\* requested_at, a crash, a rebalance: the offset stays where it was.
Drop(c) ==
  /\ ~Holds(c, "idle")
  /\ Work(c, NoWork)
  /\ UNCHANGED <<draft, submission, request, tickets, settled>>

Serve(q) == Inquire(q) \/ LooksUpKey(q) \/ Loads(q) \/ Saves(q) \/ Conflicts(q)
            \/ Recovers(q) \/ Breaks(q)
Consume(c) ==
  \/ \E t \in Target : Take(c, t)
  \/ OpenTicket(c) \/ RefuseTicket(c) \/ RecordResult(c) \/ ResultIsThere(c)
  \/ Acknowledge(c) \/ DeadLetter(c) \/ Drop(c)
TicketNext == (\E q \in Requester : Serve(q)) \/ (\E c \in Submitter : Consume(c))
TicketSpec == TicketInit /\ [][TicketNext]_ticketVars

Redelivered(c, t) == Take(c, t) /\ t \notin settled.acked
GetsAnswer(c) == (OpenTicket(c) \/ RefuseTicket(c)) /\ handling'[c].step = "record"

\* The topic gives a message that nobody acknowledged to a consumer again and
\* again; gateway, database and process do not fail every time.
TicketFairness ==
  \A c \in Submitter :
    /\ \A t \in Target : SF_ticketVars(Redelivered(c, t))
    /\ SF_ticketVars(GetsAnswer(c))
    /\ SF_ticketVars(RecordResult(c))
----------------------------------------------------------------------------
Row == [status : {"none", "REQUESTED", "SUBMITTED", "FAILED"}, asked : Inquiry \cup {NoAsk},
        result : [status : {"none", "SUBMITTED", "FAILED"}, ticket : Ticket \cup {NoTicket},
                  by : WorkerName \cup {"none"}]]
TicketTypeOK ==
  /\ draft \in [status : {"none", "DRAFT"} \cup Choice, created : Inquiry \cup {NoAsk},
                decided : Inquiry \cup {NoAsk}]
  /\ submission \in [Target -> Row]
  /\ request \in [Requester -> [ask : Inquiry, step : {"idle", "key", "load", "save",
                                  "conflict", "done", "refused"}]]
  /\ handling \in [Submitter ->
       [step : {"idle", "call", "record", "ack", "dead"}, target : Target \cup {"none"},
        outcome : [status : {"none", "SUBMITTED", "FAILED"}, ticket : Ticket \cup {NoTicket},
                   by : WorkerName \cup {"none"}]]]
  /\ tickets \in [Target -> SUBSET Ticket]
  /\ settled \in [acked : SUBSET Target, dead : SUBSET Target]

\* Whoever was told its request is done finds it recorded as it was asked,
\* and no key stands for two submissions, through races, repeats and lost
\* answers.  ticket_draft_service.py:159-203, ticket_submission_service.py:138-159.
DoneIsRecorded ==
  /\ \A q \in Requester : request[q].step = "done" => SameRequest(Asked(q))
  /\ \A s, t \in Target : submission[s].status # "none" /\ submission[t].status # "none"
                          /\ submission[s].asked.key = submission[t].asked.key => s = t

\* A ticket is opened only for a draft that stands approved; a submission
\* marked SUBMITTED names a ticket of its target, and a target that honours
\* the idempotency key holds one ticket, however often the event is delivered.
\* ticket_submission_requested_handler.py:80-104, 152-175.
TicketsAreWarranted ==
  \A t \in Target :
    /\ tickets[t] # {} => draft.status = "APPROVED" /\ submission[t].status # "none"
    /\ submission[t].status = "SUBMITTED" => submission[t].result.ticket \in tickets[t]
    /\ t \in Deduplicating => Cardinality(tickets[t]) <= 1

\* A message is acknowledged only when its submission is final, and no event
\* the platform wrote itself ends as a dead letter.
\* ticket_submission_record_processor.py:85-123.
AcknowledgedIsFinal ==
  /\ \A t \in settled.acked : submission[t].status \in {"SUBMITTED", "FAILED"}
  /\ settled.dead = {}

\* All three at once.
TicketsAreAccounted == DoneIsRecorded /\ TicketsAreWarranted /\ AcknowledgedIsFinal

\* Every submission gets its result.
SubmissionsSettle ==
  \A t \in Target : submission[t].status = "REQUESTED" ~>
                    submission[t].status \in {"SUBMITTED", "FAILED"}

\* Decisions and results are final: the services implement the ledger.
Ledger == INSTANCE TicketLedger WITH
  LedgerTarget <- Target, LedgerTicket <- Ticket, NoLedgerTicket <- NoTicket,
  stage <- draft.status,
  result <- [t \in Target |-> submission[t].status],
  named <- [t \in Target |-> submission[t].result.ticket]
ImplementsLedger == Ledger!LedgerSpec
=============================================================================
