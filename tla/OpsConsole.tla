----------------------------- MODULE OpsConsole -----------------------------
(* The console of the operators: a page with one card, of an incident, a        *)
(* remediation plan or a ticket draft.  Its requests are answered in any order  *)
(* or not at all, a dialog that asks for confirmation stays open until its      *)
(* request succeeds, and other operators work on the same records.              *)
EXTENDS Naturals, Sequences, FiniteSets

LOCAL INSTANCE SequencesExt

CONSTANTS
  ConsoleRecord,   \* the records of the desk's kind there may be
  MostAsked,       \* bounds: requests the page makes,
  MostOthers       \* things others do

VARIABLES
  desk,      \* the kind of record
  past,      \* the platform: the status of each record at each of its versions
  card,      \* the record shown, at most one
  entered,   \* the id in the input field; incidents are opened from a list
  dialog,    \* what is to be confirmed
  flights,   \* requests under way
  asked,     \* how many there have been
  others,    \* how much others have done
  viewed,    \* versions of incidents that were shown
  changed    \* changes the page has brought about
consoleVars == <<desk, past, card, entered, dialog, flights, asked, others, viewed, changed>>

\* What may be done to a record in a status, and what it then is: the buttons of its card.
IncidentMoves ==
  {<<"rca", "OPEN", "ANALYZING">>, <<"resolve", "OPEN", "RESOLVED">>,
   <<"resolve", "ANALYZING", "RESOLVED">>, <<"close", "RESOLVED", "CLOSED">>}
PlanMoves ==
  {<<"approve", "DRAFT", "APPROVED">>, <<"reject", "DRAFT", "REJECTED">>,
   <<"execute", "APPROVED", "EXECUTING">>, <<"rollback", "SUCCEEDED", "ROLLING_BACK">>}
DraftMoves ==
  {<<"approve", "DRAFT", "APPROVED">>, <<"reject", "DRAFT", "REJECTED">>,
   <<"submit", "APPROVED", "APPROVED">>}
Moves == CASE desk = "incident" -> IncidentMoves [] desk = "plan" -> PlanMoves [] desk = "draft" -> DraftMoves
\* How an action that runs at the platform ends.
RunOutcomes ==
  {<<"EXECUTING", "SUCCEEDED">>, <<"EXECUTING", "FAILED">>,
   <<"ROLLING_BACK", "ROLLED_BACK">>, <<"ROLLING_BACK", "FAILED">>}
UnderWay(s) == \E e \in RunOutcomes : e[1] = s

Existing == {r \in ConsoleRecord : past[r] # <<>>}
Standing(r) == Last(past[r])
Snap(r, history) ==
  [id |-> r, named |-> r, status |-> Last(history), version |-> Len(history)]

RecordStatuses == UNION {{m[2], m[3]} : m \in Moves} \cup UNION {{e[1], e[2]} : e \in RunOutcomes}
Asks == {"load", "create"} \cup {m[1] : m \in Moves}
Cards == [id : ConsoleRecord, named : ConsoleRecord, status : RecordStatuses, version : 1..6]
ConsoleTypeOK ==
  /\ past \in [ConsoleRecord -> Seq(RecordStatuses)]
  /\ card \subseteq Cards /\ Cardinality(card) <= 1
  /\ entered \in ConsoleRecord \cup {"none"} /\ dialog \in Asks \cup {"none"} /\ asked \in 0..MostAsked /\ others \in 0..MostOthers
  /\ \A f \in flights : f.ask \in Asks /\ f.id \in ConsoleRecord /\ f.answer \subseteq Cards
  /\ viewed \subseteq ConsoleRecord \X (1..6)

ConsoleInit ==
  /\ past = [r \in ConsoleRecord |-> IF desk = "incident" THEN <<"OPEN">> ELSE <<>>]
  /\ card = {} /\ entered = "none" /\ dialog = "none"
  /\ flights = {} /\ asked = 0 /\ others = 0 /\ viewed = {} /\ changed = {}

----------------------------------------------------------------------------
(* The operator.  While a dialog is open nothing else can be clicked; beyond the *)
(* bound nothing is.                                                           *)

Clicks == dialog = "none" /\ asked < MostAsked

\* Every click is a request of its own, under a key of its own.
Send(ask, r, version) ==
  /\ asked < MostAsked /\ asked' = asked + 1
  /\ flights' = flights \cup {[n |-> asked + 1, ask |-> ask, id |-> r, at |-> version,
                              done |-> FALSE, answer |-> {}]}

EnterId(r) ==
  /\ Clicks /\ desk # "incident" /\ entered' = r
  /\ UNCHANGED <<desk, past, card, dialog, flights, asked, others, viewed, changed>>

LoadRecord(r) ==
  /\ Clicks /\ (desk = "incident" \/ r = entered) /\ Send("load", r, 0)
  /\ UNCHANGED <<desk, past, card, entered, dialog, others, viewed, changed>>

\* An analysis that was started from the page is answered: its run is put in the field of
\* the drafts, whatever is in it, and under an open dialog too.
RcaAnswers(r) ==
  /\ desk = "draft" /\ entered' = r
  /\ UNCHANGED <<desk, past, card, dialog, flights, asked, others, viewed, changed>>

\* A plan gets an id of its own, a draft has that of its run.
CreateRecord(r) ==
  /\ Clicks /\ desk # "incident" /\ (desk = "draft" => r = entered) /\ r \notin Existing
  /\ Send("create", r, 0)
  /\ UNCHANGED <<desk, past, card, entered, dialog, others, viewed, changed>>

\* The analysis of an incident is started at no version.
StartRca ==
  /\ Clicks /\ desk = "incident"
  /\ \E c \in card : c.status # "CLOSED" /\ Send("rca", c.id, 0)
  /\ UNCHANGED <<desk, past, card, entered, dialog, others, viewed, changed>>

\* The buttons of a card go by its status.
OpenDialog(ask) ==
  /\ Clicks /\ ask # "rca"
  /\ \E c \in card, m \in Moves : m[1] = ask /\ m[2] = c.status
  /\ dialog' = ask
  /\ UNCHANGED <<desk, past, card, entered, flights, asked, others, viewed, changed>>

\* The record is the card's for an incident and the field's for the others; the version
\* is the card's.  It may be confirmed again before the answer comes.
ChangeIncident == desk = "incident" /\ \E c \in card : Send(dialog, c.id, c.version)
ChangePlan == desk = "plan" /\ entered # "none" /\ \E c \in card : Send(dialog, entered, c.version)
ChangeDraft == desk = "draft" /\ entered # "none" /\ \E c \in card : Send(dialog, entered, c.version)
ConfirmDialog ==
  /\ dialog # "none" /\ (ChangeIncident \/ ChangePlan \/ ChangeDraft)
  /\ UNCHANGED <<desk, past, card, entered, dialog, others, viewed, changed>>

Dismiss ==
  /\ dialog # "none" /\ dialog' = "none"
  /\ UNCHANGED <<desk, past, card, entered, flights, asked, others, viewed, changed>>

----------------------------------------------------------------------------
(* The platform.                                                              *)

Becomes(r, status) ==
  past' = IF r \in Existing /\ Standing(r) = status THEN past
          ELSE [past EXCEPT ![r] = Append(@, status)]
\* It is answered with the record, once nothing of it runs any more.
AnswersWith(f) ==
  flights' = (flights \ {f}) \cup
    {[f EXCEPT !.done = TRUE,
               !.answer = IF UnderWay(Last(past'[f.id])) THEN {} ELSE {Snap(f.id, past'[f.id])}]}

ServeRead(f) ==
  /\ f.ask = "load" /\ ~f.done /\ f.id \in Existing
  /\ UNCHANGED past /\ flights' = (flights \ {f}) \cup {[f EXCEPT !.done = TRUE,
                                         !.answer = {Snap(f.id, past[f.id])}]}
  /\ UNCHANGED <<desk, card, entered, dialog, asked, others, viewed, changed>>

ServeCreate(f) ==
  /\ f.ask = "create" /\ ~f.done /\ f.id \notin Existing
  /\ Becomes(f.id, "DRAFT") /\ AnswersWith(f)
  /\ UNCHANGED <<desk, card, entered, dialog, asked, others, viewed, changed>>

\* A change needs the status, and the version in If-Match.
VersionFits(f) == f.ask = "rca" \/ f.at = Len(past[f.id])
ServeChange(f, m) ==
  /\ ~f.done /\ f.id \in Existing /\ m[1] = f.ask /\ m[2] = Standing(f.id) /\ VersionFits(f)
  /\ Becomes(f.id, m[3]) /\ AnswersWith(f)
  /\ changed' = changed \cup {[n |-> f.n, id |-> f.id, ask |-> f.ask, at |-> Len(past[f.id])]}
  /\ UNCHANGED <<desk, card, entered, dialog, asked, others, viewed>>

ServeIncident(f) == desk = "incident" /\ \E m \in IncidentMoves : ServeChange(f, m)
ServePlan(f) == desk = "plan" /\ \E m \in PlanMoves : ServeChange(f, m)
ServeDraft(f) == desk = "draft" /\ \E m \in DraftMoves : ServeChange(f, m)

RunEnds(r, e) ==
  /\ r \in Existing /\ Standing(r) = e[1] /\ Becomes(r, e[2])
  /\ flights' = {IF f.id = r /\ f.done /\ f.answer = {}
                  THEN [f EXCEPT !.answer = {Snap(r, past'[r])}] ELSE f : f \in flights}
  /\ UNCHANGED <<desk, card, entered, dialog, asked, others, viewed, changed>>

\* Other operators do the same.
OtherActs(r, status) ==
  /\ others < MostOthers /\ others' = others + 1
  /\ IF r \in Existing THEN \E m \in Moves : m[2] = Standing(r) /\ m[3] = status
     ELSE status = "DRAFT"
  /\ Becomes(r, status)
  /\ UNCHANGED <<desk, card, entered, dialog, flights, asked, viewed, changed>>

----------------------------------------------------------------------------
(* Answers.                                                                   *)

\* What a change of an incident answers leaves out the rest of it, which is kept from
\* what is shown now.
Merged(f, c) ==
  IF desk = "incident" /\ f.ask # "load"
  THEN {[c EXCEPT !.named = old.named] : old \in card} ELSE {c}
Shows(f) == f.ask \notin {"rca", "submit"}

Arrive(f, c) ==
  /\ c \in f.answer
  /\ flights' = flights \ {f}
  /\ dialog' = IF f.ask \in {"load", "create", "rca"} THEN dialog ELSE "none"
  /\ IF Shows(f)
     THEN /\ card' = Merged(f, c)
          /\ viewed' = IF desk = "incident" THEN viewed \cup {<<c.id, c.version>>} ELSE viewed
          /\ entered' = IF desk = "plan" THEN c.id ELSE entered
     ELSE UNCHANGED <<card, viewed, entered>>
  /\ UNCHANGED <<desk, past, asked, others, changed>>

\* Refused, or nothing comes back: whatever it did, the page says so and is as it was.
AnswerLost(f) ==
  /\ flights' = flights \ {f}
  /\ UNCHANGED <<desk, past, card, entered, dialog, asked, others, viewed, changed>>

ConsoleNext ==
  \/ \E r \in ConsoleRecord :
       \/ EnterId(r) \/ RcaAnswers(r) \/ LoadRecord(r) \/ CreateRecord(r)
       \/ \E e \in RunOutcomes : RunEnds(r, e)
       \/ \E s \in RecordStatuses : OtherActs(r, s)
  \/ StartRca \/ ConfirmDialog \/ Dismiss
  \/ \E m \in Moves : OpenDialog(m[1])
  \/ \E f \in flights :
       \/ ServeRead(f) \/ ServeCreate(f) \/ AnswerLost(f)
       \/ ServeIncident(f) \/ ServePlan(f) \/ ServeDraft(f)
       \/ \E c \in f.answer : Arrive(f, c)

----------------------------------------------------------------------------
(* Properties.                                                                *)

\* What is shown of a record it once was, at that version, whatever order the answers
\* came in (loadIncident, changeIncidentState, loadRemediation, loadTicket).
CardWasTrue ==
  \A c \in card : c.version <= Len(past[c.id]) /\ past[c.id][c.version] = c.status

\* A change is made once, however often it was confirmed, from a status that offered it;
\* that of an incident at a version of it that was shown, whatever the card has become
\* since (changeIncidentState).
ChangedAsSeen ==
  /\ \A x \in changed : \E m \in Moves : m[1] = x.ask /\ m[2] = past[x.id][x.at]
  /\ \A x, y \in changed : (x.id = y.id /\ x.at = y.at /\ x.ask # "submit") => x = y
  /\ \A x \in changed : (desk = "incident" /\ x.ask # "rca") => <<x.id, x.at>> \in viewed

ConsoleIsHonest == CardWasTrue /\ ChangedAsSeen

=============================================================================
