------------------------------ MODULE ToolCalls ------------------------------
(* Calls of the agent's tools.  The executor gives a call one of its slots;  *)
(* the handler finds the service of the incident and asks the backend, for   *)
(* telemetry one query per signal at once.  A query that fails, the call's   *)
(* time limit or a cancellation from outside (a lost lease, a shutdown)       *)
(* withdraws the other queries, and the slot is given back when they are gone. *)
(* A result has bounded size, and says when it is not all there is.  Tools of *)
(* a foreign MCP server are called without the executor.                     *)
EXTENDS Naturals, Sequences, FiniteSets, FiniteSetsExt

CONSTANTS
  Invocation,
  SlotLimit,    \* calls that run at once
  MaxItems,     \* items in the result of a telemetry tool
  RoomFor,      \* size of a result
  Finest,       \* the least time between two samples
  MaxSamples,   \* samples of a series
  MaxNesting    \* levels of a result that is kept as evidence

ASSUME ToolAssumption ==
  /\ {SlotLimit, MaxItems, Finest, MaxSamples} \subseteq Nat \ {0}
  /\ RoomFor \in Nat /\ MaxNesting \in Nat

VARIABLES
  invoking,     \* of each call: what it asks for, where it is, why it ends
  queries,      \* of each call: its queries that run, by signal
  findings,     \* of each call: what its queries returned
  invoked,      \* of each call: its result
  withdrawn,    \* the calls that were cancelled from outside
  clientsOpen,  \* whether the clients of the backends are open
  mcpAudit      \* calls of the MCP server and their recorded outcome

callVars == <<invoking, queries, findings, invoked, withdrawn, clientsOpen, mcpAudit>>

Telemetry == {"metrics", "logs", "traces"}
StoredTools == {"changes", "runbooks"}

NoToolResult ==
  [how |-> "none", shown |-> 0, cut |-> FALSE, whole |-> FALSE, leaks |-> FALSE]
HasSlot(i) == invoking[i].at \in {"resolving", "querying", "withdrawing"}
Running == {i \in Invocation : HasSlot(i)}

MoveCall(i, at) == invoking' = [invoking EXCEPT ![i].at = at]
EndCall(i, result) ==
  /\ MoveCall(i, "ended")
  /\ invoked' = [invoked EXCEPT ![i] = result]
Unsuccessful(how) == [NoToolResult EXCEPT !.how = how]

----------------------------------------------------------------------------
(* The executor.                                                           *)

\* A tool nobody registered, or in another form, is not called.
Registered(tool) == tool # "unknown"

Begin(i) ==
  /\ invoking[i].at = "idle"
  /\ invoking[i].ask.tool # "mcp"
  /\ IF Registered(invoking[i].ask.tool)
     THEN MoveCall(i, "queued") /\ UNCHANGED invoked
     ELSE EndCall(i, Unsuccessful("refused"))
  /\ UNCHANGED <<queries, findings, withdrawn, clientsOpen, mcpAudit>>

\* The payload must name known fields, a tenant, an incident and a limit.
WellAsked(ask) == ask.limit \in 1..ask.most

TakeSlot(i) ==
  /\ invoking[i].at = "queued"
  /\ Cardinality(Running) < SlotLimit
  /\ IF WellAsked(invoking[i].ask) THEN MoveCall(i, "resolving") /\ UNCHANGED invoked
     ELSE EndCall(i, Unsuccessful("failed"))
  /\ UNCHANGED <<queries, findings, withdrawn, clientsOpen, mcpAudit>>

\* Equal shares of what may be shown, for each signal.
Share(ask) == Min({ask.limit, MaxItems}) \div Cardinality(ask.signals)

\* The incident may be gone.  Fewer items than signals cannot be shared.
Resolve(i) ==
  LET ask == invoking[i].ask
  IN /\ invoking[i].at = "resolving"
     /\ \/ /\ ask.tool \in StoredTools \/ Share(ask) > 0
           /\ invoking' = [invoking EXCEPT
                ![i].at = IF ask.tool \in Telemetry /\ ~clientsOpen THEN "withdrawing"
                          ELSE "querying",
                ![i].cause = IF ask.tool \in Telemetry /\ ~clientsOpen THEN "failed"
                             ELSE "none"]
           /\ queries' = [queries EXCEPT ![i] =
                IF ask.tool \in Telemetry /\ ~clientsOpen THEN {} ELSE ask.signals]
           /\ UNCHANGED invoked
        \/ EndCall(i, Unsuccessful("failed")) /\ UNCHANGED queries
     /\ UNCHANGED <<findings, withdrawn, clientsOpen, mcpAudit>>

----------------------------------------------------------------------------
(* What a backend answers: how many items there are, how many it sends, the   *)
(* first one it sends that cannot be read, and whether it looked everywhere. *)

BackendAnswers ==
  {a \in [found : 0..3, sent : 0..3, broken : 0..2, partial : BOOLEAN] :
     a.sent <= a.found /\ a.broken <= a.sent}
\* Every backend sends what it found up to the limit, an old one without it;
\* only some tell that they did not look everywhere.
SentByBackend(a, limit, tellsPartial) ==
  /\ a.sent \in {a.found, Min({a.found, limit})} \/ a.partial
  /\ a.partial => tellsPartial

Unreadable == [ok |-> FALSE, shown |-> 0, cut |-> FALSE, whole |-> FALSE]
Finding(shown, cut, whole) == [ok |-> TRUE, shown |-> shown, cut |-> cut, whole |-> whole]

\* The samples asked for: at every step of the window, and one more at its end.
Step(window) == Max({Finest, (window + MaxSamples - 1) \div MaxSamples})
SamplesAllowed(window) == window \div Step(window) + 2
SamplesSent(window) == window \div Step(window) + 1

\* The matrix: warnings are passed on with it.
ReadMatrix(a, limit, window) ==
  IF a.sent > limit \/ a.broken # 0 \/ SamplesSent(window) > SamplesAllowed(window)
  THEN Unreadable
  ELSE Finding(a.sent, a.sent = limit \/ a.partial, a.sent = a.found)

ReadStreams(a, limit) ==
  IF a.sent > limit \/ a.broken # 0 THEN Unreadable
  ELSE Finding(a.sent, a.sent = limit, a.sent = a.found)

\* The traces before the first unreadable one, unless that is the latest.
ReadTraces(a, limit) ==
  LET shown == IF a.broken = 0 THEN a.sent ELSE a.broken - 1
  IN IF a.sent > limit \/ a.broken = 1 THEN Unreadable
     ELSE Finding(shown, shown = limit \/ a.partial \/ a.broken # 0, shown = a.found)

ReadTelemetry(ask, a, limit) ==
  CASE ask.tool = "metrics" -> ReadMatrix(a, limit, ask.window)
    [] ask.tool = "logs" -> ReadStreams(a, limit)
    [] ask.tool = "traces" -> ReadTraces(a, limit)

\* Of stored items one more than asked for is read, the latest first, of this
\* service only: anything else means that the source cannot be trusted.
StoredItem(size, at, own) == [size |-> size, at |-> at, own |-> own]
Trustworthy(rows, limit) ==
  /\ Len(rows) <= limit + 1
  /\ \A m, n \in DOMAIN rows : m < n => rows[m].at > rows[n].at
  /\ \A n \in DOMAIN rows : rows[n].own

\* Those that fit are taken, one after the other.  Their number is added last, and
\* may not fit any more.
SizeUpTo(rows, n) == MapThenSumSet(LAMBDA m : rows[m].size, 1..n)
FittingItems(rows, limit) ==
  Max({n \in 0..Min({limit, Len(rows)}) : SizeUpTo(rows, n) <= RoomFor})
ReadStored(rows, limit) ==
  LET shown == FittingItems(rows, limit)
  IN IF ~Trustworthy(rows, limit) \/ SizeUpTo(rows, shown) + 1 > RoomFor THEN Unreadable
     ELSE Finding(shown, shown < Len(rows), shown = Len(rows))

StoredRows ==
  {<<>>, <<StoredItem(1, 3, TRUE)>>,
   <<StoredItem(2, 3, TRUE), StoredItem(1, 2, TRUE)>>,
   <<StoredItem(2, 3, TRUE), StoredItem(2, 2, TRUE)>>,
   <<StoredItem(1, 3, TRUE), StoredItem(2, 2, TRUE), StoredItem(2, 1, TRUE)>>,
   <<StoredItem(1, 2, TRUE), StoredItem(1, 3, TRUE)>>,
   <<StoredItem(1, 3, TRUE), StoredItem(1, 2, FALSE)>>}

----------------------------------------------------------------------------
(* Queries.                                                                *)

Note(i, s, finding) ==
  /\ findings' = [findings EXCEPT ![i] = @ \cup {<<s, finding>>}]
  /\ queries' = [queries EXCEPT ![i] = @ \ {s}]

\* One query fails, by what it read or by its connection: the others are taken
\* back.
QueryFails(i, s) ==
  /\ queries' = [queries EXCEPT ![i] = @ \ {s}]
  /\ invoking' = [invoking EXCEPT ![i].at = "withdrawing", ![i].cause = "failed"]
  /\ UNCHANGED findings

QueryReturns(i, s) ==
  LET ask == invoking[i].ask
      Use(finding) ==
        IF finding.ok THEN Note(i, s, finding) /\ UNCHANGED invoking ELSE QueryFails(i, s)
  IN /\ invoking[i].at = "querying"
     /\ s \in queries[i]
     /\ \/ /\ ask.tool \in Telemetry
           /\ \E a \in BackendAnswers :
                /\ SentByBackend(a, Share(ask), ask.tool # "logs")
                /\ Use(ReadTelemetry(ask, a, Share(ask)))
        \/ /\ ask.tool \in StoredTools
           /\ \E rows \in StoredRows : Use(ReadStored(rows, ask.limit))
        \/ QueryFails(i, s)
     /\ UNCHANGED <<invoked, withdrawn, clientsOpen, mcpAudit>>

\* A query that was taken back has ended.
QueryGone(i, s) ==
  /\ invoking[i].at = "withdrawing"
  /\ s \in queries[i]
  /\ queries' = [queries EXCEPT ![i] = @ \ {s}]
  /\ UNCHANGED <<invoking, findings, invoked, withdrawn, clientsOpen, mcpAudit>>

Withdraw(i) ==
  /\ invoking[i].at = "withdrawing"
  /\ queries[i] = {}
  /\ EndCall(i, Unsuccessful(invoking[i].cause))
  /\ UNCHANGED <<queries, findings, withdrawn, clientsOpen, mcpAudit>>

----------------------------------------------------------------------------
(* What a result holds: values under names, at some depth.  A name may give a *)
(* secret away, and a text may hold one, at its end or across its limit.     *)

Texts == {"plain", "secret", "crossing", "rest", "blotted"}
ValueOf(names, text) == [names |-> names, text |-> text]
Values ==
  {ValueOf(<<"name">>, t) : t \in {"plain", "secret", "crossing"}} \cup
  {ValueOf(<<"password">>, "plain"), ValueOf(<<"name", "password", "name">>, "plain"),
   ValueOf(<<"list", "password">>, "plain"), ValueOf(<<"name", "list", "name">>, "plain")}

\* What matches is blotted out; a text that was cut through a secret would not
\* match any more.
Redacted(text) == IF text \in {"secret", "crossing"} THEN "blotted" ELSE text
Truncated(text) == IF text = "crossing" THEN "rest" ELSE text
CleanText(text) == Truncated(Redacted(text))

\* A value under a name that gives it away is blotted out with all that is in it,
\* how deep it may be; the levels above it count.
Sensitive(names) == \E n \in DOMAIN names : names[n] = "password"
LevelsOf(v) ==
  IF Sensitive(v.names) THEN Min({n \in DOMAIN v.names : v.names[n] = "password"}) - 1
  ELSE Len(v.names)
TooDeep(v) == LevelsOf(v) > MaxNesting
Sanitized(v) ==
  [v EXCEPT !.text = IF Sensitive(v.names) THEN "blotted" ELSE CleanText(v.text)]
Leaks(v) ==
  \/ v.text \in {"secret", "crossing", "rest"}
  \/ Sensitive(v.names) /\ v.text # "blotted"

\* Two values too large for their sum: the result is not a number, and no result.
Overflows(tool, huge) == tool = "metrics" /\ huge

FinishCall(i) ==
  /\ invoking[i].at = "querying"
  /\ queries[i] = {}
  /\ \E v \in Values, huge \in BOOLEAN :
       IF Overflows(invoking[i].ask.tool, huge) \/ TooDeep(v)
       THEN EndCall(i, Unsuccessful("failed"))
       ELSE EndCall(i, [how |-> "ok",
                        shown |-> MapThenSumSet(LAMBDA f : f[2].shown, findings[i]),
                        cut |-> \E f \in findings[i] : f[2].cut,
                        whole |-> \A f \in findings[i] : f[2].whole,
                        leaks |-> Leaks(Sanitized(v))])
  /\ UNCHANGED <<queries, findings, withdrawn, clientsOpen, mcpAudit>>

----------------------------------------------------------------------------
(* The end of a call before its result.                                    *)

\* The call stops where it is: waiting, or with queries that have to go first.
Stopped(i, cause) ==
  CASE invoking[i].at \in {"queued", "resolving", "calling"} -> EndCall(i, Unsuccessful(cause))
    [] invoking[i].at \in {"querying", "withdrawing"} ->
         /\ invoking' = [invoking EXCEPT ![i].at = "withdrawing", ![i].cause = cause]
         /\ UNCHANGED invoked

CallGoesOn(i) == invoking[i].at \in {"queued", "resolving", "querying", "withdrawing", "calling"}

\* The limit counts from the request for a slot.  A cancellation from outside is
\* not taken for it.
TimesOut(i) ==
  /\ CallGoesOn(i)
  /\ i \notin withdrawn
  /\ invoking[i].cause # "timeout"
  /\ Stopped(i, "timeout")
  /\ mcpAudit' = IF invoking[i].at = "calling" THEN mcpAudit \cup {<<i, "TIMEOUT">>} ELSE mcpAudit
  /\ UNCHANGED <<queries, findings, withdrawn, clientsOpen>>

CancelCall(i) ==
  /\ CallGoesOn(i)
  /\ i \notin withdrawn
  /\ Stopped(i, "cancelled")
  /\ withdrawn' = withdrawn \cup {i}
  /\ UNCHANGED <<queries, findings, clientsOpen, mcpAudit>>

ClientsClose ==
  /\ clientsOpen
  /\ clientsOpen' = FALSE
  /\ UNCHANGED <<invoking, queries, findings, invoked, withdrawn, mcpAudit>>

----------------------------------------------------------------------------
(* Tools of a foreign server: only those that read, at low risk, on approved  *)
(* servers, with the permissions of their binding.                         *)

Allowed(binding) == binding = "good"

CallServer(i) ==
  /\ invoking[i].at = "idle"
  /\ invoking[i].ask.tool = "mcp"
  /\ IF Allowed(invoking[i].ask.binding) THEN MoveCall(i, "calling") /\ UNCHANGED invoked
     ELSE EndCall(i, Unsuccessful("refused"))
  /\ UNCHANGED <<queries, findings, withdrawn, clientsOpen, mcpAudit>>

\* Of a result the names are looked at, though not in lists, and no texts.
NamesLookedAt(v) ==
  {n \in DOMAIN v.names : \A m \in 1..(n - 1) : v.names[m] # "list"}
RedactedByName(v) ==
  [v EXCEPT !.text =
     IF \E n \in NamesLookedAt(v) : v.names[n] = "password" THEN "blotted" ELSE @]

\* What a server answers.  One that refuses, fails or answers something else leaves
\* a record; an answer too large for the binding is an error without one.
ServerAnswers == {"fine", "too_large", "refused", "another"}

ServerReturns(i) ==
  /\ invoking[i].at = "calling"
  /\ \E answer \in ServerAnswers, v \in Values :
       CASE answer = "fine" /\ clientsOpen ->
              /\ EndCall(i, [how |-> "ok", shown |-> 1, cut |-> FALSE, whole |-> TRUE,
                             leaks |-> Leaks(RedactedByName(v))])
              /\ mcpAudit' = mcpAudit \cup {<<i, "SUCCEEDED">>}
         [] answer = "too_large" /\ clientsOpen ->
              EndCall(i, Unsuccessful("failed")) /\ UNCHANGED mcpAudit
         [] answer \in {"refused", "another"} \/ ~clientsOpen ->
              /\ EndCall(i, Unsuccessful("failed"))
              /\ mcpAudit' = mcpAudit \cup {<<i, "FAILED">>}
  /\ UNCHANGED <<queries, findings, withdrawn, clientsOpen>>

----------------------------------------------------------------------------
CallsInit ==
  /\ queries = [i \in Invocation |-> {}]
  /\ findings = [i \in Invocation |-> {}]
  /\ invoked = [i \in Invocation |-> NoToolResult]
  /\ withdrawn = {}
  /\ clientsOpen = TRUE
  /\ mcpAudit = {}

CallsNext ==
  \/ \E i \in Invocation :
       \/ Begin(i) \/ TakeSlot(i) \/ Resolve(i) \/ Withdraw(i) \/ FinishCall(i)
       \/ TimesOut(i) \/ CancelCall(i) \/ CallServer(i) \/ ServerReturns(i)
       \/ \E s \in invoking[i].ask.signals : QueryReturns(i, s) \/ QueryGone(i, s)
  \/ ClientsClose

----------------------------------------------------------------------------
CallsTypeOK ==
  /\ \A i \in Invocation :
       /\ invoking[i].at \in {"idle", "queued", "resolving", "querying", "withdrawing",
                              "calling", "ended"}
       /\ invoking[i].cause \in {"none", "failed", "timeout", "cancelled"}
       /\ queries[i] \subseteq invoking[i].ask.signals
       /\ invoked[i].how \in {"none", "ok", "refused", "failed", "timeout", "cancelled"}
  /\ withdrawn \subseteq Invocation
  /\ clientsOpen \in BOOLEAN

\* No query outlives its call, so the slots bound the queries too.
\* executor.py:105-131, metrics.py:229-236.
QueriesHaveACall ==
  /\ Cardinality(Running) <= SlotLimit
  /\ \A i \in Invocation : queries[i] # {} => HasSlot(i)

\* A cancellation from outside goes through: the workflow does not take it for a
\* failure of the tool.  executor.py:121-123.
CancellationGoesThrough ==
  \A i \in withdrawn : invoking[i].at = "ended" => invoked[i].how = "cancelled"

\* A result shows no more than it may, and all there is unless it says that it
\* was cut.  metrics.py:195-268, tempo.py:218-299, change_events.py:206-241.
ResultsAreHonest ==
  \A i \in Invocation :
    invoked[i].how = "ok" /\ invoking[i].ask.tool # "mcp" =>
      /\ invoked[i].shown <= invoking[i].ask.limit
      /\ invoking[i].ask.tool \in Telemetry => invoked[i].shown <= MaxItems
      /\ invoked[i].cut \/ invoked[i].whole

\* However long the window, a series has no more samples than a handler summarises,
\* and never so many that the client refuses them.  metrics.py:191-218.
SeriesAreBounded ==
  \A i \in Invocation : LET window == invoking[i].ask.window IN
    /\ SamplesSent(window) <= SamplesAllowed(window)
    /\ SamplesSent(window) <= MaxSamples + 1

\* No secret of a result becomes evidence, wherever it stood.
\* sanitization.py:124-230, logs.py:322-359.
EvidenceIsClean ==
  \A i \in Invocation : invoking[i].ask.tool # "mcp" => ~invoked[i].leaks

\* A foreign tool's result was recorded before it is used, once.
\* mcp_adapter.py:199-240.
ForeignCallsAreRecorded ==
  /\ \A i \in Invocation :
       invoked[i].how = "ok" /\ invoking[i].ask.tool = "mcp" => <<i, "SUCCEEDED">> \in mcpAudit
  /\ \A r, q \in mcpAudit : r[1] = q[1] => r = q

\* Telemetry has a query per signal, what is stored is read by one; a window is a time.
CallAsks(A) ==
  \A a \in A : /\ a.window \in Nat /\ IsFiniteSet(a.signals)
               /\ a.tool \in Telemetry => a.signals # {}
               /\ a.tool \in StoredTools => Cardinality(a.signals) = 1

ToolCallsAreSound ==
  /\ QueriesHaveACall /\ CancellationGoesThrough /\ ResultsAreHonest
  /\ SeriesAreBounded /\ EvidenceIsClean /\ ForeignCallsAreRecorded
=============================================================================
