--------------------------- MODULE OutboundCalls ---------------------------
(* Calls that leave the platform: tickets to a vendor, notices of a finished *)
(* analysis to a chat or pager, remediations to their controller.  A gateway *)
(* reads a bounded answer and tells a success, a refusal that is final, or an *)
(* error after which the caller may try again; whether the other side acted   *)
(* is another matter.                                                      *)
EXTENDS Naturals, FiniteSets

CONSTANTS
  Outgoing,          \* calls, a request's repeats included
  RouteNames,    \* vendors and channels that are configured
  HasFallback    \* whether tickets may go through the generic gateway

VARIABLES
  outbound,      \* of each call: its target, where it is, what it was told and
                 \* counted, and whether the answer was a sign of load
  actedOn,       \* calls the other side has acted upon
  sources,       \* the analysis a notice is about: "running", "succeeded" or "purged"
  noticeTrail,   \* the events that tell which notices were delivered or failed
  routers        \* "open", "closing" or "closed"

outboundVars == <<outbound, actedOn, sources, noticeTrail, routers>>

TargetOf(c) == outbound[c].want

Vendors == {"jira", "servicenow"}
Tickets == Vendors \cup {"http_json", "unknown"}
Channels == {"slack", "teams", "pagerduty"}

\* Who can be called.
CallTargets == Tickets \cup Channels \cup {"controller"}

ASSUME OutboundAssumption == RouteNames \subseteq Vendors \cup Channels

\* An answer as far as the gateways look at it.
Response ==
  [status : {"2xx", "3xx", "4xx", "429", "5xx"},
   body : {"good", "refusal", "garbage", "empty", "huge"}]

Ok(r) == r.status = "2xx"

\* The generic gateway: whatever is not 2xx may be tried again.
ReadHttpJson(r) ==
  IF Ok(r) /\ r.body = "good" THEN "success"
  ELSE IF Ok(r) /\ r.body = "refusal" THEN "refused" ELSE "error"

\* Mutation: a vendor that has no time is taken for one that refuses.
BusyIsRefusal(r) ==
  CASE r.body = "huge" -> "error"
    [] r.body # "huge" /\ ~Ok(r) -> "refused"
    [] r.body = "good" /\ Ok(r) -> "success"
    [] OTHER -> "error"

\* Jira and ServiceNow: what is neither 2xx nor a sign of load is final; an
\* answer without a ticket's name is an error.
ReadVendor(r) ==
  CASE r.body = "huge" -> "error"
    [] r.body # "huge" /\ r.status \in {"3xx", "4xx"} -> "refused"
    [] r.body = "good" /\ Ok(r) -> "success"
    [] OTHER -> "error"

\* Slack says ok or nothing, PagerDuty says success; of Teams only the status
\* is looked at.
ReadNotice(channel, r) ==
  IF /\ Ok(r) /\ r.body # "huge"
     /\ channel = "slack" => r.body \in {"good", "empty"}
     /\ channel = "pagerduty" => r.body = "good"
  THEN "success" ELSE "error"

ReadController(r) ==
  IF Ok(r) /\ r.body = "good" THEN "success"
  ELSE IF Ok(r) /\ r.body = "refusal" THEN "refused" ELSE "error"

Read(target, r) ==
  CASE target \in Vendors -> ReadVendor(r)
    [] target = "http_json" -> ReadHttpJson(r)
    [] target \in Channels -> ReadNotice(target, r)
    [] target = "controller" -> ReadController(r)

\* What the other side may answer: success only when it acted, a refusal only
\* when it did not, and anything else in either case.
Honest(r, acted) ==
  /\ Ok(r) /\ r.body \in {"good", "empty"} => acted
  /\ r.status \in {"3xx", "4xx", "429"} \/ r.body = "refusal" => ~acted

----------------------------------------------------------------------------
\* A ticket goes to the gateway of its target, or to the generic one.
GatewayFor(target) ==
  IF target \in RouteNames THEN target
  ELSE IF HasFallback THEN "http_json" ELSE "none"

Tell2(c, at, told, counted) ==
  outbound' = [outbound EXCEPT ![c].at = at, ![c].told = told, ![c].counted = counted]

\* Submission: nothing is sent when the router is closed or knows no gateway,
\* and the submission is refused for good; without routes the generic gateway
\* is asked directly, and closed it is an error.
SubmitTicket(c) ==
  /\ TargetOf(c) \in Tickets /\ outbound[c].at = "idle"
  /\ LET g == GatewayFor(TargetOf(c)) IN
     IF routers # "open" /\ RouteNames \cap Vendors = {} THEN Tell2(c, "ended", "error", {})
     ELSE IF routers # "open" \/ g = "none" THEN Tell2(c, "ended", "refused", {})
     ELSE outbound' = [outbound EXCEPT ![c].at = "sending", ![c].to = g]
  /\ UNCHANGED <<actedOn, sources, noticeTrail, routers>>

\* A notice is built from a run that has succeeded and still has its evidence.
BuildNotice(c) ==
  /\ TargetOf(c) \in Channels /\ outbound[c].at = "idle"
  /\ IF sources = "succeeded"
     THEN outbound' = [outbound EXCEPT ![c].at = "built"]
     ELSE Tell2(c, "ended", "invalid", {})
  /\ UNCHANGED <<actedOn, sources, noticeTrail, routers>>

\* It is sent after the transaction that read it; a channel that is not
\* configured is the caller's mistake, a closed router a failure to be noted.
SendNotice(c) ==
  /\ outbound[c].at = "built"
  /\ IF routers # "open" THEN Tell2(c, "noting", "error", {})
     ELSE IF TargetOf(c) \notin RouteNames THEN Tell2(c, "ended", "invalid", {})
     ELSE outbound' = [outbound EXCEPT ![c].at = "sending", ![c].to = TargetOf(c)]
  /\ UNCHANGED <<actedOn, sources, noticeTrail, routers>>

InvokeController(c) ==
  /\ TargetOf(c) = "controller" /\ outbound[c].at = "idle"
  /\ IF routers = "open"
     THEN outbound' = [outbound EXCEPT ![c].at = "sending", ![c].to = "controller"]
     ELSE Tell2(c, "ended", "error", {})
  /\ UNCHANGED <<actedOn, sources, noticeTrail, routers>>

\* The other side acts: in time, or when nobody waits for it any more.
TargetActs(c) ==
  /\ outbound[c].to # "none" /\ c \notin actedOn
  /\ outbound[c].at # "sending" => outbound[c].told \in {"error", "cancelled"}
  /\ actedOn' = actedOn \cup {c}
  /\ UNCHANGED <<outbound, sources, noticeTrail, routers>>

----------------------------------------------------------------------------
\* Tickets are counted by outcome; what is told of a notice is noted first.
Counter(told) ==
  CASE told = "success" -> "SUCCESS" [] told = "refused" -> "BUSINESS_FAILURE"
    [] told = "error" -> "GATEWAY_ERROR" [] told = "cancelled" -> "CANCELLED"

Counts(c, told) == IF TargetOf(c) \in Tickets THEN {Counter(told)} ELSE {}
AfterAnswer(c) == IF TargetOf(c) \in Channels THEN "noting" ELSE "ended"

\* An answer is read to its end or up to the limit.
AnswerArrives(c) ==
  /\ outbound[c].at = "sending"
  /\ \E r \in Response :
       /\ Honest(r, c \in actedOn)
       /\ LET told == Read(outbound[c].to, r) IN
          outbound' = [outbound EXCEPT ![c].at = AfterAnswer(c), ![c].told = told,
                                       ![c].counted = Counts(c, told),
                                       ![c].busy = r.status \in {"429", "5xx"}]
  /\ UNCHANGED <<actedOn, sources, noticeTrail, routers>>

\* The connection fails, a read takes too long, or the client is closed.
TransportFails(c) ==
  /\ outbound[c].at = "sending"
  /\ Tell2(c, AfterAnswer(c), "error", Counts(c, "error"))
  /\ UNCHANGED <<actedOn, sources, noticeTrail, routers>>

\* The caller is cancelled: no event is written.
CallIsCancelled(c) ==
  /\ outbound[c].at \in {"sending", "noting"}
  /\ Tell2(c, "ended", "cancelled",
           IF outbound[c].at = "sending" THEN Counts(c, "cancelled") ELSE {})
  /\ UNCHANGED <<actedOn, sources, noticeTrail, routers>>

\* The event is committed on its own; if that fails, the caller gets an error
\* although the notice may be there.
NoteDelivery(c) ==
  /\ outbound[c].at = "noting"
  /\ \/ /\ noticeTrail' = noticeTrail \cup
             {[of |-> c, delivered |-> outbound[c].told = "success"]}
        /\ outbound' = [outbound EXCEPT ![c].at = "ended"]
     \/ Tell2(c, "ended", "unnoted", {}) /\ UNCHANGED noticeTrail
  /\ UNCHANGED <<actedOn, sources, routers>>

----------------------------------------------------------------------------
\* The analysis ends, and its evidence is purged one day.
AnalysisMoves ==
  /\ \/ sources = "running" /\ sources' = "succeeded"
     \/ sources = "succeeded" /\ sources' = "purged"
  /\ UNCHANGED <<outbound, actedOn, noticeTrail, routers>>

\* The routers refuse from the start of their closing; their gateways follow.
RoutersClose ==
  /\ \/ routers = "open" /\ routers' = "closing"
     \/ routers = "closing" /\ routers' = "closed"
  /\ UNCHANGED <<outbound, actedOn, sources, noticeTrail>>

\* The targets of a behaviour are chosen with the initial state.
Calling(targets) ==
  outbound = [c \in Outgoing |-> [want |-> targets[c], at |-> "idle", to |-> "none",
                              told |-> "nothing", counted |-> {}, busy |-> FALSE]]

OutboundInit ==
  /\ actedOn = {} /\ noticeTrail = {}
  /\ sources = "running" /\ routers = "open"

OutboundNext ==
  \/ \E c \in Outgoing :
       \/ SubmitTicket(c) \/ BuildNotice(c) \/ SendNotice(c) \/ InvokeController(c)
       \/ TargetActs(c) \/ AnswerArrives(c) \/ TransportFails(c) \/ CallIsCancelled(c)
       \/ NoteDelivery(c)
  \/ AnalysisMoves \/ RoutersClose

----------------------------------------------------------------------------
OutboundTypeOK ==
  /\ \A c \in Outgoing :
       /\ outbound[c].at \in {"idle", "built", "sending", "noting", "ended"}
       /\ outbound[c].to \in Vendors \cup Channels \cup {"http_json", "controller", "none"}
       /\ outbound[c].told \in {"nothing", "success", "refused", "error", "cancelled",
                                "invalid", "unnoted"}
  /\ actedOn \subseteq Outgoing
  /\ sources \in {"running", "succeeded", "purged"}
  /\ routers \in {"open", "closing", "closed"}

\* Success is what the other side did; a refusal, which nobody tries again, is
\* what it did not do.  Teams answers 2xx to what it drops, and its body is not
\* read.  _vendor_http.py:146-158, http_json.py:208-265, webhook.py:171-184.
OutcomesAreTrue ==
  \A c \in Outgoing :
    /\ outbound[c].told = "success" /\ outbound[c].to # "teams" => c \in actedOn
    /\ outbound[c].told = "refused" => c \notin actedOn

\* A sign of load is not final: who is busy is not taken for one who refuses.
\* _vendor_http.py:154.
LoadIsNotFinal ==
  \A c \in Outgoing : outbound[c].busy => outbound[c].told # "refused"

\* Each call that was sent is counted once, under what its caller was told.
\* jira.py:100-149, http_json.py:97-146.
SentAreCounted ==
  \A c \in Outgoing :
    TargetOf(c) \in Tickets /\ outbound[c].at = "ended" /\ outbound[c].to # "none" =>
      outbound[c].counted = {Counter(outbound[c].told)}

\* The trail has what callers were told of their notices, each once, and of a
\* notice without an entry its caller has heard an error.
\* notification_service.py:70-97.
NoticesAreNoted ==
  /\ \A n, o \in noticeTrail : n.of = o.of => n = o
  /\ \A n \in noticeTrail :
       /\ n.delivered => outbound[n.of].told = "success"
       /\ ~n.delivered => outbound[n.of].told = "error"
  /\ \A c \in Outgoing :
       TargetOf(c) \in Channels /\ outbound[c].at = "ended"
         /\ outbound[c].told \in {"success", "error"} =>
         \E n \in noticeTrail : n.of = c

CallsAreSound == OutcomesAreTrue /\ LoadIsNotFinal /\ SentAreCounted /\ NoticesAreNoted
=============================================================================
