------------------------------ MODULE HttpEdge ------------------------------
(* What every request passes: it is counted as in progress, held to a quota   *)
(* of its source in fixed windows that are forgotten when there are too many, *)
(* handed to a service if the runtime has one, and counted once by its       *)
(* outcome, or only taken off the gauge when it was cancelled.               *)
EXTENDS Naturals, Sequences, FiniteSets

CONSTANTS
  Visit,          \* requests
  Source,         \* addresses they come from
  Quota,          \* requests a window admits
  WindowLength,
  MaxWindows,     \* windows that are kept
  LastSecond      \* bound of the clock

ASSUME EdgeAssumption ==
  /\ {Quota, WindowLength, MaxWindows} \subseteq Nat \ {0} /\ LastSecond \in Nat
  /\ IsFiniteSet(Visit) /\ IsFiniteSet(Source)

VARIABLES
  visit,          \* of each request: source, path, where it is, how it was answered
  windows,        \* of each source its window, the least recently used first
  inProgress,     \* the gauge
  answered,       \* the counter, by class of status
  serving,        \* the services a request finds: before the start, then, and after
  admitted,       \* per source: when requests were admitted
  second

edgeVars == <<visit, windows, inProgress, answered, serving, admitted, second>>

Paths == {"api", "console", "operational"}
Classes == {"2xx", "4xx", "5xx"}

\* Operational paths are not measured, and only the API has a quota.
Measured(v) == visit[v].path # "operational"

Enter(v) ==
  /\ visit[v].at = "outside"
  /\ visit' = [visit EXCEPT ![v].at = IF visit[v].path = "api" THEN "checking" ELSE "inside"]
  /\ inProgress' = IF Measured(v) THEN inProgress + 1 ELSE inProgress
  /\ UNCHANGED <<windows, answered, serving, admitted, second>>

----------------------------------------------------------------------------
Of0(source) == {i \in DOMAIN windows : windows[i].source = source}
Others(i) == [j \in 1..(Len(windows) - 1) |-> windows[IF j < i THEN j ELSE j + 1]]
Expired(w) == second - w.started >= WindowLength

AdmitVisit(v) ==
  /\ visit' = [visit EXCEPT ![v].at = "inside"]
  /\ admitted' = [admitted EXCEPT ![visit[v].source] = Append(@, second)]
RefuseVisit(v) ==
  /\ visit' = [visit EXCEPT ![v].at = "answering", ![v].class = "4xx", ![v].refused = TRUE]
  /\ UNCHANGED admitted

\* A source without a window begins one, at the cost of the one that was not
\* used for longest when all are taken.
NewWindow(v) ==
  LET source == visit[v].source IN
  /\ Of0(source) = {}
  /\ windows' = Append(IF Len(windows) >= MaxWindows THEN Tail(windows) ELSE windows,
                       [source |-> source, started |-> second, count |-> 1])
  /\ AdmitVisit(v)

\* An expired one begins again, another admits what is left of its quota; a
\* refusal uses the window, too.
KnownWindow(v) ==
  LET source == visit[v].source IN
  \E i \in Of0(source) :
    LET w == windows[i] IN
    \/ /\ Expired(w)
       /\ windows' = Append(Others(i), [w EXCEPT !.started = second, !.count = 1])
       /\ AdmitVisit(v)
    \/ /\ ~Expired(w) /\ w.count < Quota
       /\ windows' = Append(Others(i), [w EXCEPT !.count = @ + 1])
       /\ AdmitVisit(v)
    \/ /\ ~Expired(w) /\ w.count >= Quota
       /\ windows' = Append(Others(i), w)
       /\ RefuseVisit(v)

CheckQuota(v) ==
  /\ visit[v].at = "checking"
  /\ NewWindow(v) \/ KnownWindow(v)
  /\ UNCHANGED <<inProgress, answered, serving, second>>

----------------------------------------------------------------------------
\* A handler takes its service from the application's state, which is empty
\* before the runtime has started and after its end has begun.
TakeService(v) ==
  /\ visit[v].at = "inside"
  /\ visit' = [visit EXCEPT
       ![v].at = IF serving = "up" \/ visit[v].path # "api" THEN "handling" ELSE "answering",
       ![v].class = IF serving = "up" \/ visit[v].path # "api" THEN @ ELSE "5xx"]
  /\ UNCHANGED <<windows, inProgress, answered, serving, admitted, second>>

\* Its answer, an application error by its status, any other as 500.
Handled(v) ==
  /\ visit[v].at = "handling"
  /\ \E c \in Classes : visit' = [visit EXCEPT ![v].at = "answering", ![v].class = c]
  /\ UNCHANGED <<windows, inProgress, answered, serving, admitted, second>>

\* One count and one step down of the gauge, the step also when the count fails.
FinishVisit(v) ==
  /\ visit[v].at = "answering"
  /\ visit' = [visit EXCEPT ![v].at = "ended"]
  /\ IF Measured(v)
     THEN /\ inProgress' = inProgress - 1
          /\ answered' = [answered EXCEPT ![visit[v].class] = @ + 1]
     ELSE UNCHANGED <<inProgress, answered>>
  /\ UNCHANGED <<windows, serving, admitted, second>>

\* A cancellation has no answer: only the gauge is taken back.
Abandon(v) ==
  /\ visit[v].at \in {"checking", "inside", "handling"}
  /\ visit' = [visit EXCEPT ![v].at = "ended", ![v].class = "none"]
  /\ inProgress' = IF Measured(v) THEN inProgress - 1 ELSE inProgress
  /\ UNCHANGED <<windows, answered, serving, admitted, second>>

----------------------------------------------------------------------------
\* The lifespan: the services are set when the runtime has started and taken
\* away before it is closed, while requests may still be handled.
ServingMoves ==
  /\ \/ serving = "starting" /\ serving' = "up"
     \/ serving = "up" /\ serving' = "stopped"
  /\ UNCHANGED <<visit, windows, inProgress, answered, admitted, second>>

SecondPasses ==
  /\ second < LastSecond /\ second' = second + 1
  /\ UNCHANGED <<visit, windows, inProgress, answered, serving, admitted>>

\* The requests of a behaviour are chosen with the initial state, each a source
\* and a path.
VisitAsks(W) == W \subseteq Source \X Paths
Visiting(ways) ==
  visit = [v \in Visit |-> [source |-> ways[v][1], path |-> ways[v][2], at |-> "outside",
                            class |-> "none", refused |-> FALSE]]

EdgeInit ==
  /\ windows = <<>> /\ inProgress = 0 /\ answered = [c \in Classes |-> 0]
  /\ serving = "starting" /\ admitted = [s \in Source |-> <<>>] /\ second = 0

EdgeNext ==
  \/ \E v \in Visit :
       Enter(v) \/ CheckQuota(v) \/ TakeService(v) \/ Handled(v) \/ FinishVisit(v) \/ Abandon(v)
  \/ ServingMoves \/ SecondPasses

----------------------------------------------------------------------------
EdgeTypeOK ==
  /\ \A v \in Visit : visit[v].at \in {"outside", "checking", "inside", "handling",
                                       "answering", "ended"}
                      /\ visit[v].class \in Classes \cup {"none"}
  /\ Len(windows) <= MaxWindows
  /\ inProgress \in Nat /\ answered \in [Classes -> Nat]
  /\ serving \in {"starting", "up", "stopped"} /\ second \in 0..LastSecond

\* The gauge counts the requests between their entry and their end, whichever
\* way they end, and each answer is counted once.  middleware.py:55-105,
\* registry.py:541-571.
CountsAreExact ==
  /\ inProgress = Cardinality({v \in Visit : Measured(v) /\ visit[v].at \notin {"outside", "ended"}})
  /\ \A c \in Classes :
       answered[c] =
         Cardinality({v \in Visit : Measured(v) /\ visit[v].at = "ended" /\ visit[v].class = c})

\* Within any span of one window's length a source gets at most twice its quota,
\* unless as many other sources as there are windows came meanwhile.
\* rate_limit.py:76-107.
Within(source, from) ==
  {i \in DOMAIN admitted[source] : admitted[source][i] >= from
                                   /\ admitted[source][i] < from + WindowLength}
TwiceTheQuota ==
  Cardinality({s \in Source : admitted[s] # <<>>}) <= MaxWindows =>
    \A s \in Source, from \in 0..LastSecond : Cardinality(Within(s, from)) <= 2 * Quota

\* One source has one window, which admitted what it counts, and a refusal had
\* its source's quota used up.  rate_limit.py:80-107.
WindowsAreTrue ==
  /\ \A i, j \in DOMAIN windows : windows[i].source = windows[j].source => i = j
  /\ \A i \in DOMAIN windows :
       LET w == windows[i] IN
       w.count <= Quota /\ w.count <= Cardinality(Within(w.source, w.started))
  /\ \A v \in Visit : visit[v].refused => Len(admitted[visit[v].source]) >= Quota

EdgeIsSound == CountsAreExact /\ TwiceTheQuota /\ WindowsAreTrue
=============================================================================
