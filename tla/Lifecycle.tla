----------------------------- MODULE Lifecycle -----------------------------
(* One process from start to close: the runtime checks the database, starts *)
(* the Kafka publisher, creates a task per enabled worker, and takes all of *)
(* it down again, when it is told to or when the start fails or is          *)
(* cancelled half way.  The tasks run on one event loop: what is between    *)
(* two awaits is one step.                                                  *)
EXTENDS Naturals, Sequences

CONSTANT Enabled     \* the workers the settings switch on

\* In the order they are created, and awaited; one that is switched off has no
\* task to wait for.
Order == <<"outbox", "rca_consumer", "audit_retention",
           "remediation_reclaim", "ticket_submission_consumer">>

ASSUME LifecycleAssumption == Enabled \subseteq {Order[i] : i \in DOMAIN Order}

Consuming == {"rca_consumer", "ticket_submission_consumer"}

\* In the order they are released.
Resources == <<"publisher", "authenticator", "clients", "engine">>
Resource == {Resources[i] : i \in DOMAIN Resources}

\* What a worker's cycles go through.
Needs(w) == CASE w = "outbox"     -> {"publisher", "engine"}
              [] w \in Consuming  -> {"clients", "engine"}
              [] OTHER            -> {"engine"}

VARIABLES
  stage,       \* what start() or close() is at
  turn,        \* which worker it awaits, or which resource it releases
  open,        \* resources that hold connections
  broken,      \* resources whose close failed or was interrupted
  task,        \* of each worker: where its run() is
  why,         \* of each worker: how its run() is going to end
  stop,        \* of each worker: its stop event
  cancel,      \* of each worker: a cancellation on its way to the task
  failure,     \* workers known to have died while the process serves
  abandoned    \* workers nobody waits for: the wait for them was cancelled

runtimeVars == <<stage, turn, open, broken>>
taskVars == <<task, why, stop, cancel>>
lifecycleVars == <<runtimeVars, taskVars, failure, abandoned>>

Starting == {"checking", "connecting", "spawned"}
Closing == {"awaiting", "forcing", "releasing"}
Living == {"starting", "cycle", "rest", "stopping"}
Over == {"done", "failed", "cancelled"}

----------------------------------------------------------------------------
(* The worker tasks.                                                       *)

\* run() ends the way it has to; while the process serves, the callback of
\* the task records that.
Ends(w, how) ==
  /\ task' = [task EXCEPT ![w] = how]
  /\ failure' = IF stage \in Closing \cup {"closed"} THEN failure
                ELSE failure \cup {w}

\* The loop is left: a consumer is closed before its run() ends.
Leaves(w, how) ==
  IF w \in Consuming
  THEN /\ task' = [task EXCEPT ![w] = "stopping"]
       /\ why' = [why EXCEPT ![w] = how]
       /\ UNCHANGED failure
  ELSE /\ Ends(w, how)
       /\ UNCHANGED why

Goes(w, at) ==
  /\ task' = [task EXCEPT ![w] = at]
  /\ UNCHANGED <<why, failure>>

Connect(w) ==
  /\ task[w] = "starting"
  /\ \/ IF stop[w] THEN Leaves(w, "done") ELSE Goes(w, "cycle")
     \/ Leaves(w, "failed")
  /\ UNCHANGED <<runtimeVars, stop, cancel, abandoned>>

\* Errors of a cycle are counted and slept over; a stop is seen afterwards.
CycleEnds(w) ==
  /\ task[w] = "cycle"
  /\ IF stop[w] THEN Leaves(w, "done") ELSE Goes(w, "rest")
  /\ UNCHANGED <<runtimeVars, stop, cancel, abandoned>>

Wakes(w) ==
  /\ task[w] = "rest"
  /\ IF stop[w] THEN Leaves(w, "done") ELSE Goes(w, "cycle")
  /\ UNCHANGED <<runtimeVars, stop, cancel, abandoned>>

\* The consumer is closed, or its close fails.
ConsumerCloses(w) ==
  /\ task[w] = "stopping"
  /\ \E how \in {why[w], "failed"} : Ends(w, how)
  /\ UNCHANGED <<runtimeVars, why, stop, cancel, abandoned>>

\* A cancellation reaches the task at its await.
CancelArrives(w) ==
  /\ cancel[w]
  /\ task[w] \in Living
  /\ cancel' = [cancel EXCEPT ![w] = FALSE]
  /\ IF task[w] = "stopping" THEN Ends(w, "cancelled") /\ UNCHANGED why
     ELSE Leaves(w, "cancelled")
  /\ UNCHANGED <<runtimeVars, stop, abandoned>>

----------------------------------------------------------------------------
(* close(), and the cleaning up after a failed start().                    *)

CloseResources ==
  /\ stage' = "awaiting"
  /\ turn' = 1
  /\ stop' = [w \in Enabled |-> TRUE]

Awaited == Order[turn]

\* Mutation: a worker that was cancelled is not waited for.
NoWaitAfterCancel ==
  /\ stage = "awaiting"
  /\ turn <= Len(Order)
  /\ Awaited \in Enabled /\ task[Awaited] \in Living
  /\ turn' = turn + 1
  /\ cancel' = [cancel EXCEPT ![Awaited] = TRUE]
  /\ UNCHANGED <<stage, open, broken, task, why, stop, failure, abandoned>>

\* The worker had its time to finish what it was at.
GraceEnds ==
  /\ stage = "awaiting"
  /\ turn <= Len(Order)
  /\ Awaited \in Enabled /\ task[Awaited] \in Living
  /\ stage' = "forcing"
  /\ cancel' = [cancel EXCEPT ![Awaited] = TRUE]
  /\ UNCHANGED <<turn, open, broken, task, why, stop, failure, abandoned>>

\* The awaited worker is over, has never been created, or is switched off.
WorkerAwaited ==
  /\ stage \in {"awaiting", "forcing"}
  /\ turn <= Len(Order)
  /\ Awaited \in Enabled => task[Awaited] \in Over \cup {"none"}
  /\ stage' = "awaiting"
  /\ turn' = turn + 1
  /\ UNCHANGED <<open, broken, taskVars, failure, abandoned>>

AllAwaited ==
  /\ stage = "awaiting"
  /\ turn > Len(Order)
  /\ stage' = "releasing"
  /\ turn' = 1
  /\ UNCHANGED <<open, broken, taskVars, failure, abandoned>>

\* One resource is closed, or its close raises, which is noted.
Release ==
  /\ stage = "releasing"
  /\ turn <= Len(Resources)
  /\ turn' = turn + 1
  /\ \/ open' = open \ {Resources[turn]} /\ UNCHANGED broken
     \/ /\ Resources[turn] \in open
        /\ broken' = broken \cup {Resources[turn]}
        /\ UNCHANGED open
  /\ UNCHANGED <<stage, taskVars, failure, abandoned>>

Closed ==
  /\ stage = "releasing"
  /\ turn > Len(Resources)
  /\ stage' = "closed"
  /\ UNCHANGED <<turn, open, broken, taskVars, failure, abandoned>>

\* close() is cancelled while it waits for a worker to finish, which is shielded: the
\* error is noted, and the next worker has its turn.
WaitCancelled ==
  /\ stage = "awaiting"
  /\ turn <= Len(Order)
  /\ Awaited \in Enabled /\ task[Awaited] \in Living
  /\ turn' = turn + 1
  /\ abandoned' = abandoned \cup {Awaited}
  /\ UNCHANGED <<stage, open, broken, taskVars, failure>>

\* close() is cancelled while it awaits a worker that it has cancelled: the cancellation
\* is passed on to the worker, and the wait goes on.
CancelForwarded ==
  /\ stage = "forcing"
  /\ turn <= Len(Order)
  /\ Awaited \in Enabled /\ task[Awaited] \in Living
  /\ cancel' = [cancel EXCEPT ![Awaited] = TRUE]
  /\ UNCHANGED <<stage, turn, open, broken, task, why, stop, failure, abandoned>>

----------------------------------------------------------------------------
(* start().                                                                *)

\* Anything that goes wrong, a cancellation included, cleans up.
StartFails ==
  /\ stage \in Starting
  /\ CloseResources
  /\ UNCHANGED <<open, broken, task, why, cancel, failure, abandoned>>

CheckDatabase ==
  /\ stage = "checking"
  /\ stage' = "connecting"
  /\ UNCHANGED <<turn, open, broken, taskVars, failure, abandoned>>

\* The publisher is connected and the tasks are created; each runs to its
\* first await before start() looks at them.
StartWorkers ==
  /\ stage = "connecting"
  /\ open' = open \cup {"publisher"}
  /\ stage' = "spawned"
  /\ task' = [w \in Enabled |-> IF w \in Consuming THEN "starting" ELSE "cycle"]
  /\ UNCHANGED <<turn, broken, why, stop, cancel, failure, abandoned>>

\* A worker that has failed by now fails the start.
VerifyWorkers ==
  /\ stage = "spawned"
  /\ IF \E w \in Enabled : task[w] = "failed"
     THEN CloseResources
     ELSE stage' = "up" /\ UNCHANGED <<turn, stop>>
  /\ UNCHANGED <<open, broken, task, why, cancel, failure, abandoned>>

Close ==
  /\ stage = "up"
  /\ CloseResources
  /\ UNCHANGED <<open, broken, task, why, cancel, failure, abandoned>>

----------------------------------------------------------------------------
LifecycleInit ==
  /\ stage = "checking"
  /\ turn = 1
  /\ open = Resource \ {"publisher"}
  /\ broken = {}
  /\ task = [w \in Enabled |-> "none"]
  /\ why = [w \in Enabled |-> "done"]
  /\ stop = [w \in Enabled |-> FALSE]
  /\ cancel = [w \in Enabled |-> FALSE]
  /\ failure = {}
  /\ abandoned = {}

LifecycleNext ==
  \/ CheckDatabase \/ StartWorkers \/ VerifyWorkers \/ StartFails
  \/ Close \/ GraceEnds \/ WorkerAwaited \/ AllAwaited \/ WaitCancelled
  \/ CancelForwarded
  \/ Release \/ Closed
  \/ \E w \in Enabled :
       Connect(w) \/ CycleEnds(w) \/ Wakes(w) \/ ConsumerCloses(w) \/ CancelArrives(w)

ShuttingDown == GraceEnds \/ WorkerAwaited \/ AllAwaited \/ Release \/ Closed

\* Awaits with a timeout end, a cancellation arrives, connections get closed.
\* No worker has to end its cycle, or its start, by itself.
LifecycleFairness ==
  /\ WF_lifecycleVars(ShuttingDown)
  /\ \A w \in Enabled : /\ WF_lifecycleVars(CancelArrives(w))
                        /\ WF_lifecycleVars(ConsumerCloses(w))

----------------------------------------------------------------------------
LifecycleTypeOK ==
  /\ stage \in Starting \cup Closing \cup {"up", "closed"}
  /\ turn \in 1..(Len(Order) + Len(Resources) + 1)
  /\ open \subseteq Resource
  /\ broken \subseteq open
  /\ task \in [Enabled -> Living \cup Over \cup {"none"}]
  /\ why \in [Enabled -> Over]
  /\ stop \in [Enabled -> BOOLEAN]
  /\ cancel \in [Enabled -> BOOLEAN]
  /\ failure \subseteq Enabled
  /\ abandoned \subseteq Enabled

\* A worker that is waited for never works through a closed connection.
\* runtime.py:634-699: workers first, then the publisher, the clients and the
\* engine.
ResourcesOutliveWorkers ==
  \A w \in Enabled :
    task[w] \in Living /\ w \notin abandoned => Needs(w) \subseteq open

\* However the process got here, a start that failed half way included: what
\* is still connected is what could not be closed, and no task goes on that
\* was waited for.
NothingIsLeftBehind ==
  stage = "closed" =>
    /\ open = broken
    /\ \A w \in Enabled : task[w] \in Over \cup {"none"} \/ w \in abandoned

\* While the process serves, no worker is over without readiness knowing it.
NoSilentDeath == stage = "up" => \A w \in Enabled : task[w] \in Over => w \in failure

\* Shutdown, of a started or of a half started process, keeps its order.
ShutdownIsOrderly == ResourcesOutliveWorkers /\ NothingIsLeftBehind /\ NoSilentDeath

\* Once begun a shutdown ends, whatever the workers are doing.
ShutdownEnds == (stage \in Closing) ~> (stage = "closed")
=============================================================================
