----------------------------- MODULE FaultDrill -----------------------------
(* Drills on the shop: a driver injects a fault, causes traffic, waits for the *)
(* incident that the alert brings about, has it analysed, and puts everything  *)
(* back.  "runner" takes scenarios one by one and judges them, "executor"       *)
(* keeps what was seen, "pair" has two faults at a time.  The shop, its alerts  *)
(* and the incidents move by themselves; a driver may be killed and run again. *)
EXTENDS Naturals, Sequences, FiniteSets

LOCAL INSTANCE SequencesExt
LOCAL INSTANCE Functions

CONSTANTS
  DrillService,      \* services faults are injected into
  DrillRule,         \* alert rules: a service, with the title its scenario names or another
  MaxFirings         \* times one alert starts to fire

Firing == DrillRule \X (1..MaxFirings)

VARIABLES
  drill,      \* who drives, the plan (sequences of services), the rules there are for it,
              \* runs begun at most
  place,      \* place in the plan
  go,         \* runs begun, which number them
  stands,     \* where the driver is
  left,       \* services, or incidents, the step is still to be taken for
  found,      \* incidents of this run
  broke,      \* an error is on its way out
  spoiled,    \* a reset has failed, or a driver was killed
  brought,    \* what runs have brought
  judged,     \* the judgements of the runner
  report,     \* what it wrote, at most one
  injected,   \* the shop: faults that are active,
  gauge,      \* faults its gauges show,
  cause,      \* the run that last made a service fail
  stirred,    \* alerts whose rule may fire
  alarm,      \* alerts that fire
  fired,      \* times each has
  incidents,  \* of each firing that opened one
  relayed,    \* firings the platform has taken
  fresh       \* runs that began with nothing left over

driverVars == <<drill, place, go, stands, left, found, broke, spoiled, brought, judged,
                report, fresh>>
shopVars == <<injected, gauge, cause, stirred>>
alertVars == <<alarm, fired, incidents, relayed>>
drillVars == <<driverVars, shopVars, alertVars>>

Stands == {"start", "clean", "change", "inject", "trigger", "await", "analyse", "poll", "judge",
           "settle", "tidy", "clear", "list", "next", "over", "aborted"}

DrillTypeOK ==
  /\ place \in 1..(Len(drill.plan) + 1) /\ go \in 0..drill.runs /\ stands \in Stands
  /\ found \in Seq(Firing)
  /\ left \in Seq(IF stands \in {"analyse", "poll", "settle"} THEN DOMAIN incidents ELSE DrillService)
  /\ {broke, spoiled} \subseteq BOOLEAN
  /\ injected \subseteq DrillService /\ gauge \subseteq DrillService /\ cause \in [DrillService -> 0..drill.runs]
  /\ stirred \subseteq DrillRule /\ alarm \subseteq DrillRule /\ fired \in [DrillRule -> 0..MaxFirings]
  /\ DOMAIN incidents \subseteq relayed /\ relayed \subseteq Firing /\ fresh \subseteq 1..drill.runs

DrillInit ==
  /\ place = 1 /\ go = 0 /\ stands = "start" /\ left = <<>> /\ found = <<>>
  /\ broke = FALSE /\ spoiled = FALSE
  /\ brought = {} /\ judged = {} /\ report = {} /\ fresh = {}
  /\ injected = {} /\ gauge = {} /\ cause = [s \in DrillService |-> 0] /\ stirred = {}
  /\ alarm = {} /\ fired = [a \in DrillRule |-> 0] /\ incidents = <<>> /\ relayed = {}

----------------------------------------------------------------------------
(* The shop and its alerts.                                                 *)

\* Bounds: nothing is followed up once the last run is over, and it is not killed.
Lasts == go < drill.runs \/ stands \notin {"over", "aborted"}

\* A fault ends by itself, which matters to a trigger still to come; its gauge stays
\* until the next reset.
Expire(s) ==
  /\ stands = "trigger" /\ s \in injected
  /\ injected' = injected \ {s}
  /\ UNCHANGED <<driverVars, gauge, cause, stirred, alertVars>>

Fires(a) ==
  /\ Lasts /\ a \in stirred \ alarm /\ fired[a] < MaxFirings
  /\ alarm' = alarm \cup {a} /\ fired' = [fired EXCEPT ![a] = @ + 1]
  /\ UNCHANGED <<driverVars, shopVars, incidents, relayed>>

\* What a rule looks at fades once the gauge is down.
Fades(a) ==
  /\ Lasts /\ a \in stirred /\ a[1] \notin gauge
  /\ stirred' = stirred \ {a} /\ alarm' = alarm \ {a}
  /\ UNCHANGED <<driverVars, injected, gauge, cause, fired, incidents, relayed>>

ActiveOf(s) == {f \in DOMAIN incidents : f[1][1] = s /\ incidents[f].status \in {"OPEN", "ANALYZING"}}

\* A firing alert is relayed: to the incident of its service, or as a new one.  What
\* comes while a run winds up may be young enough for the next one.
Relay(a, late) ==
  LET f == <<a, fired[a]>>
      winding == stands \in {"tidy", "clear", "list", "settle", "next", "over", "aborted", "start"} IN
  /\ Lasts /\ a \in alarm /\ f \notin relayed
  /\ relayed' = relayed \cup {f}
  /\ late => winding
  /\ IF ActiveOf(a[1]) # {}
     THEN ~late /\ UNCHANGED incidents
     ELSE incidents' = [g \in DOMAIN incidents \cup {f} |->
            IF g = f THEN [status |-> "OPEN", era |-> go, late |-> late, by |-> cause[a[1]],
                           work |-> "none", whole |-> FALSE, analysed |-> {}]
            ELSE incidents[g]]
  /\ UNCHANGED <<driverVars, shopVars, alarm, fired>>

\* An analysis ends, and what it found can be read some time after.  It is followed
\* while somebody asks.
AnalysisEnds(f, end, whole) ==
  /\ stands = "poll"
  /\ \/ incidents[f].work = "running"
     \/ incidents[f].work = "SUCCEEDED" /\ ~incidents[f].whole /\ end = "SUCCEEDED" /\ whole
  /\ whole => end = "SUCCEEDED"
  /\ incidents' = [incidents EXCEPT ![f].work = end, ![f].whole = whole]
  /\ UNCHANGED <<driverVars, shopVars, alarm, fired, relayed>>

----------------------------------------------------------------------------
(* The driver.                                                              *)

InTurn == IF place > Len(drill.plan) THEN <<>> ELSE drill.plan[place]

StandsAt(spot) == stands = spot
LeadsTo(spot, rest) == stands' = spot /\ left' = rest

\* The step is taken for one more, in order; the last leads on.
After(x, spot, rest) ==
  IF left = <<x>> THEN LeadsTo(spot, rest)
  ELSE left' = SelectSeq(left, LAMBDA y : y # x) /\ UNCHANGED stands
Done(x, spot, rest) == left # <<>> /\ x = Head(left) /\ After(x, spot, rest)

\* An error ends the run by its way out.
Raise == /\ broke' = TRUE
         /\ IF StandsAt("clear") \/ StandsAt("list") \/ (StandsAt("settle") /\ drill.by # "runner")
            THEN LeadsTo("aborted", <<>>) ELSE LeadsTo("tidy", <<>>)

KeepsRest(vars) == UNCHANGED <<drill, place, go, spoiled, judged, report, fresh>> /\ UNCHANGED vars

BeginRun ==
  /\ StandsAt("start") /\ go < drill.runs
  /\ go' = go + 1 /\ found' = <<>> /\ broke' = FALSE
  /\ fresh' = IF \A s \in Range(InTurn) : ActiveOf(s) = {} /\ {a \in stirred \cup alarm : a[1] = s} = {}
              THEN fresh \cup {go + 1} ELSE fresh
  /\ LeadsTo("clean", <<>>)
  /\ UNCHANGED <<drill, place, spoiled, brought, judged, report, shopVars, alertVars>>

\* The stack is not ready, or the permissions cannot be written.
Unprepared ==
  /\ StandsAt("start") /\ place = 1
  /\ LeadsTo("aborted", <<>>)
  /\ UNCHANGED <<drill, place, go, found, broke, spoiled, brought, judged, report, fresh,
                 shopVars, alertVars>>

Reset == injected' = {} /\ gauge' = {} /\ UNCHANGED <<cause, stirred>>

Clean ==
  /\ StandsAt("clean") /\ Reset /\ LeadsTo("change", InTurn)
  /\ KeepsRest(<<found, broke, brought, alertVars>>)

\* A deployment is put on record before its fault.
RecordChange(s) ==
  /\ StandsAt("change") /\ Done(s, "inject", InTurn)
  /\ KeepsRest(<<found, broke, brought, shopVars, alertVars>>)

Inject(s) ==
  /\ StandsAt("inject") /\ Done(s, "trigger", InTurn)
  /\ injected' = injected \cup {s} /\ gauge' = gauge \cup {s}
  /\ KeepsRest(<<found, broke, brought, cause, stirred, alertVars>>)

\* The answer of the shop is the one the fault gives.  A pair asks for both at once.
Trigger(s) ==
  /\ StandsAt("trigger") /\ s \in Range(left) \cap injected
  /\ stirred' = stirred \cup {a \in drill.rules : a[1] = s}
  /\ cause' = [cause EXCEPT ![s] = go]
  /\ After(s, "await", InTurn)
  /\ KeepsRest(<<found, broke, brought, injected, gauge, alertVars>>)

\* An incident created since the run began, or ten seconds before.
Fits(f) == incidents[f].era = go \/ (incidents[f].era = go - 1 /\ incidents[f].late)

\* Of the service and open: the one with the title, else the newest there is.
Suspects(s) ==
  {f \in DOMAIN incidents : f[1][1] = s /\ incidents[f].status = "OPEN" /\ Fits(f)}
Titled(s) == {f \in Suspects(s) : f[1][2] = "own"}
Newest(fs) == {f \in fs : \A g \in fs : incidents[g].era <= incidents[f].era}
ChosenOf(s) == IF Titled(s) # {} \/ drill.by = "runner" THEN Titled(s) ELSE Newest(Suspects(s))

\* A pair has its incidents only once it has both.
FindIncident(s, f) ==
  /\ StandsAt("await") /\ f \in ChosenOf(s)
  /\ found' = Append(found, f) /\ Done(s, "analyse", found')
  /\ KeepsRest(<<broke, brought, shopVars, alertVars>>)

StartAnalysis(f) ==
  /\ StandsAt("analyse") /\ Done(f, "poll", found)
  /\ incidents[f].status \in {"OPEN", "ANALYZING"}
  /\ incidents' = [incidents EXCEPT ![f].status = "ANALYZING", ![f].work = "running",
                                    ![f].whole = FALSE, ![f].analysed = @ \cup {go}]
  /\ KeepsRest(<<found, broke, brought, shopVars, alarm, fired, relayed>>)

\* What counts as an end: the runner takes a success as it is, the others wait until
\* all of it can be read, and a pair keeps a failure as well.
Terminal(f) ==
  CASE incidents[f].work = "SUCCEEDED" -> drill.by = "runner" \/ incidents[f].whole
    [] OTHER -> incidents[f].work = "FAILED" /\ drill.by = "pair"

ReadResult(f) ==
  /\ StandsAt("poll") /\ Terminal(f)
  /\ brought' = brought \cup {[go |-> go, of |-> f, end |-> incidents[f].work, whole |-> incidents[f].whole]}
  /\ Done(f, IF drill.by = "runner" THEN "judge" ELSE "tidy", <<>>)
  /\ KeepsRest(<<found, broke, shopVars, alertVars>>)

\* Evidence, calls, root cause and signals; nothing passes that has nothing to show.
Judge(passed) ==
  /\ StandsAt("judge")
  /\ passed => \A r \in brought : r.go = go => r.whole
  /\ judged' = judged \cup {[go |-> go, place |-> place, passed |-> passed]}
  /\ LeadsTo("settle", found)
  /\ UNCHANGED <<drill, place, go, found, broke, spoiled, brought, report, fresh, shopVars, alertVars>>

\* Resolved and closed, if it is still to be.
Settle(f) ==
  /\ StandsAt("settle")
  /\ drill.by = "runner" => incidents[f].status \in {"OPEN", "ANALYZING"}
  /\ incidents' = IF f \in ActiveOf(f[1][1]) THEN [incidents EXCEPT ![f].status = "CLOSED"] ELSE incidents
  /\ Done(f, IF drill.by = "runner" THEN "tidy" ELSE "next", <<>>)
  /\ KeepsRest(<<found, broke, brought, shopVars, alarm, fired, relayed>>)

\* A request fails, or what is waited for does not come in time; what a request did it
\* may have done.  A pair that misses one incident has none.
StepFails ==
  /\ stands \in {"clean", "change", "inject", "trigger", "await", "analyse", "poll", "judge",
                 "settle", "clear", "list"}
  /\ Raise
  /\ found' = IF StandsAt("await") THEN <<>> ELSE found
  /\ KeepsRest(<<brought, shopVars, alertVars>>)

\* It is resolved, and then not closed.
HalfSettled(f) ==
  /\ StandsAt("settle") /\ f = Head(left) /\ f \in ActiveOf(f[1][1])
  /\ incidents' = [incidents EXCEPT ![f].status = "RESOLVED"]
  /\ Raise
  /\ KeepsRest(<<found, brought, shopVars, alarm, fired, relayed>>)

\* On every way out the faults are reset.  What the others found they settle, once the
\* alert is over.
Tidy ==
  /\ StandsAt("tidy") /\ Reset
  /\ CASE drill.by = "runner" -> LeadsTo("next", <<>>)
       [] drill.by = "executor" /\ found = <<>> -> LeadsTo("next", <<>>)
       [] OTHER -> LeadsTo("clear", InTurn)
  /\ KeepsRest(<<found, broke, brought, alertVars>>)

TidyFails ==
  /\ StandsAt("tidy")
  /\ spoiled' = TRUE /\ broke' = TRUE /\ LeadsTo("aborted", <<>>)
  /\ UNCHANGED <<drill, place, go, found, brought, judged, report, fresh, shopVars, alertVars>>

\* Seen inactive for four seconds.
AwaitClear(s) ==
  /\ StandsAt("clear") /\ <<s, "own">> \notin alarm /\ Done(s, "list", <<>>)
  /\ KeepsRest(<<found, broke, brought, shopVars, alertVars>>)

\* The executor settles what else came up for its service, a pair what it found.
List ==
  LET more == {f \in UNION {ActiveOf(s) : s \in Range(InTurn)} : drill.by = "executor" /\ Fits(f)} IN
  /\ StandsAt("list")
  /\ LET all == found \o SetToSeq(more \ Range(found)) IN
     LeadsTo(IF all = <<>> THEN "next" ELSE "settle", all)
  /\ KeepsRest(<<found, broke, brought, shopVars, alertVars>>)

\* An error ends the drill; the runner writes its report at the end.
NextTurn ==
  /\ StandsAt("next")
  /\ IF broke THEN LeadsTo("aborted", <<>>) /\ UNCHANGED <<place, report>>
     ELSE /\ place' = place + 1
          /\ LeadsTo(IF place = Len(drill.plan) THEN "over" ELSE "start", <<>>)
          /\ report' = IF place = Len(drill.plan) /\ drill.by = "runner"
                       THEN {\A j \in judged : j.passed} ELSE report
  /\ UNCHANGED <<drill, go, found, broke, spoiled, brought, judged, fresh, shopVars, alertVars>>

Kill ==
  /\ stands \notin {"over", "aborted"} /\ ~spoiled /\ go < drill.runs
  /\ spoiled' = TRUE /\ LeadsTo("aborted", <<>>)
  /\ UNCHANGED <<drill, place, go, found, broke, brought, judged, report, fresh, shopVars, alertVars>>

RunAgain ==
  /\ stands \in {"over", "aborted"} /\ go < drill.runs
  /\ place' = 1 /\ LeadsTo("start", <<>>) /\ judged' = {}
  /\ UNCHANGED <<drill, go, found, broke, spoiled, brought, report, fresh, shopVars, alertVars>>

DrillNext ==
  \/ BeginRun \/ Unprepared \/ Clean \/ StepFails \/ Tidy \/ TidyFails \/ List \/ NextTurn
  \/ Kill \/ RunAgain
  \/ \E s \in DrillService : \/ RecordChange(s) \/ Inject(s) \/ Trigger(s) \/ AwaitClear(s) \/ Expire(s)
                        \/ \E f \in DOMAIN incidents : FindIncident(s, f)
  \/ \E f \in DOMAIN incidents : \/ StartAnalysis(f) \/ ReadResult(f) \/ Settle(f) \/ HalfSettled(f)
                                 \/ \E end \in {"SUCCEEDED", "FAILED"}, whole \in BOOLEAN :
                                      AnalysisEnds(f, end, whole)
  \/ \E a \in DrillRule : Fires(a) \/ Fades(a) \/ \E late \in BOOLEAN : Relay(a, late)
  \/ \E passed \in BOOLEAN : Judge(passed)

----------------------------------------------------------------------------
(* Properties.                                                              *)

\* However a run ends, no fault of it is left unless the reset failed or it was killed
\* (_execute_sync, run_pair, _run_scenario).
FaultsGone ==
  (stands \in {"next", "over", "aborted"} /\ ~spoiled) => injected = {} /\ gauge = {}

\* A run that began with nothing left over keeps only what its own fault brought about;
\* nothing is analysed for two runs, and incidents of a pair are of two services.
ResultsAreOwn ==
  /\ \A r \in brought : r.go \in fresh => incidents[r.of].by = r.go
  /\ \A f \in DOMAIN incidents : Cardinality(incidents[f].analysed) <= 1
  /\ \A r, q \in brought : (r.go = q.go /\ r # q) => r.of[1][1] # q.of[1][1]
  /\ \A r \in brought : r.end = "SUCCEEDED" /\ drill.by # "runner" => r.whole

\* A run that ended well has closed what it found, and no service of it has two
\* incidents that are open.
SettledBehind ==
  /\ (StandsAt("next") /\ ~broke) => \A f \in Range(found) : incidents[f].status = "CLOSED"
  /\ \A s \in DrillService : Cardinality(ActiveOf(s)) <= 1

\* The report is of a whole plan and says no more than the judgements.
ReportIsEarned ==
  (StandsAt("over") /\ drill.by = "runner") =>
    \A passed \in report :
      /\ passed => \A r \in brought : r.go \in {j.go : j \in judged} => r.whole
      /\ {j.place : j \in judged} = 1..Len(drill.plan)

DrillsAreSound == FaultsGone /\ ResultsAreOwn /\ SettledBehind /\ ReportIsEarned

=============================================================================
