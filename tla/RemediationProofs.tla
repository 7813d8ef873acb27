------------------------- MODULE RemediationProofs -------------------------
(***************************************************************************)
(* Remediation, for any number of requests, people and keys.               *)
(*                                                                         *)
(* The version of the row is a number that two statuses share, so by       *)
(* itself it does not say that the row is as it was loaded.  What makes    *)
(* the conditional writes exact is that a plan only moves forward: from    *)
(* what a process loaded, the status with the same version is the same     *)
(* status (SameVersion, WritesAreExact).  The rest follows: every step     *)
(* moves forward (StepsAdvance), what processes rely on is kept by such    *)
(* steps (TasksAreKept), and the controller has one answer for each phase. *)
(***************************************************************************)
EXTENDS Remediation, TLAPS

Calling == {"call", "wait", "recheck", "reload", "finish", "failstale"}

Done(phase, good) ==
  [call |-> [phase |-> phase, key |-> PlanKey], good |-> good] \in performed

\* What a process knows of the plan, from the step it is in.
TaskInv(p) ==
  /\ task[p].step # "idle" =>
       task[p].seen # "absent" /\ status \in Later[task[p].seen]
  /\ task[p].step = "decide" =>
       /\ task[p].seen = "DRAFT"
       /\ task[p].by \in Operator
       /\ task[p].good => task[p].by # author
  /\ task[p].step = "claim" =>
       task[p].phase \in CalledPhase /\ task[p].seen = From[task[p].phase]
  /\ task[p].step \in Calling =>
       /\ task[p].phase \in CalledPhase
       /\ status \in Later[Running[task[p].phase]]
  /\ task[p].step \in {"call", "wait"} =>
       claim[task[p].phase] = [key |-> task[p].key, by |-> task[p].by]
  /\ task[p].step \in {"finish", "failstale"} =>
       task[p].seen = Running[task[p].phase]
  /\ task[p].step \in {"reload", "finish"} =>
       Done(task[p].phase, task[p].good)

PlanInv ==
  /\ status # "absent" => author \in Operator
  /\ status \in Later["APPROVED"] => claim["decide"].by \in Operator \ {author}
  /\ \A call \in calls : status \in Later[Running[call.phase]]
  /\ \A s \in told : status \in Later[s]

ControllerInv ==
  /\ \A a, b \in performed : a.call = b.call => a = b
  /\ status \in Later["SUCCEEDED"] => Done("execute", TRUE)
  /\ status = "FAILED" /\ source["execute"] = "controller"
       => Done("execute", FALSE)
  /\ status = "ROLLED_BACK" => Done("rollback", TRUE)
  /\ status = "ROLLBACK_FAILED" /\ source["rollback"] = "controller"
       => Done("rollback", FALSE)
  /\ effect = IF Done("rollback", TRUE) THEN "undone"
              ELSE IF Done("execute", TRUE) THEN "applied" ELSE "none"

IInv ==
  /\ TypeOK
  /\ \A p \in Process : TaskInv(p)
  /\ PlanInv
  /\ ControllerInv

----------------------------------------------------------------------------
(* The order of the statuses.                                              *)

\* The statuses a plan may have.
LEMMA StatusValues ==
  Status = {"absent", "DRAFT", "APPROVED", "REJECTED", "EXECUTING", "SUCCEEDED",
            "FAILED", "ROLLING_BACK", "ROLLED_BACK", "ROLLBACK_FAILED"}
BY DEF Status, Version

\* What may follow a status is a status, and includes it.
LEMMA LaterValues ==
  \A s \in Status : Later[s] \subseteq Status /\ s \in Later[s]
BY StatusValues DEF Later

\* Being ahead of a status is transitive.
LEMMA LaterTransitive ==
  ASSUME NEW a \in Status, NEW b \in Later[a], NEW c \in Later[b]
  PROVE  c \in Later[a]
<1> USE StatusValues DEF Later
<1>1. CASE a \in {"absent", "DRAFT"}
  BY <1>1
<1>2. CASE a \in {"APPROVED", "REJECTED", "EXECUTING"}
  BY <1>2
<1>3. CASE a \in {"SUCCEEDED", "FAILED", "ROLLING_BACK"}
  BY <1>3
<1>4. CASE a \in {"ROLLED_BACK", "ROLLBACK_FAILED"}
  BY <1>4
<1> QED BY <1>1, <1>2, <1>3, <1>4

\* Ahead of a status, its version is its own.
LEMMA SameVersion ==
  ASSUME NEW s \in Status, NEW t \in Later[s], Version[t] = Version[s]
  PROVE  t = s
BY StatusValues, Z3 DEF Later, Version

\* A process writes only what it has loaded.
LEMMA WritesAreExact ==
  ASSUME NEW p \in Process, TypeOK, TaskInv(p), task[p].step # "idle",
         Unchanged(p)
  PROVE  status = task[p].seen
BY SameVersion DEF TypeOK, TaskInv, Unchanged

\* A phase starts where it has not been.
LEMMA PhaseOrder ==
  ASSUME NEW phase \in CalledPhase
  PROVE  /\ From[phase] \in Status /\ Running[phase] \in Status
         /\ Good[phase] \in Status /\ Poor[phase] \in Status
         /\ Running[phase] \in Later[From[phase]]
         /\ From[phase] \notin Later[Running[phase]]
         /\ Good[phase] \in Later[Running[phase]]
         /\ Poor[phase] \in Later[Running[phase]]
         /\ From[phase] # "absent" /\ Running[phase] # "absent"
BY StatusValues DEF CalledPhase, From, Running, Good, Poor, Later

----------------------------------------------------------------------------
(* Types.                                                                  *)

StepName == {"idle", "decide", "claim", "call", "wait", "recheck", "reload",
             "finish", "failstale"}

Task == [step : StepName, phase : Phase, key : Key \cup {NoOne},
         by : Operator \cup {NoOne}, seen : Status, good : BOOLEAN]

\* TypeOK but for the tasks.
PlanType ==
  /\ status \in Status
  /\ author \in Operator \cup {NoOne}
  /\ claim \in [Phase -> [key : Key \cup {NoOne}, by : Operator \cup {NoOne}]]
  /\ expired \in BOOLEAN
  /\ source \in [Phase -> {"open", "controller", "lease"}]
  /\ calls \subseteq [phase : CalledPhase, key : {PlanKey}]
  /\ performed \subseteq [call : calls, good : BOOLEAN]
  /\ effect \in {"none", "applied", "undone"}
  /\ told \subseteq Status

\* TypeOK is the type of the plan and of each task.
LEMMA TypeParts == TypeOK <=> PlanType /\ task \in [Process -> Task]
BY DEF TypeOK, PlanType, Task, StepName

\* The idle task is a task.
LEMMA IdleType == Idle \in Task
BY StatusValues DEF Idle, Phase, Task, StepName

\* The initial states are typed.
LEMMA TypeInit == Init => TypeOK
<1> SUFFICES ASSUME Init PROVE TypeOK
  OBVIOUS
<1>1. task \in [Process -> Task]
  BY IdleType DEF Init
<1>2. PlanType
  BY StatusValues DEF Init, PlanType
<1> QED BY <1>1, <1>2, TypeParts

\* What processes do to their tasks.
LEMMA TaskUpdates ==
  ASSUME task \in [Process -> Task], status \in Status, NEW p \in Process
  PROVE  /\ Return(p) => task' \in [Process -> Task]
         /\ \A step \in StepName :
              Continue(p, step) => task' \in [Process -> Task]
         /\ \A step \in StepName :
              task' = [task EXCEPT ![p].step = step, ![p].seen = status]
                => task' \in [Process -> Task]
         /\ \A step \in StepName, good \in BOOLEAN :
              task' = [task EXCEPT ![p].step = step, ![p].good = good]
                => task' \in [Process -> Task]
         /\ \A step \in StepName, phase \in Phase, key \in Key \cup {NoOne},
               by \in Operator \cup {NoOne} :
              Load(p, step, phase, key, by) => task' \in [Process -> Task]
<1>1. Return(p) => task' \in [Process -> Task]
  BY IdleType DEF Return
<1>2. ASSUME NEW step \in StepName, Continue(p, step)
      PROVE  task' \in [Process -> Task]
  BY <1>2 DEF Continue, Task
<1>3. ASSUME NEW step \in StepName,
             task' = [task EXCEPT ![p].step = step, ![p].seen = status]
      PROVE  task' \in [Process -> Task]
  BY <1>3 DEF Task
<1>4. ASSUME NEW step \in StepName, NEW good \in BOOLEAN,
             task' = [task EXCEPT ![p].step = step, ![p].good = good]
      PROVE  task' \in [Process -> Task]
  BY <1>4 DEF Task
<1>5. ASSUME NEW step \in StepName, NEW phase \in Phase,
             NEW key \in Key \cup {NoOne}, NEW by \in Operator \cup {NoOne},
             Load(p, step, phase, key, by)
      PROVE  task' \in [Process -> Task]
  <2>1. [step |-> step, phase |-> phase, key |-> key, by |-> by,
         seen |-> status, good |-> FALSE] \in Task
    BY DEF Task
  <2> QED BY <1>5, <2>1 DEF Load
<1> QED BY <1>1, <1>2, <1>3, <1>4, <1>5

\* Every step keeps the types.
LEMMA TypeStep == IInv /\ [Next]_vars => TypeOK'
<1> SUFFICES ASSUME IInv, [Next]_vars PROVE TypeOK'
  OBVIOUS
<1>0. /\ CalledPhase \subseteq Phase /\ Handler \subseteq Process
      /\ Reclaimer \in Process /\ "decide" \in Phase
      /\ \A phase \in Phase : Good[phase] \in Status /\ Poor[phase] \in Status
      /\ \A phase \in CalledPhase : Running[phase] \in Status
      /\ \A phase \in Phase, good \in BOOLEAN : Result(phase, good) \in Status
      /\ {"idle", "decide", "claim", "call", "wait", "recheck", "reload",
          "finish", "failstale"} \subseteq StepName
  BY StatusValues DEF CalledPhase, Phase, Process, Good, Poor, Running, Result,
                      StepName
<1>00. /\ \A p \in Process : TaskInv(p)
       /\ PlanType
       /\ task \in [Process -> Task]
  BY TypeParts DEF IInv
<1>01. \A p \in Process :
         /\ task[p].phase \in Phase /\ task[p].good \in BOOLEAN
         /\ task[p].key \in Key \cup {NoOne}
         /\ task[p].by \in Operator \cup {NoOne}
         /\ [key |-> task[p].key, by |-> task[p].by]
              \in [key : Key \cup {NoOne}, by : Operator \cup {NoOne}]
  BY <1>00 DEF Task
<1>02. ASSUME UNCHANGED task PROVE task' \in [Process -> Task]
  BY <1>02, <1>00
<1>03. ASSUME UNCHANGED <<planVars, controllerVars, told>> PROVE PlanType'
  BY <1>03, <1>00 DEF PlanType, planVars, controllerVars
<1>04. status \in Status
  BY <1>00 DEF PlanType
<1> DEFINE Types == PlanType' /\ task' \in [Process -> Task]
<1>1. ASSUME NEW o \in Operator, Create(o) PROVE Types
  BY <1>00, <1>1, <1>02, StatusValues DEF Create, controllerVars, PlanType
<1>2. ASSUME NEW h \in Handler, Request(h) PROVE Types
  <2>1. ASSUME NEW k \in Key, NEW o \in Operator, NEW approved \in BOOLEAN,
               DecideLoads(h, k, o, approved)
        PROVE  Types
    <3>1. [step |-> "decide", phase |-> "decide", key |-> k, by |-> o,
           seen |-> status, good |-> approved] \in Task
      BY <1>0, <1>04 DEF Task
    <3> QED BY <1>00, <1>03, <2>1, <3>1 DEF DecideLoads
  <2>2. ASSUME NEW k \in Key, NEW o \in Operator, NEW phase \in CalledPhase,
               RequestLoads(h, phase, k, o) \/ ReplayRunning(h, phase, k, o)
        PROVE  Types
    <3>1. \E step \in StepName : Load(h, step, phase, k, o)
      BY <1>0, <2>2 DEF RequestLoads, ReplayRunning
    <3>2. task' \in [Process -> Task]
      BY <1>0, <1>00, <1>04, <3>1, TaskUpdates
    <3> QED BY <1>03, <2>2, <3>2 DEF RequestLoads, ReplayRunning
  <2>3. ASSUME NEW k \in Key, NEW phase \in CalledPhase,
               ReplayEnded(h, phase, k)
        PROVE  Types
    BY <1>00, <1>02, <2>3 DEF ReplayEnded, PlanType, planVars, controllerVars
  <2>4. ASSUME NEW k \in Key, NEW o \in Operator, ReplayDecided(h, k, o)
        PROVE  Types
    BY <1>00, <1>02, <2>4 DEF ReplayDecided, PlanType, planVars, controllerVars
  <2> QED BY <1>2, <2>1, <2>2, <2>3, <2>4 DEF Request
<1>3. ASSUME NEW h \in Handler, Decide(h) PROVE Types
  <2>1. task' \in [Process -> Task]
    BY <1>0, <1>00, <1>04, <1>3, TaskUpdates DEF Decide
  <2>2. Result("decide", task[h].good) \in Status
    BY <1>0, <1>01
  <2>3. CASE Unchanged(h)
    <3>1. status' \in Status /\ told' \subseteq Status
      BY <1>00, <1>3, <2>2, <2>3 DEF Decide, PlanType
    <3>2. claim' \in [Phase -> [key : Key \cup {NoOne},
                               by : Operator \cup {NoOne}]]
      BY <1>0, <1>00, <1>01, <1>3, <2>3 DEF Decide, PlanType
    <3>3. source' \in [Phase -> {"open", "controller", "lease"}]
      BY <1>00, <1>3, <2>3 DEF Decide, PlanType
    <3> QED BY <1>00, <1>3, <2>1, <3>1, <3>2, <3>3
            DEF Decide, controllerVars, PlanType
  <2>4. CASE ~Unchanged(h)
    BY <1>00, <1>3, <2>1, <2>4 DEF Decide, controllerVars, PlanType
  <2> QED BY <2>3, <2>4
<1>4. ASSUME NEW h \in Handler, Claim(h) PROVE Types
  <2>1. task' \in [Process -> Task]
    BY <1>0, <1>00, <1>04, <1>4, TaskUpdates DEF Claim
  <2>2. task[h].phase \in CalledPhase
    BY <1>0, <1>00, <1>4 DEF Claim, TaskInv
  <2>3. CASE Unchanged(h)
    <3>1. status' \in Status /\ expired' \in BOOLEAN
      BY <1>0, <1>4, <2>2, <2>3 DEF Claim
    <3>2. claim' \in [Phase -> [key : Key \cup {NoOne},
                               by : Operator \cup {NoOne}]]
      <4>1. claim' = [claim EXCEPT ![task[h].phase] =
                        [key |-> task[h].key, by |-> task[h].by]]
        BY <1>4, <2>3 DEF Claim
      <4>2. [key |-> task[h].key, by |-> task[h].by]
              \in [key : Key \cup {NoOne}, by : Operator \cup {NoOne}]
        BY <1>0, <1>01
      <4>3. claim \in [Phase -> [key : Key \cup {NoOne},
                                by : Operator \cup {NoOne}]]
        BY <1>00 DEF PlanType
      <4> QED BY <4>1, <4>2, <4>3
    <3> QED BY <1>00, <1>4, <2>1, <3>1, <3>2
            DEF Claim, controllerVars, PlanType
  <2>4. CASE ~Unchanged(h)
    BY <1>00, <1>4, <2>1, <2>4 DEF Claim, controllerVars, PlanType
  <2> QED BY <2>3, <2>4
<1>5. ASSUME NEW h \in Handler, Call(h) PROVE Types
  <2>1. task' \in [Process -> Task]
    BY <1>0, <1>00, <1>04, <1>5, TaskUpdates DEF Call
  <2>2. task[h].phase \in CalledPhase
    BY <1>0, <1>00, <1>5 DEF Call, TaskInv, Calling
  <2>3. calls' \subseteq [phase : CalledPhase, key : {PlanKey}]
    BY <1>00, <1>5, <2>2 DEF Call, CallKey, PlanType
  <2>4. performed' \subseteq [call : calls', good : BOOLEAN]
    BY <1>00, <1>5 DEF Call, PlanType
  <2> QED BY <1>00, <1>5, <2>1, <2>3, <2>4 DEF Call, planVars, PlanType
<1>6. ASSUME NEW h \in Handler, Answered(h) PROVE Types
  <2>1. PICK good \in BOOLEAN :
          task' = [task EXCEPT ![h].step = "reload", ![h].good = good]
    BY <1>00, <1>6 DEF Answered, PlanType
  <2>2. task' \in [Process -> Task]
    BY <1>0, <1>00, <1>04, <2>1, TaskUpdates
  <2> QED BY <1>03, <1>6, <2>2 DEF Answered
<1>7. ASSUME NEW h \in Handler, NotAnswered(h) \/ Recheck(h) PROVE Types
  <2>1. task' \in [Process -> Task]
    BY <1>0, <1>00, <1>04, <1>7, TaskUpdates DEF NotAnswered, Recheck
  <2> QED BY <1>03, <1>7, <2>1 DEF NotAnswered, Recheck
<1>8. ASSUME NEW h \in Handler, Reload(h) PROVE Types
  <2>1. task' \in [Process -> Task]
    <3>1. \/ Return(h)
          \/ \E step \in StepName :
               task' = [task EXCEPT ![h].step = step, ![h].seen = status]
      BY <1>0, <1>8 DEF Reload
    <3> QED BY <1>0, <1>00, <1>04, <3>1, TaskUpdates
  <2>2. told' \subseteq Status
    BY <1>00, <1>8 DEF Reload, PlanType
  <2> QED BY <1>00, <1>8, <2>1, <2>2 DEF Reload, planVars, controllerVars,
                                         PlanType
<1>9. ASSUME NEW h \in Handler, Finish(h) PROVE Types
  <2>1. task' \in [Process -> Task]
    BY <1>0, <1>00, <1>04, <1>9, TaskUpdates DEF Finish
  <2>2. Result(task[h].phase, task[h].good) \in Status
    <3>1. task[h].phase \in Phase /\ task[h].good \in BOOLEAN
      BY <1>0, <1>01
    <3> QED BY <1>0, <3>1
  <2>3. CASE Unchanged(h)
    <3>1. status' \in Status /\ told' \subseteq Status
      BY <1>00, <1>9, <2>2, <2>3 DEF Finish, PlanType
    <3>2. source' \in [Phase -> {"open", "controller", "lease"}]
      BY <1>00, <1>9, <2>3 DEF Finish, PlanType
    <3> QED BY <1>00, <1>9, <2>1, <3>1, <3>2
            DEF Finish, controllerVars, PlanType
  <2>4. CASE ~Unchanged(h)
    BY <1>00, <1>9, <2>1, <2>4 DEF Finish, controllerVars, PlanType
  <2> QED BY <2>3, <2>4
<1>10. ASSUME NEW call \in calls, NEW good \in BOOLEAN, Perform(call, good)
       PROVE  Types
  <2>1. effect' \in {"none", "applied", "undone"}
    BY <1>00, <1>10 DEF Perform, Effect, CalledPhase, PlanType
  <2>2. performed' \subseteq [call : calls', good : BOOLEAN]
    BY <1>00, <1>10 DEF Perform, PlanType
  <2> QED BY <1>00, <1>02, <1>10, <2>1, <2>2 DEF Perform, planVars, PlanType
<1>11. ASSUME Expire PROVE Types
  <2>1. /\ UNCHANGED <<status, author, claim, source, task, told>>
        /\ UNCHANGED <<calls, performed, effect>>
        /\ expired' \in BOOLEAN
    BY <1>11 DEF Expire, controllerVars
  <2> QED BY <1>00, <1>02, <2>1 DEF PlanType
<1>12. ASSUME Scan PROVE Types
  <2>1. PICK phase \in CalledPhase :
          Load(Reclaimer, "failstale", phase, claim[phase].key, claim[phase].by)
    BY <1>12 DEF Scan
  <2>2. claim[phase].key \in Key \cup {NoOne}
        /\ claim[phase].by \in Operator \cup {NoOne}
    BY <1>0, <1>00 DEF PlanType
  <2>3. task' \in [Process -> Task]
    BY <1>0, <1>00, <1>04, <2>1, <2>2, TaskUpdates
  <2>4. UNCHANGED <<planVars, controllerVars, told>>
    BY <1>12 DEF Scan
  <2> QED BY <1>03, <2>3, <2>4
<1>13. ASSUME NEW p \in Process, FailStale(p) PROVE Types
  <2>1. task' \in [Process -> Task]
    BY <1>0, <1>00, <1>04, <1>13, TaskUpdates DEF FailStale
  <2>2. CASE Unchanged(p)
    <3>1. status' \in Status
      BY <1>0, <1>01, <1>13, <2>2 DEF FailStale
    <3>2. source' \in [Phase -> {"open", "controller", "lease"}]
      BY <1>00, <1>13, <2>2 DEF FailStale, PlanType
    <3> QED BY <1>00, <1>13, <2>1, <3>1, <3>2
            DEF FailStale, controllerVars, PlanType
  <2>3. CASE ~Unchanged(p)
    BY <1>00, <1>13, <2>1, <2>3 DEF FailStale, controllerVars, PlanType
  <2> QED BY <2>2, <2>3
<1>14. ASSUME NEW p \in Process, Abort(p) PROVE Types
  <2>1. task' \in [Process -> Task]
    BY <1>0, <1>00, <1>04, <1>14, TaskUpdates DEF Abort
  <2> QED BY <1>03, <1>14, <2>1 DEF Abort
<1>15. ASSUME UNCHANGED vars PROVE Types
  <2>1. UNCHANGED task /\ UNCHANGED <<planVars, controllerVars, told>>
    BY <1>15 DEF vars
  <2> QED BY <1>02, <1>03, <2>1
<1>16. Types
  BY <1>1, <1>2, <1>3, <1>4, <1>5, <1>6, <1>7, <1>8, <1>9, <1>10, <1>11,
     <1>12, <1>13, <1>14, <1>15
  DEF Next, Step
<1>17. TypeOK' <=> PlanType' /\ task' \in [Process -> Task]
  BY DEF TypeOK, PlanType, Task, StepName
<1> QED BY <1>16, <1>17

----------------------------------------------------------------------------
(* Every step moves the plan forward.                                      *)

Advance ==
  /\ status' \in Later[status]
  /\ status # "absent" => author' = author
  /\ \A phase \in CalledPhase :
       status \in Later[Running[phase]] => claim'[phase] = claim[phase]
  /\ performed \subseteq performed'

\* Every step moves the plan forward and keeps what was claimed and performed.
LEMMA StepsAdvance == IInv /\ [Next]_vars => Advance
<1> SUFFICES ASSUME IInv, [Next]_vars PROVE Advance
  OBVIOUS
<1>0. /\ TypeOK
      /\ \A p \in Process : TaskInv(p)
      /\ Handler \subseteq Process
  BY DEF IInv, Process
<1>00. status \in Later[status] /\ status \in Status
  BY <1>0, LaterValues DEF TypeOK
<1>1. ASSUME UNCHANGED <<status, author, claim, performed>> PROVE Advance
  BY <1>1, <1>00 DEF Advance
<1>2. ASSUME NEW o \in Operator, Create(o) PROVE Advance
  <2>1. \A phase \in CalledPhase : status \notin Later[Running[phase]]
    BY <1>2 DEF Create, CalledPhase, Running, Later
  <2> QED BY <1>2, <2>1, StatusValues DEF Create, Advance, Later, controllerVars
<1>3. ASSUME NEW h \in Handler, Request(h) PROVE Advance
  <2>1. UNCHANGED <<status, author, claim, performed>>
    BY <1>3 DEF Request, DecideLoads, RequestLoads, ReplayRunning, ReplayEnded,
                ReplayDecided, planVars, controllerVars
  <2> QED BY <1>1, <2>1
<1>4. ASSUME NEW h \in Handler, Decide(h) PROVE Advance
  <2>1. CASE Unchanged(h)
    <3>1. status = "DRAFT"
      BY <1>0, <1>4, <2>1, WritesAreExact DEF Decide, TaskInv
    <3>2. status' \in {"APPROVED", "REJECTED"}
      BY <1>4, <2>1 DEF Decide, Result, Good, Poor
    <3>3. status' \in Later[status]
      BY <3>1, <3>2, StatusValues DEF Later
    <3>4. \A phase \in CalledPhase : claim'[phase] = claim[phase]
      BY <1>0, <1>4, <2>1 DEF Decide, CalledPhase, TypeOK, Phase
    <3> QED BY <1>4, <3>3, <3>4 DEF Decide, Advance, controllerVars
  <2>2. CASE ~Unchanged(h)
    BY <1>1, <1>4, <2>2 DEF Decide, controllerVars
  <2> QED BY <2>1, <2>2
<1>5. ASSUME NEW h \in Handler, Claim(h) PROVE Advance
  <2>1. CASE Unchanged(h)
    <3>1. task[h].phase \in CalledPhase /\ status = From[task[h].phase]
      BY <1>0, <1>5, <2>1, WritesAreExact DEF Claim, TaskInv
    <3>2. status' = Running[task[h].phase]
      BY <1>5, <2>1 DEF Claim
    <3>3. status' \in Later[status]
      BY <3>1, <3>2, PhaseOrder
    <3>4. \A phase \in CalledPhase :
            status \in Later[Running[phase]] => claim'[phase] = claim[phase]
      <4> SUFFICES ASSUME NEW phase \in CalledPhase,
                          status \in Later[Running[phase]]
                   PROVE  claim'[phase] = claim[phase]
        OBVIOUS
      <4>1. phase # task[h].phase
        BY <3>1, PhaseOrder
      <4> QED BY <1>0, <1>5, <2>1, <4>1 DEF Claim, TypeOK, Phase, CalledPhase
    <3> QED BY <1>5, <3>3, <3>4 DEF Claim, Advance, controllerVars
  <2>2. CASE ~Unchanged(h)
    BY <1>1, <1>5, <2>2 DEF Claim, controllerVars
  <2> QED BY <2>1, <2>2
<1>6. ASSUME NEW h \in Handler,
             \/ Call(h) \/ Answered(h) \/ NotAnswered(h) \/ Recheck(h)
             \/ Reload(h)
      PROVE  Advance
  BY <1>1, <1>6 DEF Call, Answered, NotAnswered, Recheck, Reload, planVars,
                    controllerVars
<1>7. ASSUME NEW h \in Handler, Finish(h) PROVE Advance
  <2>1. CASE Unchanged(h)
    <3>1. task[h].phase \in CalledPhase /\ status = Running[task[h].phase]
      BY <1>0, <1>7, <2>1, WritesAreExact DEF Finish, TaskInv, Calling
    <3>2. status' \in {Good[task[h].phase], Poor[task[h].phase]}
      BY <1>7, <2>1 DEF Finish, Result
    <3>3. status' \in Later[status]
      BY <3>1, <3>2, PhaseOrder
    <3> QED BY <1>7, <3>3 DEF Finish, Advance, controllerVars
  <2>2. CASE ~Unchanged(h)
    BY <1>1, <1>7, <2>2 DEF Finish, controllerVars
  <2> QED BY <2>1, <2>2
<1>8. ASSUME NEW call \in calls, NEW good \in BOOLEAN, Perform(call, good)
      PROVE  Advance
  BY <1>8, <1>00 DEF Perform, planVars, Advance
<1>9. ASSUME Expire \/ Scan \/ UNCHANGED vars PROVE Advance
  BY <1>1, <1>9 DEF Expire, Scan, vars, planVars, controllerVars
<1>10. ASSUME NEW p \in Process, FailStale(p) PROVE Advance
  <2>1. CASE Unchanged(p)
    <3>1. task[p].phase \in CalledPhase /\ status = Running[task[p].phase]
      BY <1>0, <1>10, <2>1, WritesAreExact DEF FailStale, TaskInv, Calling
    <3>2. status' = Poor[task[p].phase]
      BY <1>10, <2>1 DEF FailStale
    <3>3. status' \in Later[status]
      BY <3>1, <3>2, PhaseOrder
    <3> QED BY <1>10, <3>3 DEF FailStale, Advance, controllerVars
  <2>2. CASE ~Unchanged(p)
    BY <1>1, <1>10, <2>2 DEF FailStale, controllerVars
  <2> QED BY <2>1, <2>2
<1>11. ASSUME NEW p \in Process, Abort(p) PROVE Advance
  BY <1>1, <1>11 DEF Abort, planVars, controllerVars
<1> QED
  BY <1>2, <1>3, <1>4, <1>5, <1>6, <1>7, <1>8, <1>9, <1>10, <1>11
  DEF Next, Step
----------------------------------------------------------------------------
(* What processes rely on.                                                 *)

\* A step forward leaves what other processes rely on.
LEMMA TasksAreKept ==
  ASSUME IInv, Advance, NEW q \in Process, task'[q] = task[q]
  PROVE  TaskInv(q)'
<1>0. /\ TypeOK /\ TaskInv(q)
      /\ task[q].seen \in Status /\ task[q].phase \in Phase
  BY DEF IInv, TypeOK
<1>1. task[q].step # "idle" =>
        /\ task[q].seen # "absent" /\ status \in Later[task[q].seen]
        /\ status' \in Later[task[q].seen] /\ status # "absent"
  <2> SUFFICES ASSUME task[q].step # "idle"
               PROVE  /\ task[q].seen # "absent"
                      /\ status \in Later[task[q].seen]
                      /\ status' \in Later[task[q].seen]
                      /\ status # "absent"
    OBVIOUS
  <2>1. task[q].seen # "absent" /\ status \in Later[task[q].seen]
    BY <1>0 DEF TaskInv
  <2>2. status' \in Later[task[q].seen]
    BY <1>0, <2>1, LaterTransitive DEF Advance
  <2>3. status # "absent"
    BY <1>0, <2>1, StatusValues DEF Later
  <2> QED BY <2>1, <2>2, <2>3
<1>2. task[q].step \in Calling =>
        /\ task[q].phase \in CalledPhase
        /\ status' \in Later[Running[task[q].phase]]
        /\ claim'[task[q].phase] = claim[task[q].phase]
  BY <1>0, PhaseOrder, LaterTransitive DEF TaskInv, Advance
<1>3. task[q].step = "decide" => (task[q].good => task[q].by # author')
  BY <1>0, <1>1 DEF TaskInv, Advance
<1>4. \A phase \in Phase, good \in BOOLEAN : Done(phase, good) => Done(phase, good)'
  BY DEF Done, Advance
<1>5. task[q].good \in BOOLEAN /\ {"call", "wait"} \subseteq Calling
  BY <1>0 DEF TypeOK, Calling
<1>6. task[q].step \in {"reload", "finish"} => Done(task[q].phase, task[q].good)'
  BY <1>0, <1>4, <1>5 DEF TaskInv
<1>7. task[q].step \in {"call", "wait"} =>
        claim'[task[q].phase] = [key |-> task[q].key, by |-> task[q].by]
  BY <1>0, <1>2, <1>5 DEF TaskInv
<1>8. /\ task[q].step = "decide" => task[q].seen = "DRAFT" /\ task[q].by \in Operator
      /\ task[q].step = "claim" =>
           task[q].phase \in CalledPhase /\ task[q].seen = From[task[q].phase]
      /\ task[q].step \in {"finish", "failstale"} =>
           task[q].seen = Running[task[q].phase]
  BY <1>0 DEF TaskInv
<1> HIDE <1>0
<1> QED BY <1>1, <1>2, <1>3, <1>6, <1>7, <1>8 DEF TaskInv, Done

\* A process that returns relies on nothing, and disturbs no other.
LEMMA IdleTask ==
  ASSUME NEW p \in Process, task \in [Process -> Task], Return(p)
  PROVE  TaskInv(p)' /\ \A q \in Process \ {p} : task'[q] = task[q]
BY DEF Return, Idle, TaskInv, Calling
\* Every step keeps what each process relies on.
LEMMA TaskStep == IInv /\ [Next]_vars => \A q \in Process : TaskInv(q)'
<1> SUFFICES ASSUME IInv, [Next]_vars, NEW q \in Process PROVE TaskInv(q)'
  OBVIOUS
<1>0. /\ TypeOK /\ Advance /\ Handler \subseteq Process
      /\ Reclaimer \in Process
      /\ task \in [Process -> Task] /\ status \in Status
      /\ \A p \in Process : TaskInv(p)
  BY StepsAdvance, TypeParts DEF IInv, Process, PlanType
<1>00. status \in Later[status]
  BY <1>0, LaterValues
<1>01. ASSUME task'[q] = task[q] PROVE TaskInv(q)'
  BY <1>0, <1>01, TasksAreKept
<1>02. ASSUME NEW p \in Process, Return(p) PROVE TaskInv(q)'
  BY <1>0, <1>01, <1>02, IdleTask
\* A call that was just claimed, or is repeated, and what follows it.
<1>04. ASSUME NEW p \in Process, UNCHANGED <<status, claim>>,
              task'[p].step \in Calling, task'[p].phase \in CalledPhase,
              status \in Later[Running[task'[p].phase]],
              task'[p].seen # "absent", status \in Later[task'[p].seen],
              task'[p].step \in {"call", "wait"} =>
                claim[task'[p].phase] = [key |-> task'[p].key, by |-> task'[p].by],
              task'[p].step \in {"finish", "failstale"} =>
                task'[p].seen = Running[task'[p].phase],
              task'[p].step \in {"reload", "finish"} =>
                Done(task[p].phase, task[p].good)'
       PROVE  TaskInv(p)'
  BY <1>04 DEF TaskInv, Calling, Done
<1>1. ASSUME NEW o \in Operator, Create(o) PROVE TaskInv(q)'
  BY <1>01, <1>1 DEF Create
<1>2. ASSUME NEW h \in Handler, Request(h) PROVE TaskInv(q)'
  <2>1. ASSUME NEW k \in Key, NEW o \in Operator, NEW approved \in BOOLEAN,
               DecideLoads(h, k, o, approved)
        PROVE  TaskInv(q)'
    <3>1. /\ task'[h] = [step |-> "decide", phase |-> "decide", key |-> k,
                         by |-> o, seen |-> status, good |-> approved]
          /\ status = "DRAFT" /\ status' = status
          /\ approved => o # author'
      BY <1>0, <2>1 DEF DecideLoads, From, MayDecide, planVars
    <3>2. TaskInv(h)'
      BY <1>00, <3>1 DEF TaskInv, Calling
    <3> QED BY <1>0, <1>01, <2>1, <3>2 DEF DecideLoads
  <2>2. ASSUME NEW k \in Key, NEW o \in Operator, NEW phase \in CalledPhase,
               RequestLoads(h, phase, k, o)
        PROVE  TaskInv(q)'
    <3>1. /\ task'[h] = [step |-> "claim", phase |-> phase, key |-> k,
                         by |-> o, seen |-> status, good |-> FALSE]
          /\ status = From[phase] /\ status' = status
      BY <1>0, <2>2 DEF RequestLoads, Load, planVars
    <3>2. TaskInv(h)'
      BY <1>00, <3>1, PhaseOrder DEF TaskInv, Calling
    <3> QED BY <1>0, <1>01, <2>2, <3>2 DEF RequestLoads, Load
  <2>3. ASSUME NEW k \in Key, NEW o \in Operator, NEW phase \in CalledPhase,
               ReplayRunning(h, phase, k, o)
        PROVE  TaskInv(q)'
    <3>1. PICK step \in {"call", "failstale"} : Load(h, step, phase, k, o)
      BY <2>3 DEF ReplayRunning
    <3>2. /\ task'[h] = [step |-> step, phase |-> phase, key |-> k,
                         by |-> o, seen |-> status, good |-> FALSE]
          /\ status = Running[phase] /\ UNCHANGED <<status, claim>>
          /\ claim[phase] = [key |-> k, by |-> o]
      BY <1>0, <2>3, <3>1 DEF ReplayRunning, Load, planVars
    <3>3. /\ step \in Calling /\ step \notin {"reload", "finish"}
          /\ Running[phase] # "absent"
      BY PhaseOrder DEF Calling
    <3>4. TaskInv(h)'
      BY <1>0, <1>00, <1>04, <3>2, <3>3
    <3> QED BY <1>0, <1>01, <3>1, <3>4 DEF Load
  <2>4. ASSUME UNCHANGED task PROVE TaskInv(q)'
    BY <1>01, <2>4
  <2> QED BY <1>2, <2>1, <2>2, <2>3, <2>4
          DEF Request, ReplayDecided, ReplayEnded
<1>3. ASSUME NEW h \in Handler, Decide(h) PROVE TaskInv(q)'
  BY <1>0, <1>02, <1>3 DEF Decide
<1>4. ASSUME NEW h \in Handler, Claim(h) PROVE TaskInv(q)'
  <2>1. CASE Unchanged(h)
    <3>1. /\ task[h].phase \in CalledPhase /\ status = From[task[h].phase]
          /\ task[h].seen = status
      BY <1>0, <1>4, <2>1, WritesAreExact DEF Claim, TaskInv
    <3>2. /\ status' = Running[task[h].phase]
          /\ claim'[task[h].phase] = [key |-> task[h].key, by |-> task[h].by]
      BY <1>0, <1>4, <2>1, <3>1 DEF Claim, TypeOK, CalledPhase, Phase
    <3>3. /\ task'[h] = [task[h] EXCEPT !.step = "call"]
          /\ \A p \in Process \ {h} : task'[p] = task[p]
      BY <1>0, <1>4, <2>1 DEF Claim, Continue
    <3>4. /\ task'[h].step = "call" /\ task'[h].phase = task[h].phase
          /\ task'[h].key = task[h].key /\ task'[h].by = task[h].by
          /\ task'[h].seen = status
      BY <1>0, <3>1, <3>3 DEF Task
    <3>5. /\ status \in Status /\ Running[task[h].phase] \in Status
          /\ Running[task[h].phase] \in Later[From[task[h].phase]]
          /\ Running[task[h].phase] \in Later[Running[task[h].phase]]
          /\ From[task[h].phase] # "absent"
      BY <1>0, <3>1, PhaseOrder, LaterValues
    <3>6. TaskInv(h)'
      BY <3>1, <3>2, <3>4, <3>5 DEF TaskInv, Calling
    <3> QED BY <1>0, <1>01, <3>3, <3>6
  <2>2. CASE ~Unchanged(h)
    BY <1>0, <1>02, <1>4, <2>2 DEF Claim
  <2> QED BY <2>1, <2>2
\* The steps of a call that stay with it.
<1>5. ASSUME NEW h \in Handler, task[h].step \in Calling,
             NEW step \in Calling \ {"finish", "failstale", "reload"},
             step \in {"call", "wait"} => task[h].step \in {"call", "wait"},
             Continue(h, step), UNCHANGED <<status, claim>>
      PROVE  TaskInv(q)'
  <2>1. /\ task'[h].step = step /\ task'[h].phase = task[h].phase
        /\ task'[h].key = task[h].key /\ task'[h].by = task[h].by
        /\ task'[h].seen = task[h].seen
    BY <1>0, <1>5 DEF Continue, Task
  <2>2. /\ task[h].phase \in CalledPhase
        /\ status \in Later[Running[task[h].phase]]
        /\ task[h].seen # "absent" /\ status \in Later[task[h].seen]
        /\ task[h].step \in {"call", "wait"} =>
             claim[task[h].phase] = [key |-> task[h].key, by |-> task[h].by]
    BY <1>0, <1>5 DEF TaskInv, Calling
  <2>3. TaskInv(h)'
    BY <1>0, <1>04, <1>5, <2>1, <2>2
  <2> QED BY <1>0, <1>01, <1>5, <2>3 DEF Continue
<1>6. ASSUME NEW h \in Handler, Call(h) \/ NotAnswered(h) PROVE TaskInv(q)'
  BY <1>5, <1>6 DEF Call, NotAnswered, Calling, planVars
<1>7. ASSUME NEW h \in Handler, Answered(h) PROVE TaskInv(q)'
  <2>1. PICK done \in performed :
          /\ done.call = [phase |-> task[h].phase, key |-> PlanKey]
          /\ task' = [task EXCEPT ![h].step = "reload", ![h].good = done.good]
    BY <1>7 DEF Answered, CallKey
  <2>2. /\ task'[h].step = "reload" /\ task'[h].phase = task[h].phase
        /\ task'[h].good = done.good /\ task'[h].seen = task[h].seen
    BY <1>0, <2>1 DEF Task
  <2>3. /\ task[h].phase \in CalledPhase
        /\ status \in Later[Running[task[h].phase]]
        /\ task[h].seen # "absent" /\ status \in Later[task[h].seen]
        /\ UNCHANGED <<status, claim, performed>>
    BY <1>0, <1>7 DEF Answered, TaskInv, Calling, planVars, controllerVars
  <2>4. done = [call |-> [phase |-> task[h].phase, key |-> PlanKey],
                good |-> done.good]
    BY <1>0, <2>1 DEF TypeOK
  <2>5. Done(task[h].phase, task[h].good)'
    BY <2>1, <2>2, <2>3, <2>4 DEF Done
  <2>6. TaskInv(h)'
    BY <1>0, <1>04, <2>2, <2>3, <2>5 DEF Calling
  <2> QED BY <1>0, <1>01, <2>1, <2>6
\* A process that finds its phase running goes on to end it.
<1>8. ASSUME NEW h \in Handler, task[h].step \in Calling,
             NEW step \in {"finish", "failstale"},
             step = "finish" => task[h].step = "reload",
             status = Running[task[h].phase],
             task' = [task EXCEPT ![h].step = step, ![h].seen = status],
             UNCHANGED <<status, claim, performed>>
      PROVE  TaskInv(q)'
  <2>1. /\ task'[h].step = step /\ task'[h].phase = task[h].phase
        /\ task'[h].good = task[h].good /\ task'[h].seen = status
    BY <1>0, <1>8 DEF Task
  <2>2. /\ task[h].phase \in CalledPhase
        /\ step = "finish" => Done(task[h].phase, task[h].good)
    BY <1>0, <1>8 DEF TaskInv
  <2>3. status # "absent"
    BY <1>8, <2>2, PhaseOrder
  <2>4. step = "finish" => Done(task[h].phase, task[h].good)'
    BY <1>8, <2>1, <2>2 DEF Done
  <2>5. TaskInv(h)'
    BY <1>0, <1>00, <1>04, <1>8, <2>1, <2>2, <2>3, <2>4 DEF Calling
  <2> QED BY <1>0, <1>01, <1>8, <2>5
<1>9. ASSUME NEW h \in Handler, Recheck(h) PROVE TaskInv(q)'
  <2>1. CASE Return(h)
    BY <1>0, <1>02, <2>1
  <2>2. CASE /\ status = Running[task[h].phase]
             /\ task' = [task EXCEPT ![h].step = "failstale", ![h].seen = status]
    BY <1>8, <1>9, <2>2 DEF Recheck, Calling, planVars, controllerVars
  <2> QED BY <1>9, <2>1, <2>2 DEF Recheck
<1>10. ASSUME NEW h \in Handler, Reload(h) PROVE TaskInv(q)'
  <2>1. CASE Return(h)
    BY <1>0, <1>02, <2>1
  <2>2. ASSUME NEW step \in {"finish", "failstale"},
               status = Running[task[h].phase],
               task' = [task EXCEPT ![h].step = step, ![h].seen = status]
        PROVE  TaskInv(q)'
    BY <1>8, <1>10, <2>2 DEF Reload, Calling, planVars, controllerVars
  <2> QED BY <1>10, <2>1, <2>2 DEF Reload
<1>11. ASSUME NEW h \in Handler, Finish(h) PROVE TaskInv(q)'
  BY <1>0, <1>02, <1>11 DEF Finish
<1>12. ASSUME NEW call \in calls, NEW good \in BOOLEAN, Perform(call, good)
       PROVE  TaskInv(q)'
  BY <1>01, <1>12 DEF Perform
<1>13. ASSUME Scan PROVE TaskInv(q)'
  <2>1. PICK phase \in CalledPhase :
          /\ status = Running[phase]
          /\ Load(Reclaimer, "failstale", phase, claim[phase].key,
                  claim[phase].by)
    BY <1>13 DEF Scan, Stale
  <2>2. UNCHANGED <<status, claim>>
    BY <1>13 DEF Scan, planVars
  <2>3. task'[Reclaimer] =
          [step |-> "failstale", phase |-> phase, key |-> claim[phase].key,
           by |-> claim[phase].by, seen |-> status, good |-> FALSE]
    BY <1>0, <2>1 DEF Load
  <2>4. Running[phase] # "absent"
    BY PhaseOrder
  <2>5. /\ task'[Reclaimer].step = "failstale"
        /\ task'[Reclaimer].phase = phase
        /\ task'[Reclaimer].seen = status
    BY <2>3
  <2>6. /\ "failstale" \in Calling
        /\ "failstale" \notin {"call", "wait", "reload", "finish"}
        /\ status \in Later[Running[phase]] /\ status # "absent"
    BY <1>00, <2>1, <2>4 DEF Calling
  <2>7. TaskInv(Reclaimer)'
    BY <1>0, <1>00, <1>04, <2>1, <2>2, <2>5, <2>6
  <2> QED BY <1>0, <1>01, <2>1, <2>7 DEF Load
<1>14. ASSUME NEW p \in Process, FailStale(p) \/ Abort(p) PROVE TaskInv(q)'
  BY <1>02, <1>14 DEF FailStale, Abort
<1>15. ASSUME Expire \/ UNCHANGED vars PROVE TaskInv(q)'
  BY <1>01, <1>15 DEF Expire, vars
<1> QED
  BY <1>1, <1>2, <1>3, <1>4, <1>6, <1>7, <1>9, <1>10, <1>11, <1>12, <1>13,
     <1>14, <1>15
  DEF Next, Step

----------------------------------------------------------------------------
(* What is known of the plan.                                              *)

\* Once a plan is decided its decision stays, whatever else a step does.
LEMMA PlanIsKept ==
  ASSUME IInv, Advance, author' = author, claim'["decide"] = claim["decide"],
         status' = status \/ status \in Later["APPROVED"],
         \A call \in calls' :
           \/ call \in calls
           \/ /\ call.phase \in CalledPhase
              /\ status' \in Later[Running[call.phase]],
         told' \subseteq told \cup {status'}, status' \in Status
  PROVE  PlanInv'
<1>0. TypeOK /\ PlanInv /\ status \in Status
  BY DEF IInv, TypeOK
<1>1. status' # "absent" => author' \in Operator
  BY <1>0, StatusValues DEF PlanInv, Later
<1>2. status' \in Later["APPROVED"] => status \in Later["APPROVED"]
  OBVIOUS
<1>3. status' \in Later["APPROVED"]
        => claim'["decide"].by \in Operator \ {author'}
  BY <1>0, <1>2 DEF PlanInv
<1>4. \A call \in calls' : status' \in Later[Running[call.phase]]
  <2> SUFFICES ASSUME NEW call \in calls', call \in calls
               PROVE  status' \in Later[Running[call.phase]]
    OBVIOUS
  <2>1. call.phase \in CalledPhase
    BY <1>0 DEF TypeOK
  <2>2. Running[call.phase] \in Status /\ status \in Later[Running[call.phase]]
    BY <1>0, <2>1, PhaseOrder DEF PlanInv
  <2> QED BY <2>2, LaterTransitive DEF Advance
<1>5. \A s \in told' : status' \in Later[s]
  <2> SUFFICES ASSUME NEW s \in told' PROVE status' \in Later[s]
    OBVIOUS
  <2>1. CASE s \in told
    BY <1>0, <2>1, LaterTransitive DEF PlanInv, Advance, TypeOK
  <2>2. CASE s = status'
    BY <2>2, LaterValues
  <2> QED BY <2>1, <2>2
<1> QED BY <1>1, <1>3, <1>4, <1>5 DEF PlanInv

\* Every step keeps what is known of the plan.
LEMMA PlanStep == IInv /\ [Next]_vars => PlanInv'
<1> SUFFICES ASSUME IInv, [Next]_vars PROVE PlanInv'
  OBVIOUS
<1>0. /\ TypeOK /\ TypeOK' /\ Advance /\ Handler \subseteq Process /\ PlanInv
      /\ status \in Status /\ status' \in Status
      /\ \A p \in Process : TaskInv(p)
  BY StepsAdvance, TypeStep DEF IInv, Process, TypeOK
<1>00. status \in Later[status]
  BY <1>0, LaterValues
<1>1. ASSUME UNCHANGED <<status, author, claim, calls>>,
             told' \subseteq told \cup {status}
      PROVE  PlanInv'
  BY <1>0, <1>1, PlanIsKept
<1>2. ASSUME NEW o \in Operator, Create(o) PROVE PlanInv'
  <2>1. calls = {} /\ told \subseteq {"absent"}
    <3>1. status = "absent"
      BY <1>2 DEF Create
    <3>2. \A phase \in CalledPhase : "absent" \notin Later[Running[phase]]
      BY DEF CalledPhase, Running, Later
    <3>3. \A s \in Status : "absent" \in Later[s] => s = "absent"
      BY StatusValues DEF Later
    <3>4. \A call \in calls : call.phase \in CalledPhase
      BY <1>0 DEF TypeOK
    <3>5. calls = {}
      BY <1>0, <3>1, <3>2, <3>4 DEF PlanInv
    <3>6. told \subseteq {"absent"}
      BY <1>0, <3>1, <3>3 DEF PlanInv, TypeOK
    <3> QED BY <3>5, <3>6
  <2>2. /\ status' = "DRAFT" /\ author' \in Operator
        /\ calls' = {} /\ told' \subseteq {"absent"}
    BY <1>2, <2>1 DEF Create, controllerVars
  <2>3. "DRAFT" \notin Later["APPROVED"] /\ "DRAFT" \in Later["absent"]
    BY StatusValues DEF Later
  <2> QED BY <2>2, <2>3 DEF PlanInv
<1>3. ASSUME NEW h \in Handler, Request(h) PROVE PlanInv'
  <2>1. /\ UNCHANGED <<status, author, claim, calls>>
        /\ told' \subseteq told \cup {status}
    BY <1>3 DEF Request, DecideLoads, RequestLoads, ReplayRunning, ReplayEnded,
                ReplayDecided, planVars, controllerVars
  <2> QED BY <1>1, <2>1
<1>4. ASSUME NEW h \in Handler, Decide(h) PROVE PlanInv'
  <2>1. CASE Unchanged(h)
    <3>1. /\ status = "DRAFT" /\ task[h].by \in Operator
          /\ task[h].good => task[h].by # author
      BY <1>0, <1>4, <2>1, WritesAreExact DEF Decide, TaskInv
    <3>2. /\ status' = IF task[h].good THEN "APPROVED" ELSE "REJECTED"
          /\ claim'["decide"].by = task[h].by
          /\ author' = author /\ calls' = calls /\ told' = told \cup {status'}
      BY <1>0, <1>4, <2>1 DEF Decide, Result, Good, Poor, TypeOK, Phase,
                              controllerVars
    <3>3. calls = {}
      <4>1. \A phase \in CalledPhase : "DRAFT" \notin Later[Running[phase]]
        BY DEF CalledPhase, Running, Later
      <4> QED BY <1>0, <3>1, <4>1 DEF PlanInv, TypeOK
    <3>4. status' \in Later["APPROVED"] => task[h].good
      BY <3>2 DEF Later
    <3>5. \A s \in told' : status' \in Later[s]
      BY <1>0, <3>2, LaterValues, LaterTransitive DEF PlanInv, Advance, TypeOK
    <3> QED BY <1>0, <3>1, <3>2, <3>3, <3>4, <3>5 DEF PlanInv
  <2>2. CASE ~Unchanged(h)
    BY <1>1, <1>4, <2>2 DEF Decide, controllerVars
  <2> QED BY <2>1, <2>2
<1>5. ASSUME NEW h \in Handler, Claim(h) PROVE PlanInv'
  <2>1. CASE Unchanged(h)
    <3>1. task[h].phase \in CalledPhase /\ status = From[task[h].phase]
      BY <1>0, <1>5, <2>1, WritesAreExact DEF Claim, TaskInv
    <3>2. status \in Later["APPROVED"]
      BY <3>1, StatusValues DEF CalledPhase, From, Later
    <3>3. claim'["decide"] = claim["decide"]
      BY <1>0, <1>5, <2>1, <3>1 DEF Claim, TypeOK, Phase, CalledPhase
    <3> QED BY <1>0, <1>5, <3>2, <3>3, PlanIsKept DEF Claim, controllerVars
  <2>2. CASE ~Unchanged(h)
    BY <1>1, <1>5, <2>2 DEF Claim, controllerVars
  <2> QED BY <2>1, <2>2
<1>6. ASSUME NEW h \in Handler, Call(h) PROVE PlanInv'
  <2>1. /\ task[h].phase \in CalledPhase
        /\ status \in Later[Running[task[h].phase]]
    BY <1>0, <1>6 DEF Call, TaskInv, Calling
  <2>2. \A call \in calls' : call \in calls \/ call.phase = task[h].phase
    BY <1>6 DEF Call
  <2>3. UNCHANGED <<status, author, claim, told>>
    BY <1>6 DEF Call, planVars
  <2> QED BY <1>0, <2>1, <2>2, <2>3, PlanIsKept
<1>7. ASSUME NEW h \in Handler,
             Answered(h) \/ NotAnswered(h) \/ Recheck(h) \/ Reload(h)
      PROVE  PlanInv'
  <2>1. /\ UNCHANGED <<status, author, claim, calls>>
        /\ told' \subseteq told \cup {status}
    BY <1>7 DEF Answered, NotAnswered, Recheck, Reload, planVars, controllerVars
  <2> QED BY <1>1, <2>1
\* A claim that is ended, with a result or by its lease.
<1>8. ASSUME NEW p \in Process, task[p].step \in {"finish", "failstale"},
             Unchanged(p), UNCHANGED <<author, claim, calls>>,
             told' \subseteq told \cup {status'}
      PROVE  PlanInv'
  <2>1. task[p].phase \in CalledPhase /\ status = Running[task[p].phase]
    BY <1>0, <1>8, WritesAreExact DEF TaskInv, Calling
  <2>2. status \in Later["APPROVED"]
    BY <2>1, StatusValues DEF CalledPhase, Running, Later
  <2> QED BY <1>0, <1>8, <2>2, PlanIsKept
<1>9. ASSUME NEW h \in Handler, Finish(h) PROVE PlanInv'
  BY <1>0, <1>1, <1>8, <1>9 DEF Finish, controllerVars
<1>10. ASSUME NEW p \in Process, FailStale(p) PROVE PlanInv'
  BY <1>1, <1>8, <1>10 DEF FailStale, controllerVars
<1>11. ASSUME NEW call \in calls, NEW good \in BOOLEAN, Perform(call, good)
       PROVE  PlanInv'
  BY <1>1, <1>11 DEF Perform, planVars
<1>12. ASSUME NEW p \in Process, Abort(p) PROVE PlanInv'
  BY <1>1, <1>12 DEF Abort, planVars, controllerVars
<1>13. ASSUME Expire \/ Scan \/ UNCHANGED vars PROVE PlanInv'
  BY <1>1, <1>13 DEF Expire, Scan, vars, planVars, controllerVars
<1> QED
  BY <1>2, <1>3, <1>4, <1>5, <1>6, <1>7, <1>9, <1>10, <1>11, <1>12, <1>13
  DEF Next, Step

----------------------------------------------------------------------------
(* What is known of the controller.                                        *)

\* Of a call that was made, and of one that was carried out.
LEMMA CallFacts ==
  ASSUME TypeOK, PlanInv, NEW phase \in CalledPhase, NEW good \in BOOLEAN,
         Done(phase, good)
  PROVE  status \in Later[Running[phase]]
<1>1. [phase |-> phase, key |-> PlanKey] \in calls
  BY DEF TypeOK, Done
<1> QED BY <1>1 DEF PlanInv

\* Every step keeps what is known of the controller.
LEMMA ControllerStep == IInv /\ [Next]_vars => ControllerInv'
<1> SUFFICES ASSUME IInv, [Next]_vars PROVE ControllerInv'
  OBVIOUS
<1>0. /\ TypeOK /\ Advance /\ Handler \subseteq Process /\ PlanInv
      /\ ControllerInv /\ status \in Status
      /\ \A p \in Process : TaskInv(p)
  BY StepsAdvance DEF IInv, Process, TypeOK
<1>1. ASSUME UNCHANGED <<status, source, performed, effect>>
      PROVE  ControllerInv'
  BY <1>0, <1>1 DEF ControllerInv, Done
\* Once the controller has been called, what is known is in the new status.
<1>2. ASSUME UNCHANGED <<performed, effect>>,
             status' \in Later["SUCCEEDED"] => Done("execute", TRUE),
             status' = "FAILED" /\ source'["execute"] = "controller"
               => Done("execute", FALSE),
             status' = "ROLLED_BACK" => Done("rollback", TRUE),
             status' = "ROLLBACK_FAILED" /\ source'["rollback"] = "controller"
               => Done("rollback", FALSE)
      PROVE  ControllerInv'
  <2>1. /\ \A a, b \in performed : a.call = b.call => a = b
        /\ effect = IF Done("rollback", TRUE) THEN "undone"
                    ELSE IF Done("execute", TRUE) THEN "applied" ELSE "none"
    BY <1>0 DEF ControllerInv
  <2>2. \A phase \in {"execute", "rollback"}, good \in BOOLEAN :
          Done(phase, good)' <=> Done(phase, good)
    BY <1>2 DEF Done
  <2> QED BY <1>2, <2>1, <2>2 DEF ControllerInv
<1>3. ASSUME NEW o \in Operator, Create(o) PROVE ControllerInv'
  BY <1>2, <1>3 DEF Create, Later, controllerVars
<1>4. ASSUME NEW h \in Handler, Request(h) PROVE ControllerInv'
  BY <1>1, <1>4 DEF Request, DecideLoads, RequestLoads, ReplayRunning,
                    ReplayEnded, ReplayDecided, planVars, controllerVars
<1>5. ASSUME NEW h \in Handler, Decide(h) PROVE ControllerInv'
  <2>1. CASE Unchanged(h)
    <3>1. status' \in {"APPROVED", "REJECTED"}
      BY <1>5, <2>1 DEF Decide, Result, Good, Poor
    <3>2. status' \notin Later["SUCCEEDED"] /\ status' # "FAILED"
          /\ status' # "ROLLED_BACK" /\ status' # "ROLLBACK_FAILED"
      BY <3>1 DEF Later
    <3> QED BY <1>2, <1>5, <3>2 DEF Decide, controllerVars
  <2>2. CASE ~Unchanged(h)
    BY <1>1, <1>5, <2>2 DEF Decide, controllerVars
  <2> QED BY <2>1, <2>2
<1>6. ASSUME NEW h \in Handler, Claim(h) PROVE ControllerInv'
  <2>1. CASE Unchanged(h)
    <3>1. task[h].phase \in CalledPhase /\ status = From[task[h].phase]
      BY <1>0, <1>6, <2>1, WritesAreExact DEF Claim, TaskInv
    <3>2. status' = Running[task[h].phase]
      BY <1>6, <2>1 DEF Claim
    <3>3. \/ status' = "EXECUTING"
          \/ status' = "ROLLING_BACK" /\ status = "SUCCEEDED"
      BY <3>1, <3>2 DEF CalledPhase, From, Running
    <3>4. status' \in Later["SUCCEEDED"] => Done("execute", TRUE)
      BY <1>0, <3>3 DEF ControllerInv, Later
    <3> QED BY <1>2, <1>6, <3>3, <3>4 DEF Claim, controllerVars
  <2>2. CASE ~Unchanged(h)
    BY <1>1, <1>6, <2>2 DEF Claim, controllerVars
  <2> QED BY <2>1, <2>2
<1>7. ASSUME NEW h \in Handler,
             \/ Call(h) \/ Answered(h) \/ NotAnswered(h) \/ Recheck(h)
             \/ Reload(h)
      PROVE  ControllerInv'
  BY <1>1, <1>7 DEF Call, Answered, NotAnswered, Recheck, Reload, planVars,
                    controllerVars
\* Of a claim that is ended, whoever ends it.
<1>8. ASSUME NEW p \in Process, task[p].step \in {"finish", "failstale"},
             Unchanged(p), UNCHANGED <<performed, effect>>,
             \/ /\ status' = Good[task[p].phase]
                /\ Done(task[p].phase, TRUE)
             \/ /\ status' = Poor[task[p].phase]
                /\ \/ Done(task[p].phase, FALSE)
                   \/ source'[task[p].phase] = "lease"
      PROVE  ControllerInv'
  <2>1. task[p].phase \in CalledPhase /\ status = Running[task[p].phase]
    BY <1>0, <1>8, WritesAreExact DEF TaskInv, Calling
  <2>2. CASE task[p].phase = "execute"
    <3>0. Good["execute"] = "SUCCEEDED" /\ Poor["execute"] = "FAILED"
      BY DEF Good, Poor
    <3>1. \/ status' = "SUCCEEDED" /\ Done("execute", TRUE)
          \/ /\ status' = "FAILED"
             /\ \/ Done("execute", FALSE)
                \/ source'["execute"] = "lease"
      BY <1>8, <2>2, <3>0, Zenon
    <3> QED BY <1>2, <1>8, <3>1 DEF Later
  <2>3. CASE task[p].phase = "rollback"
    <3>0. Good["rollback"] = "ROLLED_BACK" /\ Poor["rollback"] = "ROLLBACK_FAILED"
      BY DEF Good, Poor
    <3>1. \/ status' = "ROLLED_BACK" /\ Done("rollback", TRUE)
          \/ /\ status' = "ROLLBACK_FAILED"
             /\ \/ Done("rollback", FALSE)
                \/ source'["rollback"] = "lease"
      BY <1>8, <2>3, <3>0, Zenon
    <3>2. Done("execute", TRUE)
      <4>1. status = "ROLLING_BACK"
        BY <2>1, <2>3 DEF Running
      <4>2. status \in Later["SUCCEEDED"]
        BY <4>1 DEF Later
      <4> QED BY <1>0, <4>2 DEF ControllerInv
    <3>3. status' # "FAILED"
      BY <3>1
    <3>4. status' = "ROLLED_BACK" => Done("rollback", TRUE)
      BY <3>1
    <3>5. status' = "ROLLBACK_FAILED" /\ source'["rollback"] = "controller"
            => Done("rollback", FALSE)
      BY <3>1
    <3> QED BY <1>2, <1>8, <3>2, <3>3, <3>4, <3>5
  <2> QED BY <2>1, <2>2, <2>3 DEF CalledPhase
<1>9. ASSUME NEW h \in Handler, Finish(h) PROVE ControllerInv'
  <2>1. CASE Unchanged(h)
    <3>1. Done(task[h].phase, task[h].good) /\ task[h].good \in BOOLEAN
      BY <1>0, <1>9 DEF Finish, TaskInv, TypeOK
    <3>2. status' = IF task[h].good THEN Good[task[h].phase]
                                    ELSE Poor[task[h].phase]
      BY <1>9, <2>1 DEF Finish, Result
    <3>3. CASE task[h].good = TRUE
      BY <1>0, <1>8, <1>9, <2>1, <3>1, <3>2, <3>3 DEF Finish, controllerVars
    <3>4. CASE task[h].good = FALSE
      BY <1>0, <1>8, <1>9, <2>1, <3>1, <3>2, <3>4 DEF Finish, controllerVars
    <3> QED BY <3>1, <3>3, <3>4
  <2>2. CASE ~Unchanged(h)
    BY <1>1, <1>9, <2>2 DEF Finish, controllerVars
  <2> QED BY <2>1, <2>2
<1>10. ASSUME NEW p \in Process, FailStale(p) PROVE ControllerInv'
  <2>1. CASE Unchanged(p)
    <3>1. status' = Poor[task[p].phase] /\ source'[task[p].phase] = "lease"
      BY <1>0, <1>10, <2>1 DEF FailStale, TypeOK
    <3> QED BY <1>8, <1>10, <2>1, <3>1 DEF FailStale, controllerVars
  <2>2. CASE ~Unchanged(p)
    BY <1>1, <1>10, <2>2 DEF FailStale, controllerVars
  <2> QED BY <2>1, <2>2
<1>11. ASSUME NEW call \in calls, NEW good \in BOOLEAN, Perform(call, good)
       PROVE  ControllerInv'
  <2>1. /\ call.phase \in CalledPhase
        /\ call = [phase |-> call.phase, key |-> PlanKey]
        /\ status \in Later[Running[call.phase]]
        /\ UNCHANGED <<status, source>>
    BY <1>0, <1>11 DEF Perform, PlanInv, TypeOK, planVars
  <2>2. \A phase \in CalledPhase, b \in BOOLEAN :
          Done(phase, b)' <=> Done(phase, b) \/ (phase = call.phase /\ b = good)
    <3> SUFFICES ASSUME NEW phase \in CalledPhase, NEW b \in BOOLEAN
                 PROVE  Done(phase, b)'
                          <=> Done(phase, b) \/ (phase = call.phase /\ b = good)
      OBVIOUS
    <3>1. performed' = performed \cup {[call |-> call, good |-> good]}
      BY <1>11 DEF Perform
    <3>2. [call |-> [phase |-> phase, key |-> PlanKey], good |-> b]
             = [call |-> call, good |-> good]
            <=> phase = call.phase /\ b = good
      BY <2>1
    <3> QED BY <3>1, <3>2 DEF Done
  <2>3. \A a, b \in performed' : a.call = b.call => a = b
    BY <1>0, <1>11 DEF Perform, ControllerInv
  <2>4. \A b \in BOOLEAN : ~Done(call.phase, b)
    BY <1>11, <2>1 DEF Perform, Done
  <2>5. /\ status' \in Later["SUCCEEDED"] => Done("execute", TRUE)'
        /\ status' = "FAILED" /\ source'["execute"] = "controller"
             => Done("execute", FALSE)'
        /\ status' = "ROLLED_BACK" => Done("rollback", TRUE)'
        /\ status' = "ROLLBACK_FAILED" /\ source'["rollback"] = "controller"
             => Done("rollback", FALSE)'
    BY <1>0, <2>1, <2>2 DEF ControllerInv, CalledPhase
  <2>6. CASE call.phase = "rollback"
    <3>1. effect' = IF good THEN "undone" ELSE effect
      BY <1>11, <2>6 DEF Perform, Effect
    <3>2. /\ Done("execute", TRUE)' <=> Done("execute", TRUE)
          /\ Done("rollback", TRUE)' <=> Done("rollback", TRUE) \/ good = TRUE
          /\ ~Done("rollback", TRUE)
      BY <2>2, <2>4, <2>6 DEF CalledPhase
    <3>3. effect' = IF Done("rollback", TRUE)' THEN "undone"
                    ELSE IF Done("execute", TRUE)' THEN "applied" ELSE "none"
      BY <1>0, <3>1, <3>2 DEF ControllerInv
    <3> QED BY <2>3, <2>5, <3>3 DEF ControllerInv
  <2>7. CASE call.phase = "execute"
    <3>1. effect' = IF good THEN "applied" ELSE effect
      BY <1>11, <2>7 DEF Perform, Effect
    <3>2. /\ Done("rollback", TRUE)' <=> Done("rollback", TRUE)
          /\ Done("execute", TRUE)' <=> Done("execute", TRUE) \/ good = TRUE
          /\ ~Done("execute", TRUE)
      BY <2>2, <2>4, <2>7 DEF CalledPhase
    \* A rollback has been called only where the execution had succeeded.
    <3>3. ~Done("rollback", TRUE)
      <4> SUFFICES ASSUME Done("rollback", TRUE) PROVE FALSE
        OBVIOUS
      <4>1. status \in Later["ROLLING_BACK"]
        BY <1>0, CallFacts DEF CalledPhase, Running
      <4>2. status \in Later["SUCCEEDED"]
        BY <4>1 DEF Later
      <4> QED BY <1>0, <3>2, <4>2 DEF ControllerInv
    <3>4. effect' = IF Done("rollback", TRUE)' THEN "undone"
                    ELSE IF Done("execute", TRUE)' THEN "applied" ELSE "none"
      BY <1>0, <3>1, <3>2, <3>3 DEF ControllerInv
    <3> QED BY <2>3, <2>5, <3>4 DEF ControllerInv
  <2> QED BY <2>1, <2>6, <2>7 DEF CalledPhase
<1>12. ASSUME NEW p \in Process, Abort(p) PROVE ControllerInv'
  BY <1>1, <1>12 DEF Abort, planVars, controllerVars
<1>13. ASSUME Expire \/ Scan \/ UNCHANGED vars PROVE ControllerInv'
  BY <1>1, <1>13 DEF Expire, Scan, vars, planVars, controllerVars
<1> QED
  BY <1>3, <1>4, <1>5, <1>6, <1>7, <1>9, <1>10, <1>11, <1>12, <1>13
  DEF Next, Step

----------------------------------------------------------------------------
\* The initial states satisfy the invariant.
LEMMA IInvInit == Init => IInv
<1> SUFFICES ASSUME Init PROVE IInv
  OBVIOUS
<1>1. TypeOK
  BY TypeInit
<1>2. \A p \in Process : TaskInv(p)
  BY DEF Init, Idle, TaskInv, Calling
<1>3. PlanInv
  BY StatusValues DEF Init, PlanInv, Later
<1>4. ControllerInv
  BY StatusValues DEF Init, ControllerInv, Done, Later
<1> QED BY <1>1, <1>2, <1>3, <1>4 DEF IInv

\* Every step keeps the invariant.
LEMMA IInvStep == IInv /\ [Next]_vars => IInv'
<1> SUFFICES ASSUME IInv, [Next]_vars PROVE IInv'
  OBVIOUS
<1>1. TypeOK' /\ PlanInv' /\ ControllerInv'
  BY TypeStep, PlanStep, ControllerStep
<1>2. \A q \in Process : TaskInv(q)'
  BY TaskStep
<1> QED BY <1>1, <1>2 DEF IInv

\* The inductive invariant: what each process knows, what is known of the plan
\* and of the controller.
THEOREM RemediationInvariance == Spec => []IInv
BY IInvInit, IInvStep, PTL DEF Spec

\* The variables keep their types.
THEOREM RemediationTypeCorrect == Spec => []TypeOK
<1>1. IInv => TypeOK
  BY DEF IInv
<1> QED BY <1>1, RemediationInvariance, PTL

\* No step overwrites a result: a plan only moves forward
\* (remediation_repository.py:141-148).
THEOREM ResultsAreFinal == Spec => ResultIsFinal
<1>1. IInv /\ [Next]_vars => [status' \in Later[status]]_status
  BY StepsAdvance DEF Advance
<1> QED BY <1>1, RemediationInvariance, PTL DEF Spec, ResultIsFinal

\* What callers were told goes on to hold (remediation_service.py:308-458).
THEOREM TellsTheTruth == Spec => []ToldIsKept
<1>1. IInv => ToldIsKept
  BY DEF IInv, PlanInv, ToldIsKept
<1> QED BY <1>1, RemediationInvariance, PTL

\* Only the request that holds the claim calls the controller
\* (remediation_service.py:377-412).
THEOREM CallersHoldTheClaim == Spec => []CallsAreClaimed
<1>1. IInv => CallsAreClaimed
  BY DEF IInv, TaskInv, CallsAreClaimed, Process
<1> QED BY <1>1, RemediationInvariance, PTL

\* The approval behind a call stands and is by another person than the author, and
\* a rollback is sent only for an execution that the controller has carried out
\* (remediation_service.py:330-332, 384-412, 466-490).
THEOREM CallsAreApproved == Spec => []EffectsAreApproved
<1>1. ASSUME IInv, NEW call \in calls
      PROVE  /\ status \in Later["EXECUTING"]
             /\ claim["decide"].by \notin {author, NoOne}
             /\ call.phase = "rollback" =>
                  /\ status \in Later["ROLLING_BACK"]
                  /\ \E done \in performed : done.call.phase = "execute" /\ done.good
  <2>1. call.phase \in CalledPhase /\ status \in Later[Running[call.phase]]
    BY <1>1 DEF IInv, TypeOK, PlanInv
  <2>2. /\ status \in Later["EXECUTING"] /\ status \in Later["APPROVED"]
        /\ call.phase = "rollback" => status \in Later["ROLLING_BACK"]
    BY <2>1, StatusValues DEF CalledPhase, Running, Later
  <2>3. claim["decide"].by \in Operator \ {author}
    BY <1>1, <2>2 DEF IInv, PlanInv
  <2>4. call.phase = "rollback" => Done("execute", TRUE)
    BY <1>1, <2>2, StatusValues DEF IInv, ControllerInv, Later
  <2>5. Done("execute", TRUE) => \E done \in performed : done.call.phase = "execute" /\ done.good
    BY DEF Done
  <2> QED BY <2>2, <2>3, <2>4, <2>5, PlanAssumption DEF PlanAssumption
<1>2. IInv => EffectsAreApproved
  BY <1>1 DEF EffectsAreApproved
<1> QED BY <1>2, RemediationInvariance, PTL

\* A result of the controller describes the target system and goes on to do so
\* (remediation_service.py:405-458, 511-567).
THEOREM ResultsStayTrue == Spec => []ResultsAreTrue
<1>1. ASSUME IInv PROVE ResultsAreTrue
  <2>0. TypeOK /\ PlanInv /\ ControllerInv
    BY <1>1 DEF IInv
  <2>1. Done("rollback", TRUE) => status \in Later["ROLLING_BACK"]
    BY <2>0, CallFacts DEF CalledPhase, Running
  <2>2. \A phase \in CalledPhase : Done(phase, FALSE) => ~Done(phase, TRUE)
    BY <2>0 DEF ControllerInv, Done
  <2>3. status \in Later["ROLLING_BACK"]
          => status # "SUCCEEDED" /\ status # "FAILED"
    BY DEF Later
  <2>4. status \in {"SUCCEEDED", "ROLLBACK_FAILED"} => Done("execute", TRUE)
    BY <2>0 DEF ControllerInv, Later
  <2>5. /\ effect = IF Done("rollback", TRUE) THEN "undone"
                    ELSE IF Done("execute", TRUE) THEN "applied" ELSE "none"
        /\ status = "FAILED" /\ source["execute"] = "controller"
             => Done("execute", FALSE)
        /\ status = "ROLLED_BACK" => Done("rollback", TRUE)
        /\ status = "ROLLBACK_FAILED" /\ source["rollback"] = "controller"
             => Done("rollback", FALSE)
    BY <2>0 DEF ControllerInv
  <2>6. "execute" \in CalledPhase /\ "rollback" \in CalledPhase
    BY DEF CalledPhase
  <2> QED BY <2>1, <2>2, <2>3, <2>4, <2>5, <2>6 DEF ResultsAreTrue
<1> QED BY <1>1, RemediationInvariance, PTL
=============================================================================
