---------------------------- MODULE AtLeastOnce ----------------------------
(***************************************************************************)
(* What the outbox promises to whoever appends an event: the event reaches *)
(* the topic some number of times, and in the end it is settled, either as *)
(* published, and then it did reach the topic, or as failed.  Copies may   *)
(* still appear after it is settled.                                       *)
(***************************************************************************)
EXTENDS Naturals

CONSTANT Event

VARIABLES
  settled,  \* how each event ended, "open" until it did
  copies    \* copies of each event that reached the topic

vars == <<settled, copies>>

Init ==
  /\ settled = [e \in Event |-> "open"]
  /\ copies = [e \in Event |-> 0]

Send(e) ==
  /\ copies' = [copies EXCEPT ![e] = @ + 1]
  /\ UNCHANGED settled

Settle(e) ==
  /\ settled[e] = "open"
  /\ copies[e] > 0
  /\ settled' = [settled EXCEPT ![e] = "published"]
  /\ UNCHANGED copies

\* Claims settle every exhausted event they meet, so several at once.
GiveUp(E) ==
  /\ E # {}
  /\ \A e \in E : settled[e] = "open"
  /\ settled' = [e \in Event |-> IF e \in E THEN "failed" ELSE settled[e]]
  /\ UNCHANGED copies

Next ==
  \/ \E e \in Event : Send(e) \/ Settle(e)
  \/ \E E \in SUBSET Event : GiveUp(E)

Spec == Init /\ [][Next]_vars

AllSettled == \A e \in Event : <>(settled[e] # "open")

FairSpec == Spec /\ AllSettled
=============================================================================
