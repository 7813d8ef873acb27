---------------------------- MODULE TicketLedger ----------------------------
(* What the ticketing services promise of one RCA: at most one draft, decided *)
(* at most once; for each target system at most one submission, of an         *)
(* approved draft, that gets one result which then stays.                     *)
CONSTANTS LedgerTarget, LedgerTicket, NoLedgerTicket

VARIABLES
  stage,      \* of the draft
  result,     \* of the submission to each target
  named       \* the ticket the result names
ledgerVars == <<stage, result, named>>

LedgerInit ==
  /\ stage \in {"none", "APPROVED"}    \* a draft may have been approved before
  /\ result = [t \in LedgerTarget |-> "none"]
  /\ named = [t \in LedgerTarget |-> NoLedgerTicket]

Draft == stage = "none" /\ stage' = "DRAFT" /\ UNCHANGED <<result, named>>

Judge ==
  /\ stage = "DRAFT" /\ stage' \in {"APPROVED", "REJECTED"}
  /\ UNCHANGED <<result, named>>

Submit(t) ==
  /\ stage = "APPROVED" /\ result[t] = "none"
  /\ result' = [result EXCEPT ![t] = "REQUESTED"]
  /\ UNCHANGED <<stage, named>>

Open(t) ==
  /\ result[t] = "REQUESTED"
  /\ result' = [result EXCEPT ![t] = "SUBMITTED"]
  /\ \E k \in LedgerTicket : named' = [named EXCEPT ![t] = k]
  /\ UNCHANGED stage

GiveUp(t) ==
  /\ result[t] = "REQUESTED"
  /\ result' = [result EXCEPT ![t] = "FAILED"]
  /\ UNCHANGED <<stage, named>>

LedgerNext ==
  Draft \/ Judge \/ \E t \in LedgerTarget : Submit(t) \/ Open(t) \/ GiveUp(t)
LedgerSpec == LedgerInit /\ [][LedgerNext]_ledgerVars
=============================================================================
