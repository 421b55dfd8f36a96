------------------------------- MODULE Worklists -------------------------------
(***************************************************************************)
(* The lists in which the staff move reservations and maintenance tickets  *)
(* from one status to the next.  The server stores the status it is sent;  *)
(* what order there is comes from the buttons that a page offers for the   *)
(* status it shows, which the row need not have any more, and they are not *)
(* disabled while a call is under way.  Calls overtake each other and may  *)
(* be lost.  Rows do not meet: a behaviour is about one reservation or one *)
(* ticket.                                                                 *)
(***************************************************************************)
EXTENDS Integers

CONSTANTS
  Desks,      \* browsers with the page open
  Calls,      \* calls that may be under way at once
  MaxPresses  \* bound: buttons pressed

ASSUME WorklistsAssumption == MaxPresses \in Nat

VARIABLES
  list,        \* which of the two lists it is
  status,      \* the row's status
  resolvedAt,  \* whether the row has the time at which it was resolved
  shown,       \* desk -> the status its page shows
  act,         \* call -> the status it asks for, and the resolvedAt it has read
  presses

worklistVars == <<list, status, resolvedAt, shown, act, presses>>

NoAct == [step |-> "none", to |-> "none", resolved |-> FALSE]
FirstStatus(name) == IF name = "reservation" THEN "PENDING" ELSE "NEW"

WorklistsInit ==
  /\ list \in {"reservation", "ticket"}
  /\ status = FirstStatus(list) /\ resolvedAt = FALSE
  /\ shown = [d \in Desks |-> status]
  /\ act = [i \in Calls |-> NoAct]
  /\ presses = 0

-------------------------------------------------------------------------------
(* The pages.                                                              *)

Ended == {"CHECKED_IN", "CANCELLED"}
NEXT_STATUS == { <<"NEW", "IN_PROGRESS">>, <<"IN_PROGRESS", "RESOLVED">>, <<"RESOLVED", "CLOSED">> }
Buttons(from) ==
  (IF from \in {"PENDING", "CONFIRMED"} THEN Ended ELSE {})
    \cup (IF from = "PENDING" THEN {"CONFIRMED"} ELSE {})

Ask(i, to) ==
  /\ act[i] = NoAct /\ presses < MaxPresses
  /\ act' = [act EXCEPT ![i] = [step |-> "asked", to |-> to, resolved |-> FALSE]]
  /\ presses' = presses + 1
  /\ UNCHANGED <<list, status, resolvedAt, shown>>

Act(d, i) == \E to \in Buttons(shown[d]) :
  /\ list = "reservation"
  /\ Ask(i, to)

Advance(d, i) == \E to \in {t[2] : t \in {t \in NEXT_STATUS : t[1] = shown[d]}} :
  /\ list = "ticket"
  /\ Ask(i, to)

(* An update of a ticket that leaves its status alone: no page sends one.  *)
EditTicket(i) == list = "ticket" /\ Ask(i, "none")

List(d) ==
  /\ shown[d] # status
  /\ shown' = [shown EXCEPT ![d] = status]
  /\ UNCHANGED <<list, status, resolvedAt, act, presses>>

ActLost(i) ==
  /\ act[i] # NoAct
  /\ act' = [act EXCEPT ![i] = NoAct]
  /\ UNCHANGED <<list, status, resolvedAt, shown, presses>>

-------------------------------------------------------------------------------
(* The services.                                                           *)

SetStatus(i) == LET to == act[i].to IN
  /\ list = "reservation" /\ act[i].step = "asked"
  /\ status' = to
  /\ act' = [act EXCEPT ![i] = NoAct]
  /\ UNCHANGED <<list, resolvedAt, shown, presses>>

ReadTicket(i) ==
  /\ list = "ticket" /\ act[i].step = "asked"
  /\ act' = [act EXCEPT ![i].step = "read", ![i].resolved = resolvedAt]
  /\ UNCHANGED <<list, status, resolvedAt, shown, presses>>

ResolvedAt(to, before) == to \in {"RESOLVED", "CLOSED"} \/ before

UpdateTicket(i) == LET to == act[i].to IN
  /\ act[i].step = "read"
  /\ status' = IF to = "none" THEN status ELSE to
  /\ resolvedAt' = ResolvedAt(to, act[i].resolved)
  /\ act' = [act EXCEPT ![i] = NoAct]
  /\ UNCHANGED <<list, shown, presses>>

WorklistsNext ==
  \/ \E i \in Calls :
       \/ \E d \in Desks : Act(d, i) \/ Advance(d, i)
       \/ EditTicket(i) \/ ActLost(i)
       \/ SetStatus(i) \/ ReadTicket(i) \/ UpdateTicket(i)
  \/ \E d \in Desks : List(d)

WorklistsSpec == WorklistsInit /\ [][WorklistsNext]_worklistVars

-------------------------------------------------------------------------------
WorklistsTypeOK ==
  /\ status \in {"PENDING", "CONFIRMED", "NEW", "IN_PROGRESS", "RESOLVED", "CLOSED"} \cup Ended
  /\ resolvedAt \in BOOLEAN /\ presses \in 0 .. MaxPresses
===============================================================================
