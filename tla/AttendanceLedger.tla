--------------------------- MODULE AttendanceLedger ---------------------------
(***************************************************************************)
(* What the attendance of one employee on one day promises: one verdict,   *)
(* given once.  Either the employee came, at a time that stands and that   *)
(* lies on that day, and later left, at a time that stands; or was absent, *)
(* and nothing follows.                                                    *)
(***************************************************************************)
EXTENDS Integers

CONSTANTS Employees, Days, SlotsPerDay, Instants, NULL

VARIABLE page   \* per employee and day: NULL, or the times in and out

Init == page = [e \in Employees |-> [d \in Days |-> NULL]]

Come(e, d) ==
  \E t \in Instants :
    /\ page[e][d] = NULL
    /\ d * SlotsPerDay <= t /\ t < d * SlotsPerDay + SlotsPerDay
    /\ page' = [page EXCEPT ![e][d] = [in |-> t, out |-> NULL]]

Leave(e, d) ==
  \E t \in Instants :
    /\ page[e][d] # NULL
    /\ page[e][d].in # NULL
    /\ page[e][d].out = NULL
    /\ page' = [page EXCEPT ![e][d].out = t]

StayAway(e, d) ==
  /\ page[e][d] = NULL
  /\ page' = [page EXCEPT ![e][d] = [in |-> NULL, out |-> NULL]]

Next == \E e \in Employees, d \in Days : Come(e, d) \/ Leave(e, d) \/ StayAway(e, d)

Spec == Init /\ [][Next]_page
=============================================================================
