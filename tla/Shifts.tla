-------------------------------- MODULE Shifts --------------------------------
(***************************************************************************)
(* internal/shift: the shifts of the day (work_shifts), who works which of *)
(* them on a weekday or on one date (employee_shifts), and the two ways    *)
(* the code asks for them.  Instants are counted in slots; a shift's start *)
(* and end are slots of the day.                                           *)
(***************************************************************************)
EXTENDS NullValue, Integers, FiniteSets

CONSTANTS
  Employees,
  WorkShifts,    \* ids of the rows of work_shifts
  SlotsPerDay,   \* how many points of a day are told apart
  DaysPerWeek,
  LastDay,       \* bound: days 0..LastDay
  MaxEdits       \* bound: changes the super admin makes to the schedule

ASSUME ShiftsAssumption ==
  /\ SlotsPerDay \in Nat \ {0}
  /\ DaysPerWeek \in Nat \ {0}
  /\ LastDay \in Nat
  /\ MaxEdits \in Nat
  /\ NULL \notin Int /\ NULL \notin WorkShifts

Days == 0..LastDay
Slots == 0..SlotsPerDay - 1
Instant(day, slot) == day * SlotsPerDay + slot
Weekday(day) == day % DaysPerWeek

\* An assignment names a weekday or a date, never both; a unique index allows
\* one per employee and weekday, and one per employee and date.
Keys == [on : {"weekday"}, of : 0..DaysPerWeek - 1] \cup [on : {"date"}, of : Days]
OnWeekday(day) == [on |-> "weekday", of |-> Weekday(day)]
OnDate(day) == [on |-> "date", of |-> day]

VARIABLES
  workShift,   \* work_shifts: the row's times, and what became of it
  assignment,  \* employee_shifts: per employee and key, NULL or shift and is_active
  deleting,    \* soft deletions that have counted the assignments
  edits        \* changes made so far

shiftVars == <<workShift, assignment, deleting, edits>>

Times == [start : Slots, end : Slots]

\* deleted: deleted_at is set; purged: the row is gone (HardDeleteWorkShift).
ShiftStates == {"unused", "live", "deleted", "purged"}

ShiftsTypeOK ==
  /\ workShift \in [WorkShifts -> [times : Times, state : ShiftStates]]
  /\ assignment \in [Employees -> [Keys -> [shift : WorkShifts, active : BOOLEAN] \cup {NULL}]]
  /\ deleting \in SUBSET WorkShifts
  /\ edits \in 0..MaxEdits

ShiftsInit ==
  /\ workShift = [s \in WorkShifts |-> [times |-> [start |-> 0, end |-> 0], state |-> "unused"]]
  /\ assignment = [e \in Employees |-> [k \in Keys |-> NULL]]
  /\ deleting = {}
  /\ edits = 0

-----------------------------------------------------------------------------
\* The instants a shift's times stand for on a day.  An end before the start
\* lies on the following day.
ShiftStart(times, day) == Instant(day, times.start)
ShiftEnd(times, day) ==
  Instant(IF times.end < times.start THEN day + 1 ELSE day, times.end)

Active(a) == a # NULL /\ a.active
Live(s) == workShift[s].state = "live"

\* GetWorkShiftByID after the assignment was found.
ShiftOf(a) == IF Live(a.shift) THEN a.shift ELSE NULL

\* ResolveEmployeeShiftForDate: the date's own assignment, else the weekday's.
\* An inactive row is not found; a deleted shift ends the search.
ResolveEmployeeShiftForDate(e, day) ==
  IF Active(assignment[e][OnDate(day)]) THEN ShiftOf(assignment[e][OnDate(day)])
  ELSE IF Active(assignment[e][OnWeekday(day)]) THEN ShiftOf(assignment[e][OnWeekday(day)])
  ELSE NULL

Scheduled == [employee : Employees, shift : WorkShifts]
Names(a, s) == Active(a) /\ a.shift = s

\* Mutant: the query puts the recurring assignment first.
ListRecurringFirst(day) ==
  {es \in Scheduled :
     \/ Names(assignment[es.employee][OnWeekday(day)], es.shift)
     \/ /\ ~Active(assignment[es.employee][OnWeekday(day)])
        /\ Names(assignment[es.employee][OnDate(day)], es.shift)}

\* ListEmployeeShiftsForDate: the same question in one query, for the sweep;
\* it does not look at work_shifts.
ListEmployeeShiftsForDate(day) ==
  {es \in Scheduled :
     \/ Names(assignment[es.employee][OnDate(day)], es.shift)
     \/ /\ ~Active(assignment[es.employee][OnDate(day)])
        /\ Names(assignment[es.employee][OnWeekday(day)], es.shift)}

-----------------------------------------------------------------------------
Edit == edits < MaxEdits /\ edits' = edits + 1

CreateWorkShift(s, times) ==
  /\ Edit
  /\ workShift[s].state = "unused"
  /\ workShift' = [workShift EXCEPT ![s] = [times |-> times, state |-> "live"]]
  /\ UNCHANGED <<assignment, deleting>>

UpdateWorkShift(s, times) ==
  /\ Edit
  /\ Live(s)
  /\ workShift' = [workShift EXCEPT ![s].times = times]
  /\ UNCHANGED <<assignment, deleting>>

\* SoftDeleteWorkShift counts the active assignments first ...
SoftDeleteCheck(s) ==
  /\ Edit
  /\ Live(s)
  /\ \A e \in Employees, k \in Keys :
       Active(assignment[e][k]) => assignment[e][k].shift # s
  /\ deleting' = deleting \cup {s}
  /\ UNCHANGED <<workShift, assignment>>

\* ... and deletes in a statement of its own.
SoftDeleteWorkShift(s) ==
  /\ s \in deleting
  /\ deleting' = deleting \ {s}
  /\ workShift' = [workShift EXCEPT ![s].state = IF @ = "live" THEN "deleted" ELSE @]
  /\ UNCHANGED <<assignment, edits>>

\* HardDeleteWorkShift: only a deleted shift, and the foreign key of
\* employee_shifts refuses it while any row, active or not, names it.
HardDeleteWorkShift(s) ==
  /\ Edit
  /\ workShift[s].state = "deleted"
  /\ \A e \in Employees, k \in Keys : assignment[e][k] # NULL => assignment[e][k].shift # s
  /\ workShift' = [workShift EXCEPT ![s].state = "purged"]
  /\ UNCHANGED <<assignment, deleting>>

\* CreateEmployeeShift: the foreign key asks for a row, deleted or not.
CreateEmployeeShift(e, k, s, active) ==
  /\ Edit
  /\ assignment[e][k] = NULL
  /\ workShift[s].state \in {"live", "deleted"}
  /\ assignment' = [assignment EXCEPT ![e][k] = [shift |-> s, active |-> active]]
  /\ UNCHANGED <<workShift, deleting>>

DeleteEmployeeShift(e, k) ==
  /\ Edit
  /\ assignment[e][k] # NULL
  /\ assignment' = [assignment EXCEPT ![e][k] = NULL]
  /\ UNCHANGED <<workShift, deleting>>

ShiftsNext ==
  \/ \E s \in WorkShifts :
       \/ \E times \in Times : CreateWorkShift(s, times) \/ UpdateWorkShift(s, times)
       \/ SoftDeleteCheck(s)
       \/ SoftDeleteWorkShift(s)
       \/ HardDeleteWorkShift(s)
  \/ \E e \in Employees, k \in Keys :
       \/ \E s \in WorkShifts, active \in BOOLEAN : CreateEmployeeShift(e, k, s, active)
       \/ DeleteEmployeeShift(e, k)
=============================================================================
