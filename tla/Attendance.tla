------------------------------ MODULE Attendance ------------------------------
(***************************************************************************)
(* internal/attendance: an employee checks in and out.  A request reads    *)
(* the schedule and the day's row at one instant and writes later; only    *)
(* the unique index on employee and date, and the UPDATE's own condition,  *)
(* hold at the time of the write.  The geofence, the outlet and lateness   *)
(* decide no further state and are left out: a request they refuse is not  *)
(* made.                                                                   *)
(***************************************************************************)
EXTENDS Shifts

CONSTANTS
  Tolerance,    \* slots before the start at which check-in opens
  MaxVisits     \* bound: check-ins and check-outs in flight

ASSUME AttendanceAssumption == Tolerance \in Nat /\ MaxVisits \in Nat

VARIABLES
  today, slot,  \* the server's clock, in WIB
  attendance,   \* attendances: per employee and date, NULL or in and out
  visits        \* check-in and check-out requests that have passed their checks

attendanceVars == <<attendance, visits>>

Now == Instant(today, slot)
Instants == 0..Instant(LastDay + 1, SlotsPerDay)
Absent == [in |-> NULL, out |-> NULL]

\* Only who came can leave.
AttendanceRows == {Absent} \cup [in : Instants, out : Instants \cup {NULL}]

ASSUME RowAssumption == NULL \notin AttendanceRows

AttendanceTypeOK ==
  /\ today \in Days
  /\ slot \in Slots
  /\ attendance \in [Employees -> [Days -> AttendanceRows \cup {NULL}]]
  /\ visits \in SUBSET [what : {"in", "out"}, employee : Employees, date : Days, at : Instants]

AttendanceInit ==
  /\ today = 0
  /\ slot = 0
  /\ attendance = [e \in Employees |-> [d \in Days |-> NULL]]
  /\ visits = {}

CheckedIn(row) == row # NULL /\ row.in # NULL

\* CivilDateStart(now) is the date the request will write to.
Visit(what, e) == [what |-> what, employee |-> e, date |-> today, at |-> Now]

CheckInCheck(e) ==
  LET s == ResolveEmployeeShiftForDate(e, today) IN
  /\ Cardinality(visits) < MaxVisits
  /\ s # NULL
  /\ Now >= ShiftStart(workShift[s].times, today) - Tolerance
  /\ Now <= ShiftEnd(workShift[s].times, today)
  /\ visits' = visits \cup {Visit("in", e)}
  /\ UNCHANGED <<today, slot, attendance, shiftVars>>

\* CreateAttendance: the unique index refuses a second row of the day.
CreateAttendance(v) ==
  IF attendance[v.employee][v.date] = NULL
  THEN attendance' = [attendance EXCEPT ![v.employee][v.date] = [in |-> v.at, out |-> NULL]]
  ELSE UNCHANGED attendance

CheckIn(v) ==
  /\ v \in visits /\ v.what = "in"
  /\ visits' = visits \ {v}
  /\ CreateAttendance(v)
  /\ UNCHANGED <<today, slot, shiftVars>>

\* Mutant: CheckOut that does not ask the row for a check-in.
CheckOutCheckAnyRow(e) ==
  LET s == ResolveEmployeeShiftForDate(e, today)
      row == attendance[e][today] IN
  /\ Cardinality(visits) < MaxVisits
  /\ s # NULL
  /\ Now >= ShiftEnd(workShift[s].times, today)
  /\ row # NULL
  /\ row.out = NULL
  /\ visits' = visits \cup {Visit("out", e)}
  /\ UNCHANGED <<today, slot, attendance, shiftVars>>

CheckOutCheck(e) ==
  LET s == ResolveEmployeeShiftForDate(e, today)
      row == attendance[e][today] IN
  /\ Cardinality(visits) < MaxVisits
  /\ s # NULL
  /\ Now >= ShiftEnd(workShift[s].times, today)
  /\ CheckedIn(row)
  /\ row.out = NULL
  /\ visits' = visits \cup {Visit("out", e)}
  /\ UNCHANGED <<today, slot, attendance, shiftVars>>

\* Mutant: CheckOutAttendance without its check_out_time IS NULL.
CheckOutAttendanceAgain(v) ==
  attendance' = [attendance EXCEPT ![v.employee][v.date].out = v.at]

\* CheckOutAttendance asks for a row without check-out, not for a check-in.
CheckOutAttendance(v) ==
  IF attendance[v.employee][v.date] # NULL /\ attendance[v.employee][v.date].out = NULL
  THEN attendance' = [attendance EXCEPT ![v.employee][v.date].out = v.at]
  ELSE UNCHANGED attendance

CheckOut(v) ==
  /\ v \in visits /\ v.what = "out"
  /\ visits' = visits \ {v}
  /\ CheckOutAttendance(v)
  /\ UNCHANGED <<today, slot, shiftVars>>

\* AssertShiftEligibility: what claims, completions and bypass requests ask.
AssertShiftEligibility(e) ==
  LET s == ResolveEmployeeShiftForDate(e, today)
      row == attendance[e][today] IN
  /\ s # NULL
  /\ Now >= ShiftStart(workShift[s].times, today)
  /\ Now <= ShiftEnd(workShift[s].times, today)
  /\ CheckedIn(row)
  /\ row.out = NULL

VisitNext ==
  \/ \E e \in Employees : CheckInCheck(e) \/ CheckOutCheck(e)
  \/ \E v \in visits : CheckIn(v) \/ CheckOut(v)
=============================================================================
