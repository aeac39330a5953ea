------------------------------- MODULE Workday -------------------------------
(***************************************************************************)
(* Schedule, attendance, the end-of-day sweep and the clock together, with *)
(* restarts of the server, and what should hold of them.                   *)
(***************************************************************************)
EXTENDS AbsenteeSweep

CONSTANT MaxRestarts   \* bound: how often the server restarts
ASSUME RestartAssumption == MaxRestarts \in Nat

VARIABLE restarts

vars == <<today, slot, attendanceVars, shiftVars, sweepVars, restarts>>

TypeOK ==
  /\ ShiftsTypeOK /\ AttendanceTypeOK /\ SweepTypeOK
  /\ restarts \in 0..MaxRestarts

Init == ShiftsInit /\ AttendanceInit /\ SweepInit /\ restarts = 0

\* Time passes while requests and runs are under way.  A timer that has run out
\* fires within its slot, and a request is answered before the clock has moved
\* twice; a run may take as long as it likes.
Tick ==
  /\ ~TimerDue
  /\ \A v \in visits : v.at = Now
  /\ IF slot + 1 < SlotsPerDay
     THEN slot' = slot + 1 /\ today' = today
     ELSE today < LastDay /\ slot' = 0 /\ today' = today + 1
  /\ UNCHANGED <<attendanceVars, shiftVars, sweepVars, restarts>>

\* Requests and runs are lost, the timer is set anew; the tables stay.
Restart ==
  /\ restarts < MaxRestarts
  /\ restarts' = restarts + 1
  /\ visits' = {}
  /\ deleting' = {}
  /\ sweep' = [w \in Sweepers |-> Idle]
  /\ nextSweep' = UntilNext(today, slot)
  /\ UNCHANGED <<today, slot, attendance, workShift, assignment, edits>>

Scheduling == ShiftsNext /\ UNCHANGED <<today, slot, attendanceVars, sweepVars, restarts>>
Visiting == VisitNext /\ UNCHANGED <<sweepVars, restarts>>
Sweeping == SweepNext /\ UNCHANGED restarts

Next == Scheduling \/ Visiting \/ Sweeping \/ Tick \/ Restart

Spec == Init /\ [][Next]_vars

-----------------------------------------------------------------------------
\* A day's attendance is one verdict: a check-in stands and lies on its own
\* date, a check-out is written once and only after a check-in, an absence is
\* final; whatever check-ins, check-outs and sweeps overlap.
Ledger == INSTANCE AttendanceLedger WITH page <- attendance
ImplementsLedger == Ledger!Spec

AboutToMark(w, e) ==
  sweep[w].write # NULL /\ sweep[w].write.row = "absent" /\ sweep[w].write.employee = e

\* Whoever a sweep has dealt with has a row for the day the sweep is for, also
\* when a check-in or another sweep came between its read and its write, or its
\* reads failed; only a failed write leaves someone out, and a repeated run
\* whose writes succeed nobody.
SweptHaveRows ==
  \A w \in Sweepers : \A es \in sweep[w].listed \ sweep[w].todo :
    \/ attendance[es.employee][sweep[w].day] # NULL
    \/ AboutToMark(w, es.employee)
    \/ es.employee \in sweep[w].missed

\* Check-in and sweep ask for the schedule with different queries; whoever can
\* check in on a day is on the sweep's list, once, with the same shift.
SweepSeesSchedule ==
  \A e \in Employees, d \in Days :
    LET s == ResolveEmployeeShiftForDate(e, d) IN
    s # NULL => {es \in ListEmployeeShiftsForDate(d) : es.employee = e}
                  = {[employee |-> e, shift |-> s]}

\* "The employee must have an active shift right now, have checked in ... and
\* not have checked out yet", and every caller handles a shift that "spans
\* midnight": whoever checked in for a shift that is still running, and was not
\* checked out at an earlier instant, may work.
OnShiftMayWork ==
  \A e \in Employees, d \in Days :
    LET row == attendance[e][d]
        s == ResolveEmployeeShiftForDate(e, d) IN
    /\ CheckedIn(row)
    /\ row.out = NULL \/ row.out > Now
    /\ s # NULL
    /\ ShiftStart(workShift[s].times, d) <= Now /\ Now <= ShiftEnd(workShift[s].times, d)
    => AssertShiftEligibility(e)
=============================================================================
