---------------------------- MODULE AbsenteeSweep ----------------------------
(***************************************************************************)
(* RunEndOfDaySweep, started daily by internal/cron's timer and by the     *)
(* super admin for any date: it lists who was scheduled and then, employee *)
(* by employee, reads the day's row and writes in a statement of its own.  *)
(* The error of a statement about one employee is dropped, and the run     *)
(* goes on with the next.                                                  *)
(***************************************************************************)
EXTENDS Attendance

CONSTANTS
  Sweepers, Timer,  \* the daily timer and manual runs; runs may overlap
  SweepSlot         \* the slot 23:55 lies in

ASSUME SweepAssumption == SweepSlot \in Slots /\ Timer \in Sweepers

VARIABLES
  sweep,    \* per sweeper: Idle, or the run's day, list, rest, pending write
            \* and the employees whose write has failed
  nextSweep \* the instant the timer is set to

sweepVars == <<sweep, nextSweep>>

Idle == [day |-> NULL, listed |-> {}, todo |-> {}, write |-> NULL, missed |-> {}]
Running(w) == sweep[w].day # NULL
Writes == [row : {"absent"}, employee : Employees, out : {NULL}]
            \cup [row : {"checkout"}, employee : Employees, out : Instants]

Runs == [day : Days, listed : SUBSET Scheduled, todo : SUBSET Scheduled,
         write : Writes \cup {NULL}, missed : SUBSET Employees]

ASSUME WriteAssumption == NULL \notin Writes

SweepTypeOK ==
  /\ sweep \in [Sweepers -> {Idle} \cup Runs]
  /\ nextSweep \in Instants

\* durationUntilNext: the next 23:55, tomorrow's if today's is past.
UntilNext(day, s) == Instant(IF s < SweepSlot THEN day ELSE day + 1, SweepSlot)

SweepInit ==
  /\ sweep = [w \in Sweepers |-> Idle]
  /\ nextSweep = UntilNext(0, 0)

\* The list is empty where its query fails: the run is over.
RunEndOfDaySweep(w, day) ==
  /\ ~Running(w)
  /\ \E listed \in {ListEmployeeShiftsForDate(day), {}} :
       sweep' = [sweep EXCEPT ![w] =
         [day |-> day, listed |-> listed, todo |-> listed, write |-> NULL, missed |-> {}]]

\* The timer has run out: the run is for the date the clock shows.
TimerDue == ~Running(Timer) /\ Now >= nextSweep

TimerFires ==
  /\ TimerDue
  /\ RunEndOfDaySweep(Timer, today)
  /\ UNCHANGED <<nextSweep, today, slot, attendanceVars, shiftVars>>

TriggerSweep(w, day) ==
  /\ w # Timer
  /\ RunEndOfDaySweep(w, day)
  /\ UNCHANGED <<nextSweep, today, slot, attendanceVars, shiftVars>>

\* What the row read for one employee may ask for.  A read that fails is taken
\* for one that finds no row; a shift that is deleted, or cannot be read, has
\* no end to check out at.
WritesFor(es, day) ==
  LET row    == attendance[es.employee][day]
      absent == [row |-> "absent", employee |-> es.employee, out |-> NULL]
      leave  == [row |-> "checkout", employee |-> es.employee,
                 out |-> ShiftEnd(workShift[es.shift].times, day)]
  IN IF row = NULL THEN {absent}
     ELSE {absent, NULL}
            \cup {write \in {leave} : CheckedIn(row) /\ row.out = NULL /\ Live(es.shift)}

SweepReads(w) ==
  \E es \in sweep[w].todo : \E write \in WritesFor(es, sweep[w].day) :
    /\ sweep[w].write = NULL
    /\ sweep' = [sweep EXCEPT ![w].todo = @ \ {es}, ![w].write = write]
    /\ UNCHANGED <<nextSweep, today, slot, attendanceVars, shiftVars>>

\* Mutant: the absence is entered for the date the clock shows.
CreateAbsentToday(e, day) ==
  IF attendance[e][today] = NULL
  THEN attendance' = [attendance EXCEPT ![e][today] = Absent]
  ELSE UNCHANGED attendance

\* ON CONFLICT (employee_id, date) DO NOTHING.
CreateAbsentAttendance(e, day) ==
  IF attendance[e][day] = NULL
  THEN attendance' = [attendance EXCEPT ![e][day] = Absent]
  ELSE UNCHANGED attendance

AutoCheckoutAttendance(e, day, out) ==
  IF CheckedIn(attendance[e][day]) /\ attendance[e][day].out = NULL
  THEN attendance' = [attendance EXCEPT ![e][day].out = out]
  ELSE UNCHANGED attendance

SweepWrites(w) ==
  LET write == sweep[w].write IN
  /\ write # NULL
  /\ IF write.row = "absent"
     THEN CreateAbsentAttendance(write.employee, sweep[w].day)
     ELSE AutoCheckoutAttendance(write.employee, sweep[w].day, write.out)
  /\ sweep' = [sweep EXCEPT ![w].write = NULL]
  /\ UNCHANGED <<nextSweep, today, slot, visits, shiftVars>>

\* The statement fails: the run passes the employee by.
SweepWriteFails(w) ==
  /\ sweep[w].write # NULL
  /\ sweep' = [sweep EXCEPT ![w].write = NULL,
                            ![w].missed = @ \cup {sweep[w].write.employee}]
  /\ UNCHANGED <<nextSweep, today, slot, attendanceVars, shiftVars>>

\* runDailyAt sets the timer 24 hours ahead when the job has returned.
SweepReturns(w) ==
  /\ Running(w) /\ sweep[w].todo = {} /\ sweep[w].write = NULL
  /\ sweep' = [sweep EXCEPT ![w] = Idle]
  /\ nextSweep' = IF w = Timer THEN Now + SlotsPerDay ELSE nextSweep
  /\ UNCHANGED <<today, slot, attendanceVars, shiftVars>>

SweepNext ==
  \/ TimerFires
  \/ \E w \in Sweepers :
       \/ \E day \in Days : TriggerSweep(w, day)
       \/ SweepReads(w) \/ SweepWrites(w) \/ SweepWriteFails(w) \/ SweepReturns(w)
=============================================================================
