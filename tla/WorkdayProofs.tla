---------------------------- MODULE WorkdayProofs ----------------------------
(***************************************************************************)
(* Workday, for any employees, shifts, sweepers, length of day and number  *)
(* of days: types, the promise of AttendanceLedger, and that a sweep       *)
(* leaves nobody without a row; from an empty schedule, and from one that  *)
(* is in force, as in MCWorkday.                                           *)
(***************************************************************************)
EXTENDS MCWorkday, TLAPS

\* A request writes to the date of its own instant, and a check-out request
\* has seen a check-in: CheckOutAttendance does not ask for one itself.
VisitsInv ==
  \A v \in visits :
    /\ Instant(v.date, 0) <= v.at /\ v.at < Instant(v.date, 0) + SlotsPerDay
    /\ v.what = "out" => CheckedIn(attendance[v.employee][v.date])

IInv == TypeOK /\ VisitsInv /\ SweptHaveRows

-----------------------------------------------------------------------------
(* Instants.                                                               *)

\* Every instant a handler computes from a day of the calendar and slots of
\* the day, also on the day after, is one of Instants.
LEMMA InstantType ==
  ASSUME NEW d \in 0..LastDay + 1, NEW s \in Slots
  PROVE  /\ Instant(d, s) \in Instants
         /\ Instant(d, 0) <= Instant(d, s)
         /\ Instant(d, s) < Instant(d, 0) + SlotsPerDay
<1>1. d * SlotsPerDay \in Nat /\ (LastDay + 1) * SlotsPerDay \in Nat
  BY ShiftsAssumption
<1>2. d * SlotsPerDay <= (LastDay + 1) * SlotsPerDay
  BY ShiftsAssumption
<1> QED
  BY <1>1, <1>2, ShiftsAssumption DEF Instant, Instants, Slots

LEMMA ShiftEndType ==
  ASSUME NEW d \in Days, NEW times \in Times
  PROVE  ShiftEnd(times, d) \in Instants
<1>1. d \in 0..LastDay + 1 /\ d + 1 \in 0..LastDay + 1 /\ times.end \in Slots
  BY ShiftsAssumption DEF Days, Times
<1> QED
  BY <1>1, InstantType DEF ShiftEnd

LEMMA NowType ==
  ASSUME TypeOK
  PROVE  /\ Now \in Instants
         /\ Now + SlotsPerDay \in Instants
         /\ Instant(today, 0) <= Now /\ Now < Instant(today, 0) + SlotsPerDay
<1>1. today \in 0..LastDay /\ today \in 0..LastDay + 1 /\ slot \in Slots
  BY ShiftsAssumption DEF TypeOK, AttendanceTypeOK, Days
<1>2. Now \in Instants /\ Instant(today, 0) <= Now /\ Now < Instant(today, 0) + SlotsPerDay
  BY <1>1, InstantType DEF Now
<1>3. Now + SlotsPerDay \in Instants
  <2>1. today * SlotsPerDay <= LastDay * SlotsPerDay
    BY <1>1, ShiftsAssumption
  <2>2. (LastDay + 1) * SlotsPerDay = LastDay * SlotsPerDay + SlotsPerDay
    BY ShiftsAssumption
  <2>3. today * SlotsPerDay \in Nat /\ LastDay * SlotsPerDay \in Nat
    BY <1>1, ShiftsAssumption
  <2> QED
    BY <1>1, <2>1, <2>2, <2>3, ShiftsAssumption DEF Now, Instant, Instants, Slots
<1> QED
  BY <1>2, <1>3

LEMMA UntilNextType ==
  ASSUME NEW d \in Days, NEW s \in Slots
  PROVE  UntilNext(d, s) \in Instants
<1>1. d \in 0..LastDay + 1 /\ d + 1 \in 0..LastDay + 1
  BY ShiftsAssumption DEF Days
<1> QED
  BY <1>1, InstantType, SweepAssumption DEF UntilNext

LEMMA ListedAreScheduled ==
  ASSUME NEW d
  PROVE  ListEmployeeShiftsForDate(d) \in SUBSET Scheduled
  BY DEF ListEmployeeShiftsForDate

-----------------------------------------------------------------------------
(* The invariant, one component at a time.                                 *)

LEMMA InitIInv == Init => IInv
<1> SUFFICES ASSUME Init PROVE IInv
  OBVIOUS
<1>1. ShiftsTypeOK
  BY ShiftsAssumption DEF Init, ShiftsInit, ShiftsTypeOK, Times, Slots, ShiftStates
<1>2. 0 \in Days /\ 0 \in Slots
  BY ShiftsAssumption DEF Days, Slots
<1>3. AttendanceTypeOK
  BY <1>2 DEF Init, AttendanceInit, AttendanceTypeOK
<1>4. SweepTypeOK
  BY <1>2, UntilNextType DEF Init, SweepInit, SweepTypeOK, Idle
<1>5. restarts \in 0..MaxRestarts
  BY RestartAssumption DEF Init
<1>6. VisitsInv /\ SweptHaveRows
  BY DEF Init, AttendanceInit, SweepInit, VisitsInv, SweptHaveRows, Idle
<1> QED
  BY <1>1, <1>3, <1>4, <1>5, <1>6 DEF IInv, TypeOK

LEMMA ShiftsIInv ==
  IInv /\ ShiftsNext /\ UNCHANGED <<today, slot, attendanceVars, sweepVars, restarts>> => IInv'
<1> SUFFICES ASSUME IInv, ShiftsNext,
                    UNCHANGED <<today, slot, attendanceVars, sweepVars, restarts>>
             PROVE  IInv'
  OBVIOUS
<1>1. ShiftsTypeOK'
  <2> USE DEF ShiftsTypeOK, ShiftStates, Edit
  <2> USE ShiftsAssumption
  <2>0. ShiftsTypeOK
    BY DEF IInv, TypeOK
  <2>1. ASSUME NEW s \in WorkShifts, NEW times \in Times,
               CreateWorkShift(s, times) \/ UpdateWorkShift(s, times)
        PROVE  ShiftsTypeOK'
    BY <2>0, <2>1 DEF CreateWorkShift, UpdateWorkShift
  <2>2. ASSUME NEW s \in WorkShifts,
               SoftDeleteCheck(s) \/ SoftDeleteWorkShift(s) \/ HardDeleteWorkShift(s)
        PROVE  ShiftsTypeOK'
    BY <2>0, <2>2 DEF SoftDeleteCheck, SoftDeleteWorkShift, HardDeleteWorkShift
  <2>3. ASSUME NEW e \in Employees, NEW k \in Keys, NEW s \in WorkShifts, NEW active \in BOOLEAN,
               CreateEmployeeShift(e, k, s, active)
        PROVE  ShiftsTypeOK'
    BY <2>0, <2>3 DEF CreateEmployeeShift
  <2>4. ASSUME NEW e \in Employees, NEW k \in Keys, DeleteEmployeeShift(e, k)
        PROVE  ShiftsTypeOK'
    BY <2>0, <2>4 DEF DeleteEmployeeShift
  <2> QED
    BY <2>1, <2>2, <2>3, <2>4 DEF ShiftsNext
<1>2. AttendanceTypeOK' /\ SweepTypeOK' /\ (restarts \in 0..MaxRestarts)'
  BY DEF IInv, TypeOK, AttendanceTypeOK, SweepTypeOK, attendanceVars, sweepVars
<1>3. VisitsInv' /\ SweptHaveRows'
  BY DEF IInv, VisitsInv, SweptHaveRows, AboutToMark, CheckedIn, attendanceVars, sweepVars
<1> QED
  BY <1>1, <1>2, <1>3 DEF IInv, TypeOK

\* A row once there stays, and so does its check-in, if the step only fills in
\* what was missing.
RowsStand ==
  \A e \in Employees, d \in Days :
    /\ attendance[e][d] # NULL => attendance'[e][d] # NULL
    /\ CheckedIn(attendance[e][d]) => CheckedIn(attendance'[e][d])

LEMMA SweptStayPut ==
  ASSUME TypeOK, SweptHaveRows, RowsStand, UNCHANGED sweep
  PROVE  SweptHaveRows'
<1> SUFFICES ASSUME NEW w \in Sweepers, NEW es \in sweep[w].listed \ sweep[w].todo
             PROVE  \/ attendance'[es.employee][sweep[w].day] # NULL
                    \/ AboutToMark(w, es.employee)
                    \/ es.employee \in sweep[w].missed
  BY DEF SweptHaveRows, AboutToMark
<1>1. sweep[w] # Idle
  BY DEF Idle
<1>2. es.employee \in Employees /\ sweep[w].day \in Days
  BY <1>1 DEF TypeOK, SweepTypeOK, Runs, Scheduled
<1> QED
  BY <1>2 DEF SweptHaveRows, RowsStand

\* Writing the day's row of one employee, where there was none.
LEMMA FirstRow ==
  ASSUME TypeOK, NEW e \in Employees, NEW d \in Days, NEW row \in AttendanceRows,
         attendance[e][d] = NULL,
         attendance' = [attendance EXCEPT ![e][d] = row]
  PROVE  RowsStand /\ attendance' \in [Employees -> [Days -> AttendanceRows \cup {NULL}]]
  BY RowAssumption DEF TypeOK, AttendanceTypeOK, RowsStand, CheckedIn

\* Writing the check-out of one who has checked in.
LEMMA WithCheckOut ==
  ASSUME TypeOK, NEW e \in Employees, NEW d \in Days, NEW out \in Instants,
         CheckedIn(attendance[e][d]),
         attendance' = [attendance EXCEPT ![e][d].out = out]
  PROVE  RowsStand /\ attendance' \in [Employees -> [Days -> AttendanceRows \cup {NULL}]]
<1> DEFINE old == attendance[e][d]
           new == [old EXCEPT !.out = out]
<1>1. old \in [in : Instants, out : Instants \cup {NULL}]
  BY DEF TypeOK, AttendanceTypeOK, AttendanceRows, Absent, CheckedIn
<1>2. new \in [in : Instants, out : Instants \cup {NULL}] /\ new.in = old.in
  BY <1>1
<1>3. new \in AttendanceRows /\ new # NULL /\ CheckedIn(new)
  BY <1>2, RowAssumption DEF AttendanceRows, CheckedIn
<1>4. /\ attendance' = [attendance EXCEPT ![e] = [attendance[e] EXCEPT ![d] = new]]
      /\ attendance \in [Employees -> [Days -> AttendanceRows \cup {NULL}]]
  BY DEF TypeOK, AttendanceTypeOK
<1>5. attendance'[e][d] = new /\ \A x \in Employees, y \in Days :
        <<x, y>> # <<e, d>> => attendance'[x][y] = attendance[x][y]
  BY <1>4
<1> HIDE DEF new, old
<1> QED
  BY SMTT(30), <1>3, <1>4, <1>5 DEF RowsStand

LEMMA VisitIInv == IInv /\ VisitNext /\ UNCHANGED <<sweepVars, restarts>> => IInv'
<1> SUFFICES ASSUME IInv, VisitNext, UNCHANGED <<sweepVars, restarts>> PROVE IInv'
  OBVIOUS
<1> USE DEF IInv
\* A check, and the write of a request whose row is there already.
<1>1. ASSUME NEW e \in Employees, NEW what \in {"in", "out"},
             visits' = visits \cup {Visit(what, e)},
             what = "out" => CheckedIn(attendance[e][today]),
             UNCHANGED <<today, slot, attendance, shiftVars>>
      PROVE  IInv'
  <2>1. /\ Visit(what, e) \in [what : {"in", "out"}, employee : Employees,
                               date : Days, at : Instants]
        /\ Visit(what, e).date = today /\ Visit(what, e).at = Now
        /\ Visit(what, e).what = what /\ Visit(what, e).employee = e
    BY NowType DEF Visit, TypeOK, AttendanceTypeOK
  <2>2. TypeOK'
    BY <1>1, <2>1 DEF TypeOK, ShiftsTypeOK, AttendanceTypeOK, SweepTypeOK, shiftVars, sweepVars
  <2>3. VisitsInv'
    BY <1>1, <2>1, NowType DEF VisitsInv, CheckedIn
  <2>4. SweptHaveRows'
    BY <1>1 DEF SweptHaveRows, AboutToMark, sweepVars
  <2> QED
    BY <2>2, <2>3, <2>4
<1>2. ASSUME NEW v \in visits, visits' = visits \ {v}, RowsStand,
             attendance' \in [Employees -> [Days -> AttendanceRows \cup {NULL}]],
             UNCHANGED <<today, slot, shiftVars>>
      PROVE  IInv'
  <2>1. TypeOK'
    BY <1>2 DEF TypeOK, ShiftsTypeOK, AttendanceTypeOK, SweepTypeOK, shiftVars, sweepVars
  <2>2. VisitsInv'
    BY <1>2 DEF VisitsInv, RowsStand, TypeOK, AttendanceTypeOK
  <2>3. SweptHaveRows'
    BY <1>2, SweptStayPut DEF sweepVars
  <2> QED
    BY <2>1, <2>2, <2>3
<1>3. ASSUME NEW e \in Employees, CheckInCheck(e) PROVE IInv'
  BY <1>1, <1>3 DEF CheckInCheck
<1>4. ASSUME NEW e \in Employees, CheckOutCheck(e) PROVE IInv'
  BY <1>1, <1>4 DEF CheckOutCheck
<1>5. ASSUME NEW v \in visits PROVE v.employee \in Employees /\ v.date \in Days /\ v.at \in Instants
  BY <1>5 DEF TypeOK, AttendanceTypeOK
<1>6. ASSUME UNCHANGED attendance
      PROVE  RowsStand /\ attendance' \in [Employees -> [Days -> AttendanceRows \cup {NULL}]]
  BY <1>6 DEF RowsStand, TypeOK, AttendanceTypeOK
<1>7. ASSUME NEW v \in visits, CheckIn(v) PROVE IInv'
  <2>1. [in |-> v.at, out |-> NULL] \in AttendanceRows
    BY <1>5 DEF AttendanceRows
  <2> QED
    BY <1>2, <1>5, <1>6, <1>7, <2>1, FirstRow DEF CheckIn, CreateAttendance
<1>8. ASSUME NEW v \in visits, CheckOut(v) PROVE IInv'
  <2>1. CheckedIn(attendance[v.employee][v.date])
    BY <1>8 DEF CheckOut, VisitsInv
  <2> QED
    BY <1>2, <1>5, <1>6, <1>8, <2>1, WithCheckOut DEF CheckOut, CheckOutAttendance
<1> QED
  BY <1>3, <1>4, <1>7, <1>8 DEF VisitNext

\* A run whose pending write changes is a run.
LEMMA RunExcept ==
  ASSUME NEW r \in Runs, NEW write \in Writes \cup {NULL}
  PROVE  [r EXCEPT !.write = write] \in Runs
  BY DEF Runs

LEMMA SweepIInv == IInv /\ SweepNext /\ UNCHANGED restarts => IInv'
<1> SUFFICES ASSUME IInv, SweepNext, UNCHANGED restarts PROVE IInv'
  OBVIOUS
<1> USE DEF IInv
<1>0. today \in Days /\ slot \in Slots
  BY DEF TypeOK, AttendanceTypeOK
\* A step that only changes runs keeps the rest of the invariant.
<1>1. ASSUME UNCHANGED <<today, slot, attendanceVars, shiftVars>>, SweepTypeOK', SweptHaveRows'
      PROVE  IInv'
  BY <1>1 DEF TypeOK, ShiftsTypeOK, AttendanceTypeOK, VisitsInv, CheckedIn,
     attendanceVars, shiftVars
<1>2. ASSUME NEW w \in Sweepers, NEW day \in Days, RunEndOfDaySweep(w, day),
             UNCHANGED <<nextSweep, today, slot, attendanceVars, shiftVars>>
      PROVE  IInv'
  <2>1. SweepTypeOK'
    BY <1>0, <1>2, ListedAreScheduled DEF RunEndOfDaySweep, TypeOK, SweepTypeOK, Runs
  <2>2. SweptHaveRows'
    BY <1>2 DEF RunEndOfDaySweep, SweptHaveRows, AboutToMark, TypeOK, SweepTypeOK, attendanceVars
  <2> QED
    BY <1>1, <1>2, <2>1, <2>2
<1>3. ASSUME NEW w \in Sweepers, SweepReads(w) PROVE IInv'
  <2>0. PICK es \in sweep[w].todo : \E write \in WritesFor(es, sweep[w].day) :
          /\ sweep[w].write = NULL
          /\ sweep' = [sweep EXCEPT ![w].todo = @ \ {es}, ![w].write = write]
          /\ UNCHANGED <<nextSweep, today, slot, attendanceVars, shiftVars>>
    BY <1>3 DEF SweepReads
  <2>1. PICK write \in WritesFor(es, sweep[w].day) :
          /\ sweep[w].write = NULL
          /\ sweep' = [sweep EXCEPT ![w].todo = @ \ {es}, ![w].write = write]
          /\ UNCHANGED <<nextSweep, today, slot, attendanceVars, shiftVars>>
    BY <2>0
  <2>2. sweep[w] \in Runs /\ es.employee \in Employees /\ es.shift \in WorkShifts
    BY <2>1 DEF TypeOK, SweepTypeOK, Idle, Runs, Scheduled
  <2>3. write \in Writes \cup {NULL}
    BY <2>1, <2>2, ShiftEndType DEF WritesFor, Writes, Runs, TypeOK, ShiftsTypeOK
  <2>4. /\ sweep' = [sweep EXCEPT ![w] = [sweep[w] EXCEPT !.todo = @ \ {es}, !.write = write]]
        /\ sweep'[w] \in Runs
    <3> DEFINE todo == sweep[w].todo \ {es}
    <3>1. sweep' = [sweep EXCEPT ![w] = [sweep[w] EXCEPT !.todo = todo, !.write = write]]
      BY <2>1 DEF TypeOK, SweepTypeOK
    <3>2. todo \in SUBSET Scheduled
      BY <2>2 DEF Runs
    <3>3. sweep'[w] = [sweep[w] EXCEPT !.todo = todo, !.write = write]
      BY <3>1 DEF TypeOK, SweepTypeOK
    <3>4. sweep'[w] \in Runs
      <4> HIDE DEF todo
      <4> QED
        BY <2>2, <2>3, <3>2, <3>3 DEF Runs
    <3> QED
      BY <3>1, <3>4
  <2>5. SweepTypeOK'
    BY <2>1, <2>4 DEF TypeOK, SweepTypeOK
  <2>8. /\ sweep'[w].day = sweep[w].day /\ sweep'[w].listed = sweep[w].listed
        /\ sweep'[w].todo = sweep[w].todo \ {es}
        /\ sweep'[w].write = write
        /\ sweep'[w].missed = sweep[w].missed
        /\ \A x \in Sweepers : x # w => sweep'[x] = sweep[x]
    BY <2>2, <2>4 DEF TypeOK, SweepTypeOK, Runs
  <2>6. \/ attendance[es.employee][sweep[w].day] # NULL
        \/ write.employee = es.employee /\ write.row = "absent" /\ write # NULL
    BY <2>1, <2>2, WriteAssumption DEF WritesFor, Writes, Runs
  <2>7. SweptHaveRows'
    <3> SUFFICES ASSUME NEW x \in Sweepers, NEW f \in sweep'[x].listed \ sweep'[x].todo
                 PROVE  \/ attendance[f.employee][sweep'[x].day] # NULL
                        \/ AboutToMark(x, f.employee)'
                        \/ f.employee \in sweep'[x].missed
      BY <2>1 DEF SweptHaveRows, attendanceVars
    <3>1. CASE x # w
      BY <2>8, <3>1 DEF SweptHaveRows, AboutToMark
    <3>2. CASE x = w /\ f = es
      BY <2>6, <2>8, <3>2 DEF AboutToMark
    <3>3. CASE x = w /\ f # es
      <4>1. f \in sweep[w].listed \ sweep[w].todo /\ sweep'[x].day = sweep[w].day
        BY <2>8, <3>3
      <4> QED
        BY <2>1, <2>8, <3>3, <4>1 DEF SweptHaveRows, AboutToMark
    <3> QED
      BY <3>1, <3>2, <3>3
  <2> QED
    BY <1>1, <2>1, <2>5, <2>7
<1>4. ASSUME NEW w \in Sweepers, SweepWrites(w) PROVE IInv'
  <2> DEFINE write == sweep[w].write
             day == sweep[w].day
  <2>1. sweep[w] \in Runs /\ write \in Writes /\ day \in Days
    BY <1>4 DEF SweepWrites, TypeOK, SweepTypeOK, Idle, Runs
  <2>2. write.employee \in Employees
        /\ (write.row # "absent" => write.row = "checkout" /\ write.out \in Instants)
    BY <2>1 DEF Writes
  <2>3. /\ RowsStand
        /\ attendance' \in [Employees -> [Days -> AttendanceRows \cup {NULL}]]
        /\ write.row = "absent" => attendance'[write.employee][day] # NULL
    <3>1. CASE UNCHANGED attendance /\ (write.row = "absent" => attendance[write.employee][day] # NULL)
      BY <3>1 DEF RowsStand, TypeOK, AttendanceTypeOK
    <3>2. CASE /\ attendance[write.employee][day] = NULL
               /\ attendance' = [attendance EXCEPT ![write.employee][day] = Absent]
      <4>1. Absent \in AttendanceRows
        BY DEF AttendanceRows
      <4>2. attendance'[write.employee][day] = Absent
        BY <2>1, <2>2, <3>2 DEF TypeOK, AttendanceTypeOK
      <4> QED
        BY <2>1, <2>2, <3>2, <4>1, <4>2, FirstRow, RowAssumption
    <3>3. CASE /\ write.row # "absent"
               /\ CheckedIn(attendance[write.employee][day])
               /\ attendance' = [attendance EXCEPT ![write.employee][day].out = write.out]
      BY <2>1, <2>2, <3>3, WithCheckOut DEF RowsStand, CheckedIn
    <3> QED
      BY <1>4, <3>1, <3>2, <3>3 DEF SweepWrites, CreateAbsentAttendance, AutoCheckoutAttendance
  <2>4. /\ sweep'[w] \in Runs
        /\ sweep'[w].day = day /\ sweep'[w].listed = sweep[w].listed
        /\ sweep'[w].todo = sweep[w].todo
        /\ sweep'[w].missed = sweep[w].missed
        /\ \A x \in Sweepers : x # w => sweep'[x] = sweep[x]
    <3>1. sweep' = [sweep EXCEPT ![w] = [sweep[w] EXCEPT !.write = NULL]]
      BY <1>4 DEF SweepWrites
    <3>2. sweep'[w] = [sweep[w] EXCEPT !.write = NULL]
      BY <3>1 DEF TypeOK, SweepTypeOK
    <3>4. sweep'[w] \in Runs
      BY <2>1, <3>2, RunExcept
    <3> QED
      BY <2>1, <3>1, <3>2, <3>4 DEF TypeOK, SweepTypeOK, Runs
  <2>5. TypeOK'
    <3>1. SweepTypeOK'
      BY <1>4, <2>4 DEF SweepWrites, TypeOK, SweepTypeOK
    <3> QED
      BY <1>4, <3>1, <2>1, <2>3, <2>4 DEF SweepWrites, TypeOK, ShiftsTypeOK, AttendanceTypeOK,
         shiftVars
  <2>6. VisitsInv'
    BY <1>4, <2>3 DEF SweepWrites, VisitsInv, RowsStand, TypeOK, AttendanceTypeOK
  <2>7. SweptHaveRows'
    <3> SUFFICES ASSUME NEW x \in Sweepers, NEW f \in sweep'[x].listed \ sweep'[x].todo
                 PROVE  \/ attendance'[f.employee][sweep'[x].day] # NULL
                        \/ AboutToMark(x, f.employee)'
                        \/ f.employee \in sweep'[x].missed
      BY DEF SweptHaveRows
    <3>1. f \in sweep[x].listed \ sweep[x].todo /\ sweep'[x].day = sweep[x].day
      BY <2>4
    <3>2. f.employee \in Employees /\ sweep[x].day \in Days
      BY <3>1 DEF TypeOK, SweepTypeOK, Scheduled, Idle, Runs
    <3>3. CASE attendance[f.employee][sweep[x].day] # NULL
      BY <2>3, <3>1, <3>2, <3>3 DEF RowsStand
    <3>4. CASE AboutToMark(x, f.employee) /\ x = w
      BY <2>3, <3>1, <3>4 DEF AboutToMark
    <3>5. CASE AboutToMark(x, f.employee) /\ x # w
      BY <2>4, <3>5 DEF AboutToMark
    <3>6. CASE f.employee \in sweep[x].missed
      BY <2>4, <3>6
    <3> QED
      BY <3>1, <3>3, <3>4, <3>5, <3>6 DEF SweptHaveRows
  <2> QED
    BY <2>5, <2>6, <2>7
<1>5. ASSUME NEW w \in Sweepers, SweepReturns(w) PROVE IInv'
  <2>0. Now + SlotsPerDay \in Instants
    BY NowType
  <2>1. SweepTypeOK'
    BY <1>5, <2>0 DEF SweepReturns, TypeOK, SweepTypeOK
  <2>2. SweptHaveRows'
    BY <1>5 DEF SweepReturns, SweptHaveRows, AboutToMark, TypeOK, SweepTypeOK, Idle, attendanceVars
  <2> QED
    BY <1>1, <1>5, <2>1, <2>2 DEF SweepReturns
<1>6. ASSUME TimerFires PROVE IInv'
  BY <1>0, <1>2, <1>6, SweepAssumption DEF TimerFires
<1>7. ASSUME NEW w \in Sweepers, NEW day \in Days, TriggerSweep(w, day) PROVE IInv'
  BY <1>2, <1>7 DEF TriggerSweep
<1>8. ASSUME NEW w \in Sweepers, SweepWriteFails(w) PROVE IInv'
  <2> DEFINE e == sweep[w].write.employee
             missed == sweep[w].missed \cup {e}
  <2>1. sweep[w] \in Runs /\ e \in Employees
    BY <1>8 DEF SweepWriteFails, TypeOK, SweepTypeOK, Idle, Runs, Writes
  <2>2. sweep' = [sweep EXCEPT ![w] = [sweep[w] EXCEPT !.write = NULL, !.missed = missed]]
    BY <1>8 DEF SweepWriteFails, TypeOK, SweepTypeOK
  <2>3. missed \in SUBSET Employees
    BY <2>1 DEF Runs
  <2>4. /\ sweep'[w] = [sweep[w] EXCEPT !.write = NULL, !.missed = missed]
        /\ \A x \in Sweepers : x # w => sweep'[x] = sweep[x]
    BY <2>2 DEF TypeOK, SweepTypeOK
  <2> HIDE DEF missed
  <2>5. /\ sweep'[w] \in Runs
        /\ sweep'[w].day = sweep[w].day /\ sweep'[w].listed = sweep[w].listed
        /\ sweep'[w].todo = sweep[w].todo /\ sweep'[w].missed = missed
    BY <2>1, <2>3, <2>4 DEF Runs
  <2>6. SweepTypeOK'
    BY <1>8, <2>2, <2>5 DEF SweepWriteFails, TypeOK, SweepTypeOK
  <2>7. SweptHaveRows'
    <3> SUFFICES ASSUME NEW x \in Sweepers, NEW f \in sweep'[x].listed \ sweep'[x].todo
                 PROVE  \/ attendance'[f.employee][sweep'[x].day] # NULL
                        \/ AboutToMark(x, f.employee)'
                        \/ f.employee \in sweep'[x].missed
      BY DEF SweptHaveRows
    <3>1. /\ f \in sweep[x].listed \ sweep[x].todo /\ sweep'[x].day = sweep[x].day
          /\ UNCHANGED attendance
      BY <1>8, <2>4, <2>5 DEF SweepWriteFails, attendanceVars
    <3>2. CASE x # w
      BY <2>4, <3>1, <3>2 DEF SweptHaveRows, AboutToMark
    <3>3. CASE x = w
      BY <2>5, <3>1, <3>3 DEF SweptHaveRows, AboutToMark, missed
    <3> QED
      BY <3>2, <3>3
  <2> QED
    BY <1>1, <1>8, <2>6, <2>7 DEF SweepWriteFails
<1> QED
  BY <1>3, <1>4, <1>5, <1>6, <1>7, <1>8 DEF SweepNext

LEMMA TickIInv == IInv /\ Tick => IInv'
<1> SUFFICES ASSUME IInv, Tick PROVE IInv'
  OBVIOUS
<1> USE DEF IInv
<1>1. today' \in Days /\ slot' \in Slots
  BY ShiftsAssumption DEF Tick, TypeOK, AttendanceTypeOK, Days, Slots
<1>2. TypeOK'
  BY <1>1 DEF Tick, TypeOK, ShiftsTypeOK, AttendanceTypeOK, SweepTypeOK,
     attendanceVars, shiftVars, sweepVars
<1>3. VisitsInv' /\ SweptHaveRows'
  BY DEF Tick, VisitsInv, SweptHaveRows, AboutToMark, CheckedIn, attendanceVars, sweepVars
<1> QED
  BY <1>2, <1>3

LEMMA RestartIInv == IInv /\ Restart => IInv'
<1> SUFFICES ASSUME IInv, Restart PROVE IInv'
  OBVIOUS
<1> USE DEF IInv
<1>1. nextSweep' \in Instants
  BY UntilNextType DEF Restart, TypeOK, AttendanceTypeOK
<1>2. TypeOK'
  BY <1>1, RestartAssumption DEF Restart, TypeOK, ShiftsTypeOK, AttendanceTypeOK, SweepTypeOK
<1>3. VisitsInv' /\ SweptHaveRows'
  BY DEF Restart, VisitsInv, SweptHaveRows, Idle
<1> QED
  BY <1>2, <1>3

LEMMA StutterIInv == IInv /\ UNCHANGED vars => IInv'
  BY DEF IInv, TypeOK, ShiftsTypeOK, AttendanceTypeOK, SweepTypeOK, VisitsInv, SweptHaveRows,
     AboutToMark, CheckedIn, vars, attendanceVars, shiftVars, sweepVars

LEMMA StepIInv == IInv /\ [Next]_vars => IInv'
  BY ShiftsIInv, VisitIInv, SweepIInv, TickIInv, RestartIInv, StutterIInv
     DEF Next, Scheduling, Visiting, Sweeping

LEMMA IInvHolds == Spec => []IInv
  BY InitIInv, StepIInv, PTL DEF Spec

-----------------------------------------------------------------------------
(* The theorems.                                                           *)

\* Every table, request and run keeps its type; in particular no row has a
\* check-out without a check-in, though CheckOutAttendance would write one.
THEOREM WorkdayTypeCorrect == Spec => []TypeOK
<1>1. IInv => TypeOK
  BY DEF IInv
<1> QED
  BY <1>1, IInvHolds, PTL

\* A sweep leaves nobody it has dealt with without a row for its day, whatever
\* check-ins and other sweeps do between its read and its write and whichever
\* reads fail, but for those whose write failed.
THEOREM SweptHaveRowsHolds == Spec => []SweptHaveRows
<1>1. IInv => SweptHaveRows
  BY DEF IInv
<1> QED
  BY <1>1, IInvHolds, PTL

LEMMA ScheduleIsSeen == IInv => SweepSeesSchedule
<1> SUFFICES ASSUME IInv, NEW e \in Employees, NEW d \in Days,
                    ResolveEmployeeShiftForDate(e, d) # NULL
             PROVE  {es \in ListEmployeeShiftsForDate(d) : es.employee = e}
                      = {[employee |-> e, shift |-> ResolveEmployeeShiftForDate(e, d)]}
  BY DEF SweepSeesSchedule
<1> DEFINE s == ResolveEmployeeShiftForDate(e, d)
           dated == assignment[e][OnDate(d)]
           weekly == assignment[e][OnWeekday(d)]
<1>1. OnDate(d) \in Keys /\ OnWeekday(d) \in Keys
  BY ShiftsAssumption DEF OnDate, OnWeekday, Keys, Days, Weekday
<1>2. s \in WorkShifts
  BY <1>1 DEF ResolveEmployeeShiftForDate, ShiftOf, Active, IInv, TypeOK, ShiftsTypeOK
<1>3. \/ Active(dated) /\ s = dated.shift
      \/ ~Active(dated) /\ Active(weekly) /\ s = weekly.shift
  BY DEF ResolveEmployeeShiftForDate, ShiftOf
<1> HIDE DEF s
<1>4. \A es \in Scheduled :
        es.employee = e => (es \in ListEmployeeShiftsForDate(d) <=> es.shift = s)
  BY <1>3 DEF ListEmployeeShiftsForDate, Names
<1>5. \A es \in Scheduled : es.employee = e /\ es.shift = s
                             <=> es = [employee |-> e, shift |-> s]
  BY <1>2 DEF Scheduled
<1>6. [employee |-> e, shift |-> s] \in Scheduled
  BY <1>2 DEF Scheduled
<1>7. ListEmployeeShiftsForDate(d) \subseteq Scheduled
  BY ListedAreScheduled
<1>8. {es \in ListEmployeeShiftsForDate(d) : es.employee = e} = {[employee |-> e, shift |-> s]}
  BY <1>4, <1>5, <1>6, <1>7
<1> QED
  BY <1>8 DEF s

\* The two queries for the schedule agree on everyone who may check in.
THEOREM SweepSeesScheduleHolds == Spec => []SweepSeesSchedule
BY IInvHolds, ScheduleIsSeen, PTL

\* What a step does to the rows is a step of the ledger, or nothing.
LEMMA LedgerStep == IInv /\ [Next]_vars => [Ledger!Next]_attendance
<1> SUFFICES ASSUME IInv, [Next]_vars, ~UNCHANGED attendance PROVE Ledger!Next
  BY DEF Ledger!Next
<1> USE DEF IInv
<1>1. PICK c \in {"visit", "sweep"} :
        \/ c = "visit" /\ \E v \in visits : CheckIn(v) \/ CheckOut(v)
        \/ c = "sweep" /\ \E w \in Sweepers : SweepWrites(w)
  BY DEF Next, Scheduling, Visiting, Sweeping, vars, ShiftsNext, VisitNext, SweepNext,
     CheckInCheck, CheckOutCheck, TimerFires, TriggerSweep, SweepReads, SweepWriteFails,
     SweepReturns, Tick, Restart, attendanceVars
<1>2. ASSUME NEW v \in visits PROVE v.employee \in Employees /\ v.date \in Days /\ v.at \in Instants
  BY <1>2 DEF TypeOK, AttendanceTypeOK
<1>3. ASSUME NEW v \in visits, CheckIn(v) PROVE Ledger!Next
  <2>1. /\ v.date * SlotsPerDay <= v.at
        /\ v.at < v.date * SlotsPerDay + SlotsPerDay
    BY <1>2, ShiftsAssumption DEF VisitsInv, Instant, Instants, Days
  <2>2. Ledger!Come(v.employee, v.date)
    BY <1>2, <1>3, <2>1 DEF CheckIn, CreateAttendance, Ledger!Come
  <2> QED
    BY <1>2, <2>2 DEF Ledger!Next
<1>4. ASSUME NEW v \in visits, CheckOut(v) PROVE Ledger!Next
  <2>1. Ledger!Leave(v.employee, v.date)
    BY <1>2, <1>4 DEF CheckOut, CheckOutAttendance, VisitsInv, CheckedIn, Ledger!Leave
  <2> QED
    BY <1>2, <2>1 DEF Ledger!Next
<1>5. ASSUME NEW w \in Sweepers, SweepWrites(w) PROVE Ledger!Next
  <2> DEFINE write == sweep[w].write
             day == sweep[w].day
  <2>1. write \in Writes /\ day \in Days
    BY <1>5 DEF SweepWrites, TypeOK, SweepTypeOK, Idle, Runs
  <2>2. write.employee \in Employees
        /\ (write.row # "absent" => write.out \in Instants)
    BY <2>1 DEF Writes
  <2>3. Ledger!StayAway(write.employee, day) \/ Ledger!Leave(write.employee, day)
    BY <1>5, <2>1, <2>2 DEF SweepWrites, CreateAbsentAttendance, AutoCheckoutAttendance,
       CheckedIn, Absent, Ledger!StayAway, Ledger!Leave
  <2> QED
    BY <2>1, <2>2, <2>3 DEF Ledger!Next
<1> QED
  BY <1>1, <1>3, <1>4, <1>5

\* Check-ins, check-outs and sweeps together give each employee one verdict a
\* day, as AttendanceLedger promises.
THEOREM WorkdayImplementsLedger == Spec => ImplementsLedger
<1>1. Init => Ledger!Init
  BY DEF Init, AttendanceInit, Ledger!Init
<1> QED
  BY <1>1, LedgerStep, IInvHolds, PTL DEF Spec, ImplementsLedger, Ledger!Spec

-----------------------------------------------------------------------------
(* A schedule in force.  It satisfies the invariant from which everything  *)
(* above follows, and its steps are among Workday's.                       *)

LEMMA ScheduledInitIInv == ScheduledInit => IInv
<1> SUFFICES ASSUME ScheduledInit PROVE IInv
  OBVIOUS
<1>1. ShiftsTypeOK
  <2>1. PICK times \in Times :
          workShift = [s \in WorkShifts |->
            IF s = TheShift THEN [times |-> times, state |-> "live"]
            ELSE [times |-> times, state |-> "unused"]]
    BY DEF ScheduledInit, Scheduled0
  <2>2. TheShift \in WorkShifts
    BY ScheduleAssumption DEF TheShift
  <2> QED
    BY <2>1, <2>2, ShiftsAssumption DEF ScheduledInit, Scheduled0, ShiftsTypeOK, ShiftStates
<1>2. 0 \in Days /\ 0 \in Slots
  BY ShiftsAssumption DEF Days, Slots
<1>3. AttendanceTypeOK
  BY <1>2 DEF ScheduledInit, NotBegun, AttendanceInit, AttendanceTypeOK
<1>4. SweepTypeOK
  BY <1>2, UntilNextType DEF ScheduledInit, NotBegun, SweepInit, SweepTypeOK, Idle
<1>5. restarts \in 0..MaxRestarts
  BY RestartAssumption DEF ScheduledInit, NotBegun
<1>6. VisitsInv /\ SweptHaveRows
  BY DEF ScheduledInit, NotBegun, AttendanceInit, SweepInit, VisitsInv, SweptHaveRows, Idle
<1> QED
  BY <1>1, <1>3, <1>4, <1>5, <1>6 DEF IInv, TypeOK

LEMMA ScheduledSteps == [ScheduledNext]_vars => [Next]_vars
  BY DEF ScheduledNext, Next

\* The working days of a schedule in force keep what Workday keeps.
THEOREM ScheduledSafe ==
  ScheduledSpec => [](TypeOK /\ SweptHaveRows /\ SweepSeesSchedule) /\ ImplementsLedger

<1>1. ScheduledSpec => []IInv
  <2>1. IInv /\ [ScheduledNext]_vars => IInv'
    BY StepIInv, ScheduledSteps
  <2> QED
    BY <2>1, ScheduledInitIInv, PTL DEF ScheduledSpec
<1>2. IInv => TypeOK /\ SweptHaveRows
  BY DEF IInv
<1>3. ScheduledInit => Ledger!Init
  BY DEF ScheduledInit, NotBegun, AttendanceInit, Ledger!Init
<1>4. IInv /\ [ScheduledNext]_vars => [Ledger!Next]_attendance
  BY LedgerStep, ScheduledSteps
<1> QED
  BY <1>1, <1>2, <1>3, <1>4, ScheduleIsSeen, PTL
     DEF ScheduledSpec, ImplementsLedger, Ledger!Spec
=============================================================================
