------------------------------ MODULE MCWorkday ------------------------------
(***************************************************************************)
(* Workday from a schedule that is already in force: one shift, at any     *)
(* times, which every employee works on every weekday; the other shifts    *)
(* are still to be made.  A behaviour changes the schedule or runs the     *)
(* days; changes during a day are more than TLC explores, and              *)
(* WorkdayProofs covers them.                                              *)
(***************************************************************************)
EXTENDS Workday

ASSUME ScheduleAssumption == WorkShifts # {}

TheShift == CHOOSE s \in WorkShifts : TRUE

Scheduled0 ==
  /\ \E times \in Times : workShift = [s \in WorkShifts |->
        IF s = TheShift THEN [times |-> times, state |-> "live"]
        ELSE [times |-> times, state |-> "unused"]]
  /\ assignment = [e \in Employees |-> [k \in Keys |->
        IF k.on = "weekday" THEN [shift |-> TheShift, active |-> TRUE] ELSE NULL]]
  /\ deleting = {}
  /\ edits = 0

NotBegun == AttendanceInit /\ SweepInit /\ restarts = 0

ScheduledInit == Scheduled0 /\ NotBegun

ScheduledNext ==
  \/ NotBegun /\ Scheduling
  \/ edits = 0 /\ Visiting
  \/ edits = 0 /\ Sweeping
  \/ edits = 0 /\ Tick
  \/ edits = 0 /\ Restart

ScheduledSpec == ScheduledInit /\ [][ScheduledNext]_vars
=============================================================================
