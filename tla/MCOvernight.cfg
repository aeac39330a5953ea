SPECIFICATION ScheduledSpec
CONSTANTS
  NULL = NULL
  Employees = {e1}
  WorkShifts = {s1}
  SlotsPerDay = 3
  DaysPerWeek = 2
  LastDay = 1
  MaxEdits = 0
  Tolerance = 1
  MaxVisits = 1
  Sweepers = {timer}
  Timer = timer
  SweepSlot = 2
  MaxRestarts = 0
CHECK_DEADLOCK FALSE
INVARIANTS OnShiftMayWork
