\* A runtime that has closed stops.
SPECIFICATION MCSpec
CONSTANTS
  t1 = t1 t2 = t2 c1 = c1 c2 = c2
  Task = {t1, t2}
  Client = {c1, c2}
  MaxRun = 2
  Faults = {"save", "tail"}
INVARIANTS ExecutionIsOwned ClosedIsQuiet
PROPERTIES CloseCompletes CancelCompletes
CHECK_DEADLOCK FALSE
