SPECIFICATION MCSpec
CONSTANTS
  c1 = c1 c2 = c2
  Clients = {c1, c2}
  Batch = 2
  MaxPending = 1
  TailPoll = TRUE
  MaxRuns = 2
  MaxEvents = 6
  MaxDeltas = 1
  MaxBreaks = 2
  Tasks = {1, 2, 3}
  Ids = {1, 2, 3, 4, 5, 6}
  Owner <- OwnerOf
  Routed = {1, 3}
  Flaky = {1}
  Times = {1, 2}
  Limits = {1, 2}
  MaxSeq = 4
SYMMETRY Symmetry
INVARIANTS StreamIsWhole WalkIsWhole
PROPERTY EndIsTrue
CHECK_DEADLOCK FALSE
