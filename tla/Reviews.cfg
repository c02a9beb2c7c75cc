SPECIFICATION MCSpec
CONSTANTS
  root = root a = a b = b far = far away = away
  Root = root
  Locals = {a, b}
  Remotes = {far, away}
  MaxReviews = 3
  MaxRuns = 2
  MaxFaults = 2
  MaxCalls = 2
  Profiles <- Files
  MaxRounds = 2
  MaxChanges = 1
INVARIANTS ReviewsAgree ApprovalIsKept
CHECK_DEADLOCK FALSE
