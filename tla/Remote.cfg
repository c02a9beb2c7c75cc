SPECIFICATION MCSpec
CONSTANTS
  u1 = u1 u2 = u2
  None = None
  Here = "Here"
  Procs = {"p1", "p2", "q", "r"}
  NodeOf <- Serves
  Ids = {"a0", "a1", "a2", "a3", "old", "b1", "b2", "b3", "c1", "c2", "c3"}
  Home <- Homes
  Wanted <- Requests
  Idempotent = {"a2", "a3"}
  Limits <- AllLimits
  Legacy = {"old"}
  MaxVisited = 64
  MaxRestarts = 1
  Parts = 2
  Pieces = 2
  MaxRetries = 2
  Process = {u1, u2}
  PoolSize = 2
  MaxTokens = 4
  MaxLogins = 1
SYMMETRY Symmetry
INVARIANTS WithinLimits AnswerIsWhole LoginIsKept
CHECK_DEADLOCK FALSE
