\* A local child with one later run, two dispatchers, a parent run; and a
\* remote child whose payloads arrive in order.
SPECIFICATION MCSpec
CONSTANTS
  c = c home = home replica = replica reader1 = reader1
  tok1 = tok1 tok2 = tok2
  Task = {c}
  Remote = {}
  MaxRun = 1
  Dispatcher = {home, replica}
  Home = home
  Reader = {reader1}
  Token = {tok1, tok2}
  NoToken = NoToken
  Reordered = FALSE
INVARIANTS TypeOK SettlementHasIntent QueuesAgree TakenRunIsQuiet
PROPERTIES ClaimsAreFenced LocalIntentIsDispatched
