SPECIFICATION MCSpec
CONSTANTS
  o1 = o1 review1 = review1 w1 = w1 Nobody = Nobody Dead = Dead
  Owner = {o1}
  Review = {review1}
  MaxAttempts = 1
  GraceChecks = 1
  MaxSends = 1
  Faults = {"query", "effect"}
INVARIANT DeliveredInOrder
PROPERTIES SettledIsTold WaiterEnds UpdateEnds
CHECK_DEADLOCK FALSE
