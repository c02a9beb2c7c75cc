\* Two inputs and a notice, a review, and two faults of any kind.
SPECIFICATION LiveSpec
CONSTANTS
  i1 = i1 i2 = i2 n1 = n1
  Input = {i1, i2}
  Note = {n1}
  MaxReviews = 1
  Faults = {"fail", "cancel", "crash", "stall", "unknown"}
  MaxFaults = 2
INVARIANTS HeardOnce WakesAreBounded
PROPERTIES ClosedIsFinal TriggerIsUsed
CHECK_DEADLOCK FALSE
