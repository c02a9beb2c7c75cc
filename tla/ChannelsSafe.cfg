SPECIFICATION MCSpec
CONSTANTS
  o1 = o1 o2 = o2 w1 = w1 w2 = w2 Nobody = Nobody Dead = Dead
  Events = {1, 2, 3, 4}
  Kind <- PushKind
  Ingress = "push"
  Workers = {w1, w2}
  MaxDeliveries = 3
  MaxReviews = 2
  Faults = {"slow", "lost", "reply"}
  MaxFaults = 3
SYMMETRY Symmetry
INVARIANTS ActsOnce DeliversInOrder
PROPERTY BesideNoSeenRun
CHECK_DEADLOCK FALSE
