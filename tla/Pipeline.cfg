SPECIFICATION Spec
CONSTANTS
  Plans <- AllPlans
  Capacity = 1
  Cancels = TRUE
INVARIANTS Delivered CommitsWhole
PROPERTY EveryTaskStops
CHECK_DEADLOCK FALSE
