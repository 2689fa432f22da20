SPECIFICATION Spec
CONSTANTS
  Queries <- AllQueries
  Window = 2
INVARIANTS JoinsRight AggregatesRight SelectionsRight PanicsExactly
CHECK_DEADLOCK FALSE
