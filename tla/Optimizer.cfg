CONSTANTS
  MaxInt = 7
  Queries <- MCQueries
  ColumnsOf <- MCColumnsOf
  KeyOf <- MCKeyOf
  Databases <- MCDatabases
  Rows <- MCRows
SPECIFICATION Spec
INVARIANTS KernelsRight ValuePreserved OrderKept PlanPreserved
CHECK_DEADLOCK FALSE
