SPECIFICATION Spec
CONSTANTS
  N = 3
  Procs <- MCProcs
  RootCaps = {0, 1}
  MaxId = 4
INVARIANTS
  RevokeExact
  LedgerComplete
PROPERTIES
  SpliceExact
CHECK_DEADLOCK FALSE
