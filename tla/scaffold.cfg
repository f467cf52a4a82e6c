CONSTANTS
  Empty = Empty
  Initial <- MCInitial
  Derived <- MCDerived
  Arguments <- MCArguments
  MaxRuns = 2
  MaxEdits = 1
SPECIFICATION Spec
INVARIANTS TypeOK AcceptedIsOneSelection SuccessIsWhole RetryCompletes
CHECK_DEADLOCK FALSE
