SPECIFICATION Spec
CONSTANTS
  Scenarios <- MCScenarios
  Requests <- MCRequests
INVARIANTS
  OneVerdict
  MountsAllOrPanics
  MergePanicWarned
  RightHandler
CHECK_DEADLOCK FALSE
