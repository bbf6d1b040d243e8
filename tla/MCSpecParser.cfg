SPECIFICATION Spec
CONSTANT
  Files <- MCFiles
INVARIANTS
  AcceptedReadsAll
PROPERTIES
  Terminates
CHECK_DEADLOCK FALSE
