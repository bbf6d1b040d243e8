SPECIFICATION Spec
CONSTANTS
  Endpoints <- MCEndpoints
  Contexts <- MCContexts
INVARIANT ArgvConstrained
CHECK_DEADLOCK FALSE
