SPECIFICATION Spec
CONSTANTS
  Endpoints <- MCEndpoints
  Contexts <- MCContexts
INVARIANTS
  ValuesQuoted
  ArgvTyped
  UnresolvedIsOptional
  ScriptIsArgv
  TempFilesBacked
CHECK_DEADLOCK FALSE
