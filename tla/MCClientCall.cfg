SPECIFICATION CallSpec
CONSTANTS
  Inputs <- MCInputs
  LowerOf <- MCLowerOf
  Digits = {"1"}
  Keywords <- MCKeywords
  NameTokens = {"f", "g"}
  Displays <- MCDisplays
  JsonAs <- MCJsonAs
  JsonValues <- MCJsonValues
  Bases <- MCBases
  Tokens <- MCTokens
  FileNames <- MCFileNames
  PathEscaped <- MCPathEscaped
  FormSafe <- MCFormSafe
  Controls = {"LF"}
  Configs <- MCConfigs
  Requests <- MCRequests
  Env <- MCEnv
  Opaque <- MCOpaque
  Fits <- MCFits
  FitsJson <- MCFitsJson
  SignedBy = {}
  DefaultLimit = 5
  TypeOf <- MCTypeOf
  IntOf <- MCIntOf
  FloatOf <- MCFloatOf
  UuidTexts = {}
  RegexFits <- MCRegexFits
  JsonOf <- MCJsonOf
  Shown <- MCShown
INVARIANTS
  ClientIffSound
  CallArrives
  RunsIffFit
  ExecutesTheCall
CHECK_DEADLOCK FALSE
