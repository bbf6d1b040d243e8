SPECIFICATION Spec
CONSTANTS
  Configs <- MCConfigs
  Requests <- MCRequests
  Env <- MCEnv
  Opaque <- MCOpaque
  Fits <- MCFits
  FitsJson <- MCFitsJson
  SignedBy <- MCSignedBy
  DefaultLimit = 5
  TypeOf <- MCTypeOf
  IntOf <- MCIntOf
  FloatOf <- MCFloatOf
  UuidTexts = {}
  RegexFits <- MCRegexFits
  JsonOf <- MCJsonOf
  Shown <- MCShown
INVARIANTS
  ExecutesOnlyGood
  FirstDefectAnswers
  StatusTellsWhy
  RangesHold
  FormIsWhatWasSent
CHECK_DEADLOCK FALSE
