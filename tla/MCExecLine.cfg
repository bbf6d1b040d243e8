SPECIFICATION LineSpec
CONSTANTS
  Lines <- MCLines
  Values <- MCValues
INVARIANTS
  LineAsWritten
  ReadsBack
