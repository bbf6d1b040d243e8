SPECIFICATION FairSpec
CONSTANTS
  Docs = {d1}
  CheckOnChange = TRUE
  MaxEvents = 4
  MaxOpens = 2
  MaxConfigs = 1
INVARIANTS
  DirectoriesOwned
PROPERTIES
  NoOutdatedReport
  SettledChecked
CHECK_DEADLOCK FALSE
