SPECIFICATION FairSpec
CONSTANTS
    PipeCap = 1
    MaxOut <- MCMaxOut
    MaxInput = 2
    Daemons = TRUE
    Timeouts = {TRUE, FALSE}
INVARIANTS
    OutputComplete
    NoSurvivors
    TempFilesHeld
PROPERTIES
    NoCutOutput
    ImplementsCommandRun
    TimelyAnswer
    WritesComplete
