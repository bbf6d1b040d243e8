SPECIFICATION FairSpec
CONSTANTS
    PipeCap = 1
    MaxOut <- MCMaxOut
    MaxInput = 2
    Daemons = TRUE
    Timeouts = {TRUE, FALSE}
    ChanCap = 1
INVARIANTS
    CleanEndComplete
    TempFilesHeld
PROPERTIES
    NoCutOutput
    ImplementsByteStream
    ShellStopped
    TimelyCompletion
