SPECIFICATION FairSpec
CONSTANTS
    PipeCap = 1
    MaxOut <- MCMaxOut
    MaxInput = 2
    Daemons = FALSE
    Timeouts = {TRUE}
PROPERTIES
    TimeoutEnforced
