SPECIFICATION FairSpec
CONSTANTS
    FailureThreshold = 2
    RestartThreshold = 1
    BootLoopThreshold = 1
    Window = 1
    ReportedKey = "active"
    Faults = {}
PROPERTIES
    OperatorSafeModeEngages
