SPECIFICATION FairSpec
CONSTANTS
    FailureThreshold = 2
    RestartThreshold = 4
    BootLoopThreshold = 2
    Window = 4
    ReportedKey = "is_active"
    Faults = {"crash", "slow", "docker", "lost_answer", "supervisor_restart"}
INVARIANTS
    TypeOK
    RestartsBounded
PROPERTIES
    TerminalIsFinal
    LadderEnds
