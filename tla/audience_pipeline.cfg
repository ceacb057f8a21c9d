SPECIFICATION FairSpec
CONSTANTS
    None = None
    MinStability = 2
    ConfidenceFreeze = 5000
    Scenes = {"clear", "blurred"}
    Observed <- MCObserved
    Window = 2
    Stale = 1
    MaxBackoff = 2
    MaxOutbox = 2
    Settings <- MCSettings
INVARIANTS
    TypeOK
PROPERTIES
    ActsOnRecentArrivals
    DegradedHolds
    SilenceFreezes
    DecisionsResume
