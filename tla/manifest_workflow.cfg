SPECIFICATION FairSpec
CONSTANTS
    Manifests = {1}
    Carries <- MCCarries
    Tags = {t1, t2}
    Requests = {r1, r2}
    Operations = {"create", "approve", "enable", "disable", "archive", "tags", "sync"}
    Faults = {"disk_error", "commit_error", "crash", "reload_error", "optimizer_restart"}
    None = None
    Torn = Torn
    Down = Down
INVARIANTS
    TypeOK
    OnlyApprovedGetsOut
    FilesFollowStatus
    SyncedMeansCurrent
PROPERTIES
    LibraryFollows
    OptimizerComesBack
