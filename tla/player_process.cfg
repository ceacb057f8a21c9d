SPECIFICATION FairSpec
CONSTANTS
    Manifests = {m1, m2, m3}
    None = None
    DwellTimes = {0}
    CooldownTimes = {0}
    MaxTime = 1
    Requests = {r1}
    FallbackAssets = {f1}
    LoopingManifests = {m1, m3}
    CachedManifests = {m1, m2}
    Blank = Blank
    Faults = {"clean_close", "process_death", "mpv_death", "ipc", "broker_drop"}
INVARIANTS
    TypeOK
    ScreenMatchesState
    ImpressionsAreTrue
PROPERTIES
    LostSessionShowsFallback
