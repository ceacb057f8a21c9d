SPECIFICATION Spec
CONSTANTS
    Manifests = {m1}
    None = None
    DwellTimes = {0}
    CooldownTimes = {0}
    MaxTime = 0
    Requests = {r1}
    FallbackAssets = {f1}
    LoopingManifests = {m1}
    CachedManifests = {m1}
    Blank = Blank
    Faults = {}
INVARIANTS
    SafeModeShowsFallback
