SPECIFICATION Spec
CONSTANTS
    Manifests = {m1, m2}
    None = None
    DwellTimes = {0, 2}
    CooldownTimes = {0, 1, 3}
    MaxTime = 6
INVARIANTS
    TypeOK
    ModeMatchesContent
    CooldownServed
PROPERTY
    ImplementsContract
