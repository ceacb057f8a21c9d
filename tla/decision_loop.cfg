SPECIFICATION Spec
CONSTANTS
    m1 = m1
    m2 = m2
    few = few
    many = many
    Manifests = {m1, m2}
    None = None
    MaxTime = 1
    Dwell = 1
    Cooldown = 1
    Audiences = {few, many}
    Policies <- TwoPolicies
    MaxWire = 2
    Faults = {"break", "player_restart", "optimizer_restart", "safe_mode", "policy_reload"}
INVARIANTS
    TypeOK
    StreamAgreesWithBelief
    FrozenBeliefHolds
