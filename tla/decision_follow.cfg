SPECIFICATION FairSpec
CONSTANTS
    m1 = m1
    m2 = m2
    few = few
    many = many
    Manifests = {m1, m2}
    None = None
    MaxTime = 0
    Dwell = 0
    Cooldown = 0
    Audiences = {few, many}
    Policies <- TwoPolicies
    MaxWire = 1
    Faults = {"break", "clean_close", "policy_reload"}
PROPERTIES
    FollowsAudience
    FreezeStopsSwitching
