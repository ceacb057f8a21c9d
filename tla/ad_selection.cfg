SPECIFICATION Spec
CONSTANTS
    m1 = m1
    m2 = m2
    stub = stub
    None = None
    StubManifest = stub
    Library <- MCLibrary
    Observations <- MCObservations
    MaxWindow = 2
    MinStability = 1
    ConfidenceFreeze = 5000
    MaxEnabled = 2
INVARIANTS
    SomeRuleMatches
    TargetingNeedsDisclosureAndAttention
    KeepsItsHours
    SliceBeatsSingleTag
