SPECIFICATION CampaignSpec
CONSTANTS
    Manifests = {1, 2}
    Carries <- MCCarries
    Tags = {t1}
    Requests = {r1}
    Operations = {"create", "approve", "reject", "enable", "disable"}
    Faults = {"disk_error"}
    None = None
    Torn = Torn
    Down = Down
INVARIANTS
    LinkedWasApproved
PROPERTIES
    LibraryFollows
