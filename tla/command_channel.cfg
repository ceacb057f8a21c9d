SPECIFICATION Spec
CONSTANTS
    MaxIssued = 4
    MaxSessions = 3
    MaxSeen = 2
INVARIANTS
    TypeOK
    NothingRefused
    NoGapInSession
PROPERTY
    ImplementsOrderedDelivery
