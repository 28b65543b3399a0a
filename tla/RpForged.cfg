SPECIFICATION Spec
CONSTANTS
    Bundles <- ForgedBundles
    Foreign <- ForeignEntries
    Honest <- HonestBundles
    Examiners = {x}
    None = None
    MaxRetained = 2
INVARIANTS
    AcceptedIsConsistent
    OneTimeOnce
    HistoryAgreesWithIndex
    MembershipIsEarned
    ForkShowsInEvents
    HonestIsAccepted
PROPERTIES
    ImplementsLedger
CHECK_DEADLOCK FALSE
