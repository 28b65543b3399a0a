SPECIFICATION Spec
CONSTANTS
    None = None
    Random = Random
    Day = 86400
    Hour = 3600
    Minutes = 300
    DagDepth = 7
    DagWidth = 6
    MaxNodes = 20
    MaxParents = 3
    MaxEdges = 18
    MaxProof = 4
    MaxProofs = 60
    Corpus <- TheCorpus
INVARIANTS
    DeclaredVerdicts
    DispatchIsAuthorized
    KeysUsedInLife
    JournaledBeforeDispatch
    PlaceHasOneReceipt
    ClosedEpochIsWhole
    EpochsAreOneHistory
    ProofsShowWhatTheyClaim
    GrownLogIsExtended
    CrossEpochParentIsAnchored
    CompleteIsComplete
    LimitsAreEarned
CHECK_DEADLOCK FALSE
