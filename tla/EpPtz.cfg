SPECIFICATION Spec
CONSTANTS
    Inv = {move}
    Ptz = {move}
    Unauthorized = {}
    Positions = {home, safe}
    Home = home
    Preset = safe
    None = None
    Vapix = TRUE
    Fifo = TRUE
    MaxStarts = 3
INVARIANTS
    AtMostOnce
    NoUncommittedDispatch
    RefusalIsHonest
    AcknowledgedIsDone
    RestoreClaimIsTrue
    DisplacementIsRecorded
CHECK_DEADLOCK FALSE
