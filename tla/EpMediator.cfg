SPECIFICATION FairSpec
CONSTANTS
    Inv = {move, view, late}
    Ptz = {move, late}
    Unauthorized = {late}
    Positions = {home, safe}
    Home = home
    Preset = safe
    None = None
    Vapix = FALSE
    Fifo = FALSE
    MaxStarts = 2
INVARIANTS
    ContradictedIsObserved
    CommandInv
CHECK_DEADLOCK FALSE
PROPERTIES
    ImplementsOnce
    RunsEnd
