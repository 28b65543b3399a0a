SPECIFICATION Spec
CONSTANTS
    Inv = {view}
    Ptz = {}
    Unauthorized = {}
    Positions = {home, safe}
    Home = home
    Preset = safe
    None = None
    Vapix = TRUE
    Fifo = TRUE
    MaxStarts = 2
INVARIANTS
    ContradictedIsObserved
CHECK_DEADLOCK FALSE
