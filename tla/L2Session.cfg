SPECIFICATION Spec
CONSTANTS
    Calls = {c1, c2, c3}
    Stops = {s1, s2}
    None = None
    Absent = Absent
    Empty = Empty
    Earlier = Earlier
    MaxFirst = 3
    MaxUnsteady = 3
    MaxKills = 1
    Times = {0, 1}
    MaxItems = 2
INVARIANTS
    IntactIsOneChain
    HonestSessionVerifies
    StopCloses
PROPERTIES
    ClosedStays
SYMMETRY HookSymmetry
CHECK_DEADLOCK FALSE
