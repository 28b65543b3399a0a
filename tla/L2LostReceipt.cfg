SPECIFICATION Spec
CONSTANTS
    Calls = {c1, c2}
    Stops = {s1}
    None = None
    Absent = Absent
    Empty = Empty
    Earlier = Earlier
    MaxFirst = 0
    MaxUnsteady = 3
    MaxKills = 0
    Times = {0, 1}
    MaxItems = 2
INVARIANTS
    LossIsVisible
CHECK_DEADLOCK FALSE
