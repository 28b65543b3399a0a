SPECIFICATION Spec
CONSTANTS
    Gates = {s1, s3, s4}
    Refusing = {s3}
    Tampered = {s4}
    Observations = {o1, o2}
    MaxStarts = 5
INVARIANTS
    PassedNeverEquivocate
    PassedStayRecorded
    DispatchIsWitnessed
CHECK_DEADLOCK FALSE
SYMMETRY ObservationSymmetry
