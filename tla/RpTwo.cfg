SPECIFICATION Spec
CONSTANTS
    Bundles <- DisputedBundles
    Foreign <- NoEntries
    Honest <- NoBundles
    Examiners = {x, y}
    None = None
    MaxRetained = 1
INVARIANTS
    ExaminersAgree
SYMMETRY ExaminerSymmetry
CHECK_DEADLOCK FALSE
