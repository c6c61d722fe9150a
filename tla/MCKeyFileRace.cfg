CONSTANTS
    Process = {p1, p2}
    Key = {k1, k2, k3}
    Absent = Absent
    Short = Short
    NoKey = NoKey
    NoProcess = NoProcess
    OverlappingStarts = TRUE
SYMMETRY Symmetry
SPECIFICATION Spec
INVARIANT OneKeyServed
CHECK_DEADLOCK FALSE
