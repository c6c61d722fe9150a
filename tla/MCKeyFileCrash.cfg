CONSTANTS
    Process = {p1}
    Key = {k1, k2, k3}
    Absent = Absent
    Short = Short
    NoKey = NoKey
    NoProcess = NoProcess
    OverlappingStarts = FALSE
SYMMETRY Symmetry
SPECIFICATION Spec
INVARIANT FileIsSeed
CHECK_DEADLOCK FALSE
