CONSTANTS
    Process = {p1, p2}
    Key = {k1, k2, k3}
    Absent = Absent
    Short = Short
    NoKey = NoKey
    NoProcess = NoProcess
    OverlappingStarts = FALSE
    File <- MCFile
    Content <- MCContent
    Unparsable = Unparsable
    NoList = NoList
SPECIFICATION StartupSpec
INVARIANTS
    StartupTypeOK
    ServedKeyOnDisk
    OneKeyServed
    LookupsAllowed
    BuiltinStays
PROPERTIES
    FileWrittenOnce
    KeepsIdentity
CHECK_DEADLOCK FALSE
