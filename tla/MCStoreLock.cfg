CONSTANTS
    SessionId = {s1, s2}
    TemplateId = {utah}
    Hostname = {votesearch}
    Body = {b1}
    Extraction = {x1}
    None = None
    MaxSessions = 1
    Caller = {k1, k2, k3}
SPECIFICATION FairLockSpec
INVARIANTS
    StoreTypeOK
    CapacityRespected
PROPERTIES
    ImplementsStore
    EveryCallReturns
CHECK_DEADLOCK FALSE
