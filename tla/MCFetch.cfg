CONSTANTS
    Request = {r1, r2}
    Token = {t1, t2}
    Cleared = Cleared
    None = None
    Scope = {target, site, login}
    Reaching = {target, site}
    shared = shared
SYMMETRY Symmetry
SPECIFICATION Spec
INVARIANTS
    FetchTypeOK
    NoCookieCrossing
    DoubleSubmit
CHECK_DEADLOCK FALSE
