SPECIFICATION FairSpec
CONSTANTS
    c1 = c1
    c2 = c2
    p1 = p1
    p2 = p2
    a1 = a1
    a2 = a2
    Company = {c1, c2}
    Process = {p1, p2}
    Admin = {a1, a2}
    Request = {"refresh", "poll", "l1", "l2", "g1"}
    Load = {"l1", "l2"}
    Guarded = {"g1"}
    All = All
    NoCompany = NoCompany
    NoProcess = NoProcess
    NoToken = NoToken
    Mixes <- AllMixes
CHECK_DEADLOCK FALSE
INVARIANTS TypeOK BypassIsFresh
PROPERTIES CacheCatchesUp ClientCatchesUp
