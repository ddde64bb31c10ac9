SPECIFICATION FairSpec
CONSTANTS
    c1 = c1
    p1 = p1
    p2 = p2
    q1 = q1
    q2 = q2
    m1 = m1
    m2 = m2
    m3 = m3
    t1 = t1
    t2 = t2
    t3 = t3
    Mutation = {m1, m2, m3}
    KeyOf <- SameInstant
    Malformed = {m2}
    Process = {p1, p2}
    Tick = {t1, t2, t3}
    ProcessOf <- HomeOfTick
    NoMutation = NoMutation
    Company = {c1}
    Global = Global
    Trail = Trail
    Redis = Redis
    Reader = {q1, q2}
    CompanyOf <- OneCompany
    NoProcess = NoProcess
    Mixes <- AllMixes
CHECK_DEADLOCK FALSE
INVARIANTS TypeOK ProcessedIsCopied CopiesBounded ReadsSettled
PROPERTIES PendingEnds ListsCatchUp
