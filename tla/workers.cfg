SPECIFICATION FairSpec
CONSTANTS
    m1 = m1
    m2 = m2
    u1 = u1
    u2 = u2
    w1 = w1
    w2 = w2
    h1 = h1
    Employee = {1, 2}
    User = {u1, u2}
    Email = {m1, m2}
    Worker = {w1, w2}
    Clerk = {h1}
    EmailOf <- OneAddress
    Rival <- Strangers
    Unnamed = {}
    NoUser = NoUser
    NoEmail = NoEmail
    NoEmployee = NoEmployee
    ScanLimit = 1
    MaxAttempts = 2
    Mixes <- AllMixes
CHECK_DEADLOCK FALSE
INVARIANTS TypeOK LinkedIsProvisioned SharedUserIsKin DoneIsEncrypted
PROPERTIES CandidateServed
