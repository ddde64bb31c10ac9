SPECIFICATION FairSpec
CONSTANTS
    e1 = e1
    c1 = c1
    c2 = c2
    n1 = n1
    n2 = n2
    a1 = a1
    a2 = a2
    t1 = t1
    t2 = t2
    v1 = v1
    v2 = v2
    s1 = s1
    s2 = s2
    Employee = {e1}
    Company = {c1, c2}
    Payroll = {n1, n2}
    Action = {a1, a2}
    Transfer = {t1}
    Runner = {v1, v2}
    Session = {s1, s2}
    CompanyOf <- EachCompany
    Crossing = {a2}
    NoPayroll = NoPayroll
    NoCompany = NoCompany
    NoEmployee = NoEmployee
    NoAction = NoAction
    NoTransfer = NoTransfer
    InitialDays = 1
    LastHire = 0
    LastDay = 4
    MaxFaults = 1
    Mixes <- AllMixes
CHECK_DEADLOCK FALSE
INVARIANTS TypeOK NoMovementTwice TransfersBalance
PROPERTIES ProvisionCatchesUp
