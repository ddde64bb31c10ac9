SPECIFICATION RacesSpec
CONSTANTS
    p1 = p1
    p2 = p2
    a1 = a1
    a2 = a2
    e1 = e1
    e2 = e2
    k1 = k1
    k2 = k2
    s1 = s1
    s2 = s2
    Payroll = {p1, p2}
    Slot = {k1, k2}
    Employee = {e1}
    Action = {a1}
    Session = {s1, s2}
    Cron = Cron
    NoPayroll = NoPayroll
    NoAction = NoAction
    NoRow = NoRow
    Owner <- OwnerE1
    Period <- PeriodK1
    Late = {}
    Unfit = {}
    SocialCharges = TRUE
    Requests <- AllPlans
    MaxVersion = 8
    MaxFaults = 0
CHECK_DEADLOCK FALSE
SYMMETRY Symmetry
INVARIANTS OneOperationalInRaces InactivesHoldNothing PaidAtMostOnce
PROPERTIES AppliedOnlyThroughCAS
