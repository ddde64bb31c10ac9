SPECIFICATION Spec
CONSTANTS
    u1 = u1
    u2 = u2
    u3 = u3
    h1 = h1
    h2 = h2
    b1 = b1
    b2 = b2
    k1 = k1
    k2 = k2
    User = {u1, u2, u3}
    Clerk = {h1, h2}
    Browser = {b1, b2}
    Call = {k1, k2}
    NoUser = NoUser
    MaxAttempts = 3
    MaxWrong = 10
    MaxLocks = 5
    MaxSession = 4
    MaxExpiries = 2
    Mixes <- OnePage
CHECK_DEADLOCK FALSE
INVARIANT LogoutRevokes
