SPECIFICATION Spec
CONSTANTS
    o1 = o1
    o2 = o2
    a1 = a1
    a2 = a2
    k1 = k1
    k2 = k2
    c1 = c1
    c2 = c2
    Orders = {o1}
    Admins = {a1}
    Crons = {k1}
    Calls = {c1}
    MaxFailures = 0
INVARIANT TelegramInSync
CHECK_DEADLOCK FALSE
