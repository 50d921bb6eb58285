SPECIFICATION FairSpec
CONSTANTS
    o1 = o1
    o2 = o2
    a1 = a1
    a2 = a2
    k1 = k1
    k2 = k2
    c1 = c1
    c2 = c2
    Orders = {o1}
    Admins = {a1, a2}
    Crons = {k1, k2}
    Calls = {}
    MaxFailures = 1
PROPERTY RetriesSettle
CHECK_DEADLOCK FALSE
