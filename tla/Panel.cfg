SPECIFICATION Spec
CONSTANTS
    t1 = t1
    t2 = t2
    s1 = s1
    s2 = s2
    None = None
    NoToken = NoToken
    Tokens = {t1, t2}
    Slots = {s1, s2}
    Life = 2
    MinTTL = 1
    Leaps = {2, 3}
    MaxTime = 6
    PageLimit = 1
    HeadLimit = 2
    Openings <- OneOrder
    MaxOrders = 4
    MaxEvents = 3
SYMMETRY Peers
INVARIANTS
    PanelTypeOK
    PollingGoesOn
    OneAtATime
    ListCatchesUp
    OrdersListed
PROPERTY
    LoggedOutStaysOut
CHECK_DEADLOCK FALSE
