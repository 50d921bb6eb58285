SPECIFICATION Spec
CONSTANTS
    w1 = w1
    w2 = w2
    key1 = key1
    ip1 = ip1
    ip2 = ip2
    p1 = p1
    NoKey = NoKey
    NoIp = NoIp
    Workers = {w1, w2}
    Keys = {key1}
    Ips = {ip1}
    Products = {p1}
    MaxTable = 1
    RateMax = 1
    TableMax = 1
    IpTableMax = 1
    MaxRows = 3
    MaxFailures = 0
SYMMETRY Peers
INVARIANTS
    TypeOK
    LimitsHold
    RetryGetsItsOrder
    OneRowPerKey
CHECK_DEADLOCK FALSE
