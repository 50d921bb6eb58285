SPECIFICATION Spec
CONSTANTS
    w1 = w1
    w2 = w2
    key1 = key1
    ip1 = ip1
    ip2 = ip2
    p1 = p1
    NoKey = NoKey
    NoIp = NoIp
    Workers = {w1}
    Keys = {}
    Ips = {ip1, ip2}
    Products = {p1}
    MaxTable = 1
    RateMax = 10
    TableMax = 10
    IpTableMax = 3
    MaxRows = 4
    MaxFailures = 0
INVARIANT ThreePendingPerTable
CHECK_DEADLOCK FALSE
