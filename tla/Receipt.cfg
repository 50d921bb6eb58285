SPECIFICATION ReceiptSpec
CONSTANTS
    w1 = w1
    w2 = w2
    key1 = key1
    key2 = key2
    ip1 = ip1
    p1 = p1
    NoKey = NoKey
    NoIp = NoIp
    PhoneIp = NoIp
    Workers = {w1, w2}
    Keys = {key1, key2}
    Ips = {}
    Products = {p1}
    MaxTable = 2
    RateMax = 3
    TableMax = 1
    IpTableMax = 3
    MaxRows = 2
    MaxFailures = 1
    MaxWishes = 2
    MaxTries = 2
SYMMETRY Peers
INVARIANTS
    StoreTypeOK
    RecordedOnceUnlessKeyDropped
    KeyMeansOneOrder
    ReceiptTells
CHECK_DEADLOCK FALSE
