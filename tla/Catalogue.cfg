SPECIFICATION Spec
CONSTANTS
    p1 = p1
    c1 = c1
    c2 = c2
    h1 = h1
    h2 = h2
    a1 = a1
    b1 = b1
    i1 = i1
    i2 = i2
    g1 = g1
    g2 = g2
    NotYet = NotYet
    Gone = Gone
    None = None
    NoFetch = NoFetch
    Products = {p1}
    Categories = {c1, c2}
    Handlers = {h1, h2}
    Panels = {a1}
    Chats = {b1}
    Isolates = {i1, i2}
    Fetches = {g1, g2}
    Typed = {2}
    Discounts = {50}
    Percents <- OneHalf
    MaxPrice = 3
    TTL = 1
    MaxEvents = 3
SYMMETRY Peers
INVARIANTS
    CatalogueTypeOK
    NoOrphanProducts
    FreshWithinTTL
    ServesOwnWrites
PROPERTIES
    KeepsBase
    BulkAsPreviewed
CHECK_DEADLOCK FALSE
