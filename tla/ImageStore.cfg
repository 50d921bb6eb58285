SPECIFICATION Spec
CONSTANTS
    r1 = r1
    r2 = r2
    logo = logo
    f1 = f1
    f2 = f2
    f3 = f3
    h1 = h1
    h2 = h2
    p1 = p1
    None = None
    NewRow = NewRow
    Rows = {r1, r2}
    Site = {logo}
    Files = {f1, f2, f3}
    Drafts = {r1}
    OwnNames <- Own
    Handlers = {h1, h2}
    Panels = {p1}
    MaxRequests = 2
    MaxFaults = 1
SYMMETRY Peers
INVARIANTS
    TypeOK
    NoDeadImage
PROPERTY
    CollectsWhatItReplaces
CHECK_DEADLOCK FALSE
