SPECIFICATION Spec
CONSTANTS
    h1 = h1
    h2 = h2
    c1 = c1
    NoChat = NoChat
    Chats = {c1}
    Handlers = {h1, h2}
    Pressed = {"bulk_percent", "new_product_name", "new_category_label", "edit_price", "edit_site_cover"}
    MaxDialogues = 2
    MaxIds = 2
    MaxFaults = 1
SYMMETRY Peers
INVARIANTS
    TypeOK
    OneRowUnlessOverlapped
    EndedStaysEnded
PROPERTY
    ForwardOnly
CHECK_DEADLOCK FALSE
