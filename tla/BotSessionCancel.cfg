SPECIFICATION Spec
CONSTANTS
    h1 = h1
    h2 = h2
    c1 = c1
    NoChat = NoChat
    Chats = {c1}
    Handlers = {h1, h2}
    Pressed = {"bulk_percent", "new_product_name", "new_category_label", "edit_price", "edit_site_cover"}
    MaxDialogues = 1
    MaxIds = 1
    MaxFaults = 0
SYMMETRY Peers
INVARIANT
    CancelEnds
CHECK_DEADLOCK FALSE
