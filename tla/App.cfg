\* One tab over the pages, with few clicks, failures and expiries.
SPECIFICATION Spec
CONSTANTS
    None = None
    Bad = Bad
    boss = boss
    ann = ann
    bob = bob
    cat = cat
    altis = altis
    RecIds = {1, 2, 3}
    SteamIds = {boss, ann, bob, cat}
    Admins = {boss}
    MapIds = {altis}
    Texts <- PastedText
    Unmatched = {bob, 2, altis}
    MaxTokens = 2
    MaxNet = 2
    Visits <- SomeVisits
INVARIANTS TypeOK RowsAccounted SelectionListed OneUpload
PROPERTIES BusyEnds SettlesDown
CHECK_DEADLOCK FALSE
