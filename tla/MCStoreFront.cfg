SPECIFICATION FrontSpec
CONSTANTS
    Stores = {s1, s2}
    Tables = {t1, t2}
    Products = {p1}
    Calls = {c1, c2, c3, c4}
    MaxSort = 1
    Null = Null
CHECK_DEADLOCK FALSE
SYMMETRY Symmetry
INVARIANTS StickersAreSound SetupTellsTruth
PROPERTIES OldStickerOrdersNothing
