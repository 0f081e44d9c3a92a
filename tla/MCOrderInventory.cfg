SPECIFICATION Spec
CONSTANTS
    Stores = {s1, s2}
    Ingredients = {flour}
    Orders = {o1, o2}
    Items = {t1, t2}
    Needs = {0, 1, 2}
    Quantities = {0, 1, 2}
    Capacity = 4
    NoStore = NoStore
    NotSet = NotSet
    Levels = {1, 2}
    Reorders = {0, 1}
SYMMETRY Symmetry
INVARIANTS
    TypeOK
    ReservationsMatchLines
    NeverOverPromised
    StockMatchesLedger
    LinesFollowStatus
    AcceptedOrderCanBeCooked
    ScreensAgree
PROPERTIES
    LineSettlesOnce
    BranchIsolation
