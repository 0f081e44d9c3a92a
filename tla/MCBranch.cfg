SPECIFICATION TxSpec
CONSTANTS
    Stores = {1}
    Ingredients = {1, 2}
    Orders = {o1, o2}
    Items = {t1}
    Needs = {0, 1}
    Quantities = {1}
    Capacity = 2
    NoStore = NoStore
    Requests = {r1, r2}
    Keys = {k1, k2}
    NoRequest = NoRequest
    Ladders = {low, high}
    NoLadder = NoLadder
    MaxCalls = 4
CHECK_DEADLOCK FALSE
SYMMETRY Symmetry
INVARIANTS
    CommitsAreSound
    NoWaitCycle
PROPERTIES
    CallsAreAtomic
