SPECIFICATION TxSpec
CONSTANTS
    Stores = {1, 2}
    Ingredients = {1}
    Orders = {o1}
    Items = {t1}
    Needs = {0, 1}
    Quantities = {1}
    Capacity = 2
    NoStore = NoStore
    Requests = {r1, r2, r3}
    Keys = {k1}
    NoRequest = NoRequest
    Ladders = {}
    NoLadder = NoLadder
    MaxCalls = 4
CHECK_DEADLOCK FALSE
SYMMETRY Symmetry
INVARIANTS
    NoWaitCycle
PROPERTIES
    CallsAreAtomic
