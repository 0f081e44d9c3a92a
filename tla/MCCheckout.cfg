SPECIFICATION Spec
CONSTANTS
    Guests = {g1, g2}
    Carts = {a, b}
    Requests = {r1, r2, r3}
    MaxStock = 2
    None = None
    Refused = Refused
CHECK_DEADLOCK FALSE
SYMMETRY Symmetry
INVARIANTS
    OneOrderPerKey
    ReservedOncePerOrder
    AnswersNameTheOrder
