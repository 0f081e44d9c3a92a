SPECIFICATION MoneySpec
CONSTANTS
    Orders = {o1, o2}
    Settlements = {1, 2}
    Issues = {i1, i2}
    Totals = {2}
    Amounts = {1}
    Capacity = 4
    Till = Till
    NoOrder = NoOrder
CHECK_DEADLOCK FALSE
SYMMETRY Symmetry
INVARIANTS
    BillsMatchLedger
    NeverOverpaid
    ReportsAgree
    CancelledHoldsNoMoney
    IssuesMatchRefunds
PROPERTIES
    ClosedBooksStayClosed
