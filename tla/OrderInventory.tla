--------------------------- MODULE OrderInventory ---------------------------
(***************************************************************************)
(* Orders and the store-scoped stock they are made from, at the grain of   *)
(* committed transactions.                                                 *)
(*                                                                         *)
(*   apps/api/app/services/order_service.py      create_order              *)
(*   apps/api/app/services/kitchen_service.py    update_order_status       *)
(*   apps/api/app/services/inventory_service.py  reserve / consume /       *)
(*       release, the manual movements, transfer_stock, record_stock_count *)
(*                                                                         *)
(* Every service call takes its row locks, decides and commits once, so    *)
(* one action is one committed call; InventoryTransactions.tla models the  *)
(* locks and shows that the calls really behave like these actions.        *)
(* Refused calls roll back and leave no trace, so they are not steps.      *)
(*                                                                         *)
(* The CHECK constraints of ingredient_stock and order_inventory_lines are *)
(* left out of the guards on purpose: the invariants then say that the     *)
(* services' own gates keep the tables legal and that no call ever dies on *)
(* a constraint.                                                           *)
(***************************************************************************)
EXTENDS BoundedSums

CONSTANTS
    Stores,        \* branches
    Ingredients,   \* catalog ingredients, shared by every branch
    Orders,        \* order ids
    Items,         \* positions of an order's items
    Needs,         \* what one line may require, in units of 0.001
    Quantities,    \* what one manual movement, count or transfer may name
    NoStore        \* the store of an order that does not exist yet

ASSUME FiniteIds      == /\ IsFiniteSet(Orders)
                         /\ IsFiniteSet(Items)
                         /\ IsFiniteSet(Ingredients)
ASSUME NeedsFit       == Needs \subseteq 0..Capacity
ASSUME QuantitiesFit  == Quantities \subseteq 0..Capacity
ASSUME NoStoreIsNone  == NoStore \notin Stores

VARIABLES
    status,    \* orders.status, "ABSENT" before the order is created
    storeOf,   \* orders.store_id
    line,      \* order_inventory_lines, one per (order, item, ingredient)
    stocked,   \* the (store, ingredient) pairs that have a stock row
    stock,     \* ingredient_stock: the summary row
    ledger     \* ingredient_stock_movements, summed per (store, ingredient)

vars == <<status, storeOf, line, stocked, stock, ledger>>

Statuses == {"NEW", "IN_PREP", "READY", "DELIVERED", "CANCELLED"}
Shelves  == Stores \X Ingredients
Lines    == Orders \X Items \X Ingredients

LineRow == [reserved : 0..Capacity, consumed : 0..Capacity, released : 0..Capacity]
EmptyLine == [reserved |-> 0, consumed |-> 0, released |-> 0]

StockRow == [onHand : Int, reserved : Int]

\* moved sums the on-hand deltas of receipts, adjustments, waste, transfers and
\* counts; consumed sums CONSUMPTION; reserved sums quantity_delta_reserved.
LedgerSums == [moved : Int, consumed : Int, reserved : Int]

-----------------------------------------------------------------------------
(* Quantities *)

LinesOf(o, i)  == {l \in Lines : l[1] = o /\ l[3] = i}
OrderLines(o)  == {l \in Lines : l[1] = o}

\* Every line that claims stock from one shelf.
ShelfLines(s, i) == {l \in Lines : storeOf[l[1]] = s /\ l[3] = i}

Outstanding(l) == line[l].reserved - line[l].consumed - line[l].released
OutstandingOf  == [l \in Lines |-> Outstanding(l)]
ConsumedOf     == [l \in Lines |-> line[l].consumed]

Available(s, i) == stock[<<s, i>>].onHand - stock[<<s, i>>].reserved

\* What order o still has to draw from its store's shelf of ingredient i.
Owed(o, i) == Total(OutstandingOf, LinesOf(o, i))

-----------------------------------------------------------------------------
(* Order lifecycle *)

\* need gives the quantity of every line of the order: standard quantity times
\* portions times pieces, already merged per (item, ingredient); zero where the
\* item does not use the ingredient, and then no line is written.
Required(need, o, i) == Total(need, LinesOf(o, i))

Satisfiable(need, o, s) ==
    \A i \in Ingredients :
        Required(need, o, i) > 0 =>
            <<s, i>> \in stocked /\ Available(s, i) >= Required(need, o, i)

ReservedRow(row, q) == [row EXCEPT !.reserved = @ + q]
ConsumedRow(row, q) == [onHand |-> row.onHand - q, reserved |-> row.reserved - q]
ReleasedRow(row, q) == [row EXCEPT !.reserved = @ - q]

\* The movements the ledger gains: RESERVATION_CREATED, CONSUMPTION,
\* RESERVATION_RELEASED.
PostReserved(sums, q) == [sums EXCEPT !.reserved = @ + q]
\* Mutant: cooking is booked as if the reservation had merely been given back.
PostAsReleased(sums, q) == [sums EXCEPT !.reserved = @ - q]

PostConsumed(sums, q) ==
    [moved |-> sums.moved, consumed |-> sums.consumed + q, reserved |-> sums.reserved - q]
PostReleased(sums, q) == [sums EXCEPT !.reserved = @ - q]

NewLine(q) == [reserved |-> q, consumed |-> 0, released |-> 0]

CreateOrder(o, s, need) ==
    /\ status[o] = "ABSENT"
    /\ \E l \in OrderLines(o) : need[l] > 0
    /\ Satisfiable(need, o, s)
    /\ status' = [status EXCEPT ![o] = "NEW"]
    /\ storeOf' = [storeOf EXCEPT ![o] = s]
    /\ line' = [l \in Lines |->
                  IF l[1] = o THEN NewLine(need[l]) ELSE line[l]]
    /\ stock' = [k \in Shelves |->
                  IF k[1] = s THEN ReservedRow(stock[k], Required(need, o, k[2])) ELSE stock[k]]
    /\ ledger' = [k \in Shelves |->
                  IF k[1] = s THEN PostReserved(ledger[k], Required(need, o, k[2])) ELSE ledger[k]]
    /\ UNCHANGED stocked

\* Mutants: the whole line is settled, whatever was settled before.
ConsumedAgain(l) == [line[l] EXCEPT !.consumed = @ + line[l].reserved]
ReleasedWhole(l) == [line[l] EXCEPT !.released = line[l].reserved]

\* A line after consume_order, and after release_order_reservation.
ConsumedLine(l) == [line[l] EXCEPT !.consumed = @ + Outstanding(l)]
ReleasedLine(l) == [line[l] EXCEPT !.released = @ + Outstanding(l)]

\* Mutant: the stock rows are not filtered by the order's branch.
ConsumeOrderAnywhere(o) ==
    /\ line' = [l \in Lines |-> IF l[1] = o THEN ConsumedLine(l) ELSE line[l]]
    /\ stock' = [k \in Shelves |-> ConsumedRow(stock[k], Owed(o, k[2]))]
    /\ ledger' = [k \in Shelves |-> PostConsumed(ledger[k], Owed(o, k[2]))]

\* The whole outstanding reservation becomes consumption; nothing is left for a
\* second call, which is then a no-op.
ConsumeOrder(o) ==
    LET s == storeOf[o] IN
    /\ line' = [l \in Lines |-> IF l[1] = o THEN ConsumedLine(l) ELSE line[l]]
    /\ stock' = [k \in Shelves |->
                  IF k[1] = s THEN ConsumedRow(stock[k], Owed(o, k[2])) ELSE stock[k]]
    /\ ledger' = [k \in Shelves |->
                  IF k[1] = s THEN PostConsumed(ledger[k], Owed(o, k[2])) ELSE ledger[k]]

\* Mutant: the lines are settled and the stock row keeps its promise.
ReleaseLinesOnly(o) ==
    /\ line' = [l \in Lines |-> IF l[1] = o THEN ReleasedLine(l) ELSE line[l]]
    /\ UNCHANGED <<stock, ledger>>

ReleaseReservation(o) ==
    LET s == storeOf[o] IN
    /\ line' = [l \in Lines |-> IF l[1] = o THEN ReleasedLine(l) ELSE line[l]]
    /\ stock' = [k \in Shelves |->
                  IF k[1] = s THEN ReleasedRow(stock[k], Owed(o, k[2])) ELSE stock[k]]
    /\ ledger' = [k \in Shelves |->
                  IF k[1] = s THEN PostReleased(ledger[k], Owed(o, k[2])) ELSE ledger[k]]

MoveTo(o, from, to) ==
    /\ status[o] = from
    /\ status' = [status EXCEPT ![o] = to]

StartPrep(o) ==
    /\ MoveTo(o, "NEW", "IN_PREP")
    /\ ConsumeOrder(o)
    /\ UNCHANGED <<storeOf, stocked>>

MarkReady(o) ==
    /\ MoveTo(o, "IN_PREP", "READY")
    /\ UNCHANGED <<storeOf, line, stocked, stock, ledger>>

Deliver(o) ==
    /\ MoveTo(o, "READY", "DELIVERED")
    /\ UNCHANGED <<storeOf, line, stocked, stock, ledger>>

\* The payment guard of a cancellation belongs to the money model; here a
\* cancellation may be refused at any time by simply not happening.
Cancel(o) ==
    /\ \E from \in {"NEW", "IN_PREP"} : MoveTo(o, from, "CANCELLED")
    /\ ReleaseReservation(o)
    /\ UNCHANGED <<storeOf, stocked>>

\* resolve_issue with FULL_REFUND, or with CANCEL_ONLY when nothing was paid, also
\* cancels the order, from any status, and releases what was never consumed.
CancelByIssue(o) ==
    /\ \E from \in Statuses \ {"CANCELLED"} : MoveTo(o, from, "CANCELLED")
    /\ ReleaseReservation(o)
    /\ UNCHANGED <<storeOf, stocked>>

\* Mutant: a cancellation can be undone as well.
UndoCancelToo(o) ==
    /\ \E from \in {"IN_PREP", "CANCELLED"} : MoveTo(o, from, "NEW")
    /\ UNCHANGED <<storeOf, line, stocked, stock, ledger>>

\* Undo within 60 seconds; the clock is not part of this module, so the undo may
\* come at any time. Undoing a start does not put the batter back.
UndoStart(o) ==
    /\ MoveTo(o, "IN_PREP", "NEW")
    /\ UNCHANGED <<storeOf, line, stocked, stock, ledger>>

UndoReady(o) ==
    /\ MoveTo(o, "READY", "IN_PREP")
    /\ UNCHANGED <<storeOf, line, stocked, stock, ledger>>

-----------------------------------------------------------------------------
(* The stock room *)

\* Mutant: stock may leave as long as some is there, promised or not.
MovementOfAnyStock(s, i, delta) ==
    /\ <<s, i>> \in stocked
    /\ stock[<<s, i>>].onHand + delta \in 0..Capacity

\* A movement of delta on one shelf: goods received (delta > 0), waste
\* (delta < 0), a signed manual adjustment. Reserved stock may not leave.
MovementAllowed(s, i, delta) ==
    /\ <<s, i>> \in stocked
    /\ stock[<<s, i>>].onHand + delta >= 0
    /\ stock[<<s, i>>].onHand + delta >= stock[<<s, i>>].reserved
    /\ stock[<<s, i>>].onHand + delta <= Capacity

MovedRow(row, delta)   == [onHand |-> row.onHand + delta, reserved |-> row.reserved]
PostMoved(sums, delta) == [sums EXCEPT !.moved = @ + delta]

ManualMovement(s, i, delta) ==
    /\ delta # 0
    /\ MovementAllowed(s, i, delta)
    /\ stock' = [stock EXCEPT ![<<s, i>>] = MovedRow(@, delta)]
    /\ ledger' = [ledger EXCEPT ![<<s, i>>] = PostMoved(@, delta)]
    /\ UNCHANGED <<status, storeOf, line, stocked>>

PurchaseReceipt(s, i, q)     == q > 0 /\ ManualMovement(s, i, q)
Waste(s, i, q)               == q > 0 /\ ManualMovement(s, i, -q)
ManualAdjustment(s, i, q)    == ManualMovement(s, i, q) \/ ManualMovement(s, i, -q)

\* A physical count sets on-hand to what was found, never below what is promised.
\* Nothing is booked when the shelf agrees with the system.
CountAllowed(s, i, counted) ==
    /\ <<s, i>> \in stocked
    /\ counted >= stock[<<s, i>>].reserved

StockCount(s, i, counted) ==
    /\ CountAllowed(s, i, counted)
    /\ LET delta == counted - stock[<<s, i>>].onHand IN
        /\ stock' = [stock EXCEPT ![<<s, i>>] = MovedRow(@, delta)]
        /\ ledger' = [ledger EXCEPT ![<<s, i>>] = PostMoved(@, delta)]
    /\ UNCHANGED <<status, storeOf, line, stocked>>

\* Mutant: a branch ships what is on its shelf.
TransferOfAnyStock(s, t, i, q) ==
    /\ s # t
    /\ q > 0
    /\ <<s, i>> \in stocked
    /\ stock[<<s, i>>].onHand >= q
    /\ stock[<<t, i>>].onHand + q <= Capacity

\* Only unreserved stock may be shipped. The destination's row is created at zero
\* when the branch never held the ingredient.
TransferAllowed(s, t, i, q) ==
    /\ s # t
    /\ q > 0
    /\ <<s, i>> \in stocked
    /\ Available(s, i) >= q
    /\ stock[<<t, i>>].onHand + q <= Capacity

TransferStock(s, t, i, q) ==
    /\ TransferAllowed(s, t, i, q)
    /\ stocked' = stocked \cup {<<t, i>>}
    /\ stock' = [stock EXCEPT ![<<s, i>>] = MovedRow(@, -q), ![<<t, i>>] = MovedRow(@, q)]
    /\ ledger' = [ledger EXCEPT ![<<s, i>>] = PostMoved(@, -q), ![<<t, i>>] = PostMoved(@, q)]
    /\ UNCHANGED <<status, storeOf, line>>

-----------------------------------------------------------------------------
(* The seed stocks the shelves of some branches; the opening balance counts
   as booked, as the migration that created the ledger books it. A shelf without
   a row is kept at zero. *)
Init ==
    /\ status = [o \in Orders |-> "ABSENT"]
    /\ storeOf = [o \in Orders |-> NoStore]
    /\ line = [l \in Lines |-> EmptyLine]
    /\ stocked \in (SUBSET Shelves) \ {{}}
    /\ stock \in [Shelves -> [onHand : Quantities \cup {0}, reserved : {0}]]
    /\ \A k \in Shelves \ stocked : stock[k].onHand = 0
    /\ ledger = [k \in Shelves |->
                    [moved |-> stock[k].onHand, consumed |-> 0, reserved |-> 0]]

Kitchen(o) ==
    \/ StartPrep(o)
    \/ MarkReady(o)
    \/ Deliver(o)
    \/ Cancel(o)
    \/ CancelByIssue(o)
    \/ UndoStart(o)
    \/ UndoReady(o)

StockRoom(s, i, q) ==
    \/ PurchaseReceipt(s, i, q)
    \/ Waste(s, i, q)
    \/ ManualAdjustment(s, i, q)
    \/ StockCount(s, i, q)
    \/ \E t \in Stores : TransferStock(s, t, i, q)

Next ==
    \/ \E o \in Orders, s \in Stores : \E need \in [OrderLines(o) -> Needs] :
            CreateOrder(o, s, need)
    \/ \E o \in Orders : Kitchen(o)
    \/ \E s \in Stores, i \in Ingredients, q \in Quantities : StockRoom(s, i, q)

Spec == Init /\ [][Next]_vars

-----------------------------------------------------------------------------
(* Properties *)

\* Every table holds what its columns may hold, and an order has a store exactly
\* once it exists.
TypeOK ==
    /\ status \in [Orders -> Statuses \cup {"ABSENT"}]
    /\ storeOf \in [Orders -> Stores \cup {NoStore}]
    /\ \A o \in Orders : storeOf[o] = NoStore <=> status[o] = "ABSENT"
    /\ line \in [Lines -> LineRow]
    /\ stocked \subseteq Shelves
    /\ stock \in [Shelves -> StockRow]
    /\ ledger \in [Shelves -> LedgerSums]

\* The reserved figure of a shelf is the sum of what its branch's orders still
\* have outstanding: no reservation leaks when an order is cooked, cancelled,
\* undone or refunded, and none is given back twice. This is check 3 of
\* scripts/reconcile_inventory.py.
ReservationsMatchLines ==
    \A k \in Shelves :
        stock[k].reserved = Total(OutstandingOf, ShelfLines(k[1], k[2]))

\* A branch never promises more than it physically has, whatever orders,
\* movements, counts and transfers come between: the constraints
\* ck_stock_reserved_le_on_hand and ck_stock_*_nonneg never have to fire.
NeverOverPromised ==
    \A k \in Shelves :
        /\ 0 <= stock[k].reserved
        /\ stock[k].reserved <= stock[k].onHand
        /\ stock[k].onHand <= Capacity
        /\ k \notin stocked => stock[k].onHand = 0

\* The summary row is a mirror of the append-only ledger, and the ledger's
\* consumption is exactly what the order lines say was cooked. These are checks 1
\* and 2 of scripts/reconcile_inventory.py.
StockMatchesLedger ==
    \A k \in Shelves :
        /\ stock[k].onHand = ledger[k].moved - ledger[k].consumed
        /\ stock[k].reserved = ledger[k].reserved
        /\ ledger[k].consumed = Total(ConsumedOf, ShelfLines(k[1], k[2]))

AllEmpty(o)    == \A l \in OrderLines(o) : line[l] = EmptyLine
AllPromised(o) == \A l \in OrderLines(o) : line[l].consumed = 0 /\ line[l].released = 0
AllConsumed(o) == \A l \in OrderLines(o) :
                      line[l].consumed = line[l].reserved /\ line[l].released = 0
AllReleased(o) == \A l \in OrderLines(o) :
                      line[l].released = line[l].reserved /\ line[l].consumed = 0

\* What happened to an order's ingredients follows its status, through every undo
\* and restart: a cooked order has poured all of them exactly once, a cancelled
\* one has poured all or given back all, and one that came back to NEW by an undo
\* stays poured.
LinesFollowStatus ==
    \A o \in Orders :
        /\ status[o] = "ABSENT" => AllEmpty(o)
        /\ status[o] = "NEW" => AllPromised(o) \/ AllConsumed(o)
        /\ status[o] \in {"IN_PREP", "READY"} => AllConsumed(o)
        /\ status[o] = "DELIVERED" => AllConsumed(o)
        /\ status[o] = "CANCELLED" => AllConsumed(o) \/ AllReleased(o)

\* Acceptance is a promise: whatever waste, counts, transfers and other orders do
\* meanwhile, the kitchen can always start an accepted order from the shelf of its
\* own branch.
AcceptedOrderCanBeCooked ==
    \A o \in Orders, i \in Ingredients :
        status[o] = "NEW" /\ Owed(o, i) > 0 =>
            /\ <<storeOf[o], i>> \in stocked
            /\ Owed(o, i) <= stock[<<storeOf[o], i>>].onHand
            /\ Owed(o, i) <= stock[<<storeOf[o], i>>].reserved

\* A line's promise is fixed when the order is accepted and is settled once, whole,
\* and in one way: poured or given back. No later step touches it again.
LineSettlesOnce ==
    [][\A l \in Lines :
          status[l[1]] # "ABSENT" /\ line'[l] # line[l] =>
              /\ line[l].consumed = 0 /\ line[l].released = 0
              /\ line'[l].reserved = line[l].reserved
              /\ line'[l].consumed + line'[l].released = line[l].reserved
              /\ line'[l].consumed = 0 \/ line'[l].released = 0]_vars

\* What happens to an order moves stock in the order's own branch only.
BranchIsolation ==
    [][\A o \in Orders :
          status'[o] # status[o] =>
              \A k \in Shelves : k[1] # storeOf'[o] => stock'[k] = stock[k]]_vars

=============================================================================
