----------------------------- MODULE StockReports ----------------------------
(***************************************************************************)
(* What is read off the stock of a branch, and by whom: the stock room's   *)
(* alerts, the owner's dashboard and stock table, the guest's menu and the *)
(* nightly reconciliation. Nothing here writes.                            *)
(*                                                                         *)
(*   apps/api/app/routers/inventory.py                      alerts         *)
(*   apps/api/app/services/operational_dashboard_service.py inventory      *)
(*   apps/api/app/routers/owner_analytics.py                stock status   *)
(*   apps/api/app/services/inventory_guard.py               ungated menu   *)
(*   scripts/reconcile_inventory.py                         reconciliation *)
(***************************************************************************)
EXTENDS OrderInventory, ShelfStatus

CONSTANTS
    Levels,      \* what one threshold of a shelf may be
    Reorders     \* reorder levels of a shelf

ASSUME LevelsAreQuantities == Levels \subseteq 0..Capacity /\ NotSet \notin Int
ASSUME ReordersAreFigures  == Reorders \subseteq Int
ASSUME StoresAreFinite     == IsFiniteSet(Stores)
ASSUME SomethingFits       == Capacity > 0

ThresholdRows == [{"critical", "minimum", "target"} -> Levels \cup {NotSet, -1}]
SavedThresholds == {t \in ThresholdRows : Coherent(t)}

-----------------------------------------------------------------------------
(* The stock room and the owner *)

\* One row per ingredient that the branch stocks, configured or not.
Carried(s) == {i \in Ingredients : <<s, i>> \in stocked}

Alerts(s, t) ==
    [i \in Carried(s) |-> ThresholdStatus(stock[<<s, i>>].onHand, stock[<<s, i>>].reserved, t[i])]

\* The cards count every row, whatever the filter of the list is.
Count(alerts, s) == Cardinality({i \in DOMAIN alerts : alerts[i] = s})
Listed(alerts, filter) == {i \in DOMAIN alerts : filter \in {"all", alerts[i]}}

InventoryBlock(s, t) ==
    [kind \in {"BELOW_RESERVED", "OUT_OF_STOCK", "CRITICAL", "LOW", "HEALTHY", "NOT_CONFIGURED"} |->
        Count(Alerts(s, t), kind)]

Attention(block) ==
    (IF block["OUT_OF_STOCK"] + block["BELOW_RESERVED"] > 0 THEN {"OUT_OF_STOCK"} ELSE {})
        \cup (IF block["CRITICAL"] > 0 THEN {"CRITICAL_STOCK"} ELSE {})

StockTable(s, reorder) == [i \in Carried(s) |-> Severity(Available(s, i), reorder)]

\* What the branch does not stock is out of stock, never another branch's.
MenuStatus(s, i, reorder) ==
    IF i \in Carried(s) THEN StockStatus(Available(s, i), reorder) ELSE "out_of_stock"

\* The branch that a menu without a table is about, if that has one answer.
StockedStores == {k[1] : k \in stocked}

UngatedStores ==
    CASE Cardinality(StockedStores) = 1 -> StockedStores
      [] StockedStores = {} /\ Cardinality(Stores) = 1 -> Stores
      [] OTHER -> {}

-----------------------------------------------------------------------------
(* Reconciliation: the summary against the ledger and the order lines *)

OnHandDrift(k) == stock[k].onHand - (ledger[k].moved - ledger[k].consumed)
ReservedDrift(k) == stock[k].reserved - Total(OutstandingOf, ShelfLines(k[1], k[2]))

Mismatches == {k \in stocked : OnHandDrift(k) # 0 \/ ReservedDrift(k) # 0}

-----------------------------------------------------------------------------
(* Properties *)

\* However orders, cancellations, counts and shipments come between, nobody is
\* told two stories about a shelf. The alert screen, the owner's table and the
\* dashboard call it empty when and only when the menu stops offering it, and
\* then the checkout refuses it; what the menu still offers can be ordered. A
\* level that is reached is on a screen, and buying what is recommended clears it
\* unless minimum and target are the same level. Nothing is ever BELOW_RESERVED,
\* the reconciliation finds nothing to report, and its audit of the thresholds
\* reports what the save of a threshold refuses.
OneStory(s, i, t, reorder) ==
    LET shown == Alerts(s, [j \in Carried(s) |-> t])[i]
        restocked == stock[<<s, i>>].onHand + RecommendedRestock(Available(s, i), t)
        empty == MenuStatus(s, i, reorder) = "out_of_stock"
    IN  /\ shown # "BELOW_RESERVED"
        /\ empty <=> shown = "OUT_OF_STOCK"
        /\ empty <=> StockTable(s, reorder)[i] = "critical"
        /\ StockTable(s, reorder)[i] \in {"warning", "low"} <=> MenuStatus(s, i, reorder) = "low_stock"
        /\ Reached(Available(s, i), t.critical) => shown \in {"OUT_OF_STOCK", "CRITICAL"}
        /\ Reached(Available(s, i), t.minimum) => shown \in {"OUT_OF_STOCK", "CRITICAL", "LOW"}
        /\ t.target # NotSet /\ ~Reached(t.target, t.minimum) /\ ~Reached(t.target, t.critical) /\ t.target > 0 =>
              ThresholdStatus(restocked, stock[<<s, i>>].reserved, t) \in {"HEALTHY", "NOT_CONFIGURED"}

\* The cards of a dashboard together.
AllCounted(block) ==
    block["BELOW_RESERVED"] + block["OUT_OF_STOCK"] + block["CRITICAL"]
        + block["LOW"] + block["HEALTHY"] + block["NOT_CONFIGURED"]

ScreensAgree ==
    /\ Mismatches = {}
    /\ \A t \in ThresholdRows : Coherent(t) <=> ThresholdIssues(t) = {}
    /\ \A s \in UngatedStores : stocked \subseteq {s} \X Ingredients
    /\ \A s \in Stores, i \in Ingredients, reorder \in Reorders :
          /\ i \in Carried(s) => \A t \in SavedThresholds : OneStory(s, i, t, reorder)
          /\ \A o \in Orders : \A l \in OrderLines(o) : l[3] = i =>
                LET one == [m \in OrderLines(o) |-> IF m = l THEN 1 ELSE 0] IN
                MenuStatus(s, i, reorder) = "out_of_stock" <=> ~Satisfiable(one, o, s)
    /\ \A s \in Stores, t \in SavedThresholds :
          LET alerts == Alerts(s, [i \in Carried(s) |-> t])
              block  == InventoryBlock(s, [i \in Carried(s) |-> t]) IN
          /\ AllCounted(block) = Cardinality(Listed(alerts, "all"))
          /\ "OUT_OF_STOCK" \in Attention(block) <=> Listed(alerts, "OUT_OF_STOCK") # {}

=============================================================================
