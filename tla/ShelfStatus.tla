----------------------------- MODULE ShelfStatus -----------------------------
(***************************************************************************)
(* How the screens classify one shelf: the guest's menu, the alert screen  *)
(* of the stock room, the owner's stock table.                             *)
(*                                                                         *)
(*   apps/api/app/services/conversion_engine.py   _stock_status            *)
(*   apps/api/app/services/inventory_service.py   threshold_status and the *)
(*                                                rules of a threshold     *)
(*   apps/api/app/routers/owner_analytics.py      get_stock_status         *)
(*   scripts/reconcile_inventory.py               audit_thresholds         *)
(***************************************************************************)
EXTENDS Integers

CONSTANT NotSet   \* the NULL of a threshold nobody configured

\* A reorder level of zero counts as none. The half of a level rounds nothing:
\* the comparison is doubled.
UpToHalfAbove(reorder, available) == reorder > 0 /\ 2 * available <= 3 * reorder

StockStatus(available, reorder) ==
    CASE available <= 0 -> "out_of_stock"
      [] available > 0 /\ UpToHalfAbove(reorder, available) -> "low_stock"
      [] OTHER -> "in_stock"

Severity(available, reorder) ==
    CASE available <= 0 -> "critical"
      [] available > 0 /\ reorder > 0 /\ available <= reorder -> "warning"
      [] available > reorder /\ UpToHalfAbove(reorder, available) -> "low"
      [] OTHER -> "ok"

-----------------------------------------------------------------------------
(* Thresholds: critical, minimum and target, each of them possibly not set *)

AtMost(a, b) == a = NotSet \/ b = NotSet \/ a <= b

Coherent(t) ==
    /\ \A level \in {t.critical, t.minimum, t.target} : AtMost(0, level)
    /\ AtMost(t.critical, t.minimum)
    /\ AtMost(t.minimum, t.target)
    /\ AtMost(t.critical, t.target)

\* What the nightly audit would report of the thresholds of a row.
ThresholdIssues(t) ==
    {level \in {"critical", "minimum", "target"} : t[level] # NotSet /\ t[level] < 0}
        \cup {pair \in {<<"critical", "minimum">>, <<"minimum", "target">>, <<"critical", "target">>} :
                 NotSet \notin {t[pair[1]], t[pair[2]]} /\ t[pair[1]] > t[pair[2]]}

Reached(available, level) == level # NotSet /\ available <= level

\* A mutant: promised stock counts as stock.
StatusOfTheShelf(onHand, reserved, t) ==
    CASE onHand < reserved -> "BELOW_RESERVED"
      [] onHand >= reserved /\ onHand <= 0 -> "OUT_OF_STOCK"
      [] onHand > 0 /\ t.critical = NotSet /\ t.minimum = NotSet -> "NOT_CONFIGURED"
      [] onHand > 0 /\ Reached(onHand, t.critical) -> "CRITICAL"
      [] OTHER -> IF Reached(onHand, t.minimum) THEN "LOW" ELSE "HEALTHY"

ThresholdStatus(onHand, reserved, t) ==
    LET available == onHand - reserved IN
    CASE available < 0 -> "BELOW_RESERVED"
      [] available = 0 -> "OUT_OF_STOCK"
      [] available > 0 /\ t.critical = NotSet /\ t.minimum = NotSet -> "NOT_CONFIGURED"
      [] available > 0 /\ Reached(available, t.critical) -> "CRITICAL"
      [] available > 0 /\ ~Reached(available, t.critical) /\ Reached(available, t.minimum) -> "LOW"
      [] OTHER -> "HEALTHY"

\* What would bring the shelf to its target; nothing is zero here.
RecommendedRestock(available, t) ==
    IF t.target = NotSet \/ available >= t.target THEN 0 ELSE t.target - available

=============================================================================
