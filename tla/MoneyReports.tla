----------------------------- MODULE MoneyReports ----------------------------
(***************************************************************************)
(* What is read off the money of a branch: the till's bills, the owner's   *)
(* payment summary and dashboard, the nightly reconciliations. Nothing     *)
(* here writes. A day is as long as a behaviour, and there is one branch.  *)
(*                                                                         *)
(*   apps/api/app/services/cashier_query_service.py         bills          *)
(*   apps/api/app/services/payment_analytics_service.py     summary        *)
(*   apps/api/app/services/operational_dashboard_service.py dashboard      *)
(*   scripts/reconcile_payments.py, reconcile_order_issues.py              *)
(***************************************************************************)
EXTENDS OrderMoney

With(statuses) == {o \in Orders : status[o] \in statuses}
NotCancelled == With(Statuses \ {"CANCELLED"})

-----------------------------------------------------------------------------
(* The till *)

BillLine(o) == [total |-> bill[o].total, net |-> NetPaid(o), remaining |-> Outstanding(o),
                payable |-> status[o] # "CANCELLED" /\ Outstanding(o) > 0]

Sum(field, O) == Total([o \in Orders |-> BillLine(o)[field]], O)

Bills(O) == [gross |-> Sum("total", O), paid |-> Sum("net", O), remaining |-> Sum("remaining", O)]

\* The orders of one table: its bill has every order that was not cancelled, the
\* list of open tables counts those with a balance.
TableBill(O) == Bills(O \cap NotCancelled)
OpenTable(O) == Bills({o \in O \cap NotCancelled : Outstanding(o) > 0})

-----------------------------------------------------------------------------
(* The owner *)

Collected == Total(allocated, Allocations)
Refunded  == Total(given, Allocations \X Sources)

\* A mutant: cancelled orders count as ordered.
SummaryOfAll ==
    LET gross == Total([o \in Orders |-> bill[o].total], Orders)
        net   == Collected - Refunded
    IN  [gross |-> gross, net |-> net, outstanding |-> gross - net]

PaymentSummary ==
    LET gross == Total([o \in Orders |-> bill[o].total], NotCancelled)
        net   == Collected - Refunded
    IN  [gross |-> gross, net |-> net, outstanding |-> gross - net]

OrdersBlock(active) == [active    |-> Cardinality(active),
                        completed |-> Cardinality(With({"DELIVERED"})),
                        cancelled |-> Cardinality(With({"CANCELLED"}))]

PaymentsBlock ==
    [net    |-> Collected - Refunded,
     unpaid |-> Cardinality({o \in NotCancelled : bill[o].paymentStatus \in {"UNPAID", "PARTIALLY_PAID"}})]

IssuesBlock ==
    LET decided == {i \in Issues : issue[i].status = "RESOLVED"}
        refunding == {i \in decided : issue[i].resolution \in {"FULL_REFUND", "PARTIAL_REFUND"}}
    IN  [open     |-> Cardinality({i \in Issues : issue[i].status = "OPEN"}),
         resolved |-> Cardinality(decided),
         refund   |-> Total([i \in Issues |-> issue[i].approved], refunding)]

-----------------------------------------------------------------------------
(* Reconciliation *)

OrderMismatches == {o \in Orders : bill[o].paid # PaidOf(o) \/ bill[o].refunded # RefundedOf(o)}

RefundOverruns == {o \in Orders : RefundedOf(o) > bill[o].paid}

IssueProblems(i) ==
    LET linked == {a \in Allocations : given[<<a, i>>] > 0}
        refunding == /\ issue[i].status = "RESOLVED"
                     /\ issue[i].resolution \in {"FULL_REFUND", "PARTIAL_REFUND"}
                     /\ issue[i].approved > 0
        Problem(condition, name) == IF condition THEN {name} ELSE {}
    IN  Problem(\E a \in linked : a[2] # issue[i].order, "refund_context_mismatch")
            \cup Problem(refunding /\ GivenFor(i) > issue[i].approved, "refund_amount_over")
            \cup Problem(refunding /\ GivenFor(i) < issue[i].approved, "refund_amount_under")
            \cup Problem(~refunding /\ linked # {}, "unexpected_refund_link")

-----------------------------------------------------------------------------
(* Properties *)

\* What is owed is one figure, however it is computed: the owner's summary takes
\* the ledger from the orders' totals, cancelled orders left out of one and not of
\* the other, and arrives at the sum of the balances on the tables; the dashboard
\* counts, by the status column, the orders the till can take money for. What was
\* given back is what the issues approved and what the till gave by itself. Every
\* order is on one card. The reconciliations have nothing to report.
ReportsAgree ==
    /\ SummaryTellsTruth
    /\ PaymentSummary.outstanding = TableBill(Orders).remaining
    /\ PaymentSummary.net = PaymentsBlock.net
    /\ PaymentsBlock.unpaid = Cardinality({o \in NotCancelled : BillLine(o).payable})
    /\ \A O \in SUBSET Orders :
          /\ OpenTable(O).remaining = TableBill(O).remaining
          /\ TableBill(O).remaining = TableBill(O).gross - TableBill(O).paid
    /\ Refunded = IssuesBlock.refund + Total([a \in Allocations |-> given[<<a, Till>>]], Allocations)
    /\ IssuesBlock.open + IssuesBlock.resolved = Cardinality({i \in Issues : issue[i].order # NoOrder})
    /\ LET card == OrdersBlock(With({"NEW", "IN_PREP", "READY"})) IN
          card.active + card.completed + card.cancelled = Cardinality(With(Statuses))
    /\ OrderMismatches \cup RefundOverruns = {}
    /\ \A i \in Issues : IssueProblems(i) = {}

=============================================================================
