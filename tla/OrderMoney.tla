---------------------------- MODULE OrderMoney ----------------------------
(***************************************************************************)
(* What an order owes, what was collected and given back for it, and the   *)
(* problems raised against it, at the grain of committed transactions.     *)
(*                                                                         *)
(*   apps/api/app/services/payment_service.py      collect_settlement,     *)
(*       collect_order_payment, refund_allocation, create_issue_refunds    *)
(*   apps/api/app/services/order_issue_service.py  create_issue,           *)
(*       resolve_issue                                                     *)
(*   apps/api/app/services/kitchen_service.py      update_order_status     *)
(*                                                                         *)
(* Every one of these calls locks the rows of the orders it touches before *)
(* it reads a balance and commits once, so one action is one committed     *)
(* call. Refused calls roll back and are not steps.                        *)
(*                                                                         *)
(* The CHECK constraints of orders and the last-line overpayment guard of  *)
(* _do_collect are left out on purpose: the invariants say that the        *)
(* services' own gates are enough and neither ever has to fire.            *)
(***************************************************************************)
EXTENDS BoundedSums

CONSTANTS
    Orders,        \* order ids
    Settlements,   \* settlement ids, taken in ascending order
    Issues,        \* order issue ids
    Totals,        \* what an order may cost, in units of 0.01
    Amounts,       \* what a till or a supervisor may type in
    Till,          \* the source of a refund that no issue asked for
    NoOrder        \* the order of an issue that was not raised yet

ASSUME FiniteMoneyIds == IsFiniteSet(Orders) /\ IsFiniteSet(Issues) /\ IsFiniteSet(Settlements)
ASSUME SettlementIds  == Settlements \subseteq Nat
ASSUME TotalsFit      == Totals \subseteq 1..Capacity
ASSUME AmountsFit     == Amounts \subseteq 1..Capacity
ASSUME TillIsNoIssue  == Till \notin Issues
ASSUME NoOrderIsNone  == NoOrder \notin Orders

VARIABLES
    status,       \* orders.status, "ABSENT" before the order is created
    bill,         \* the money columns of orders: total and the ledger's mirror
    allocated,    \* payment_allocations: amount per (settlement, order), 0 if none
    given,        \* payment_refunds, summed per allocation and source
    issue         \* order_issues, "NONE" before the issue is raised

moneyVars == <<status, bill, allocated, given, issue>>

Statuses    == {"NEW", "IN_PREP", "READY", "DELIVERED", "CANCELLED"}
Allocations == Settlements \X Orders
Sources     == Issues \cup {Till}
Resolutions == {"NO_REFUND", "CANCEL_ONLY", "FULL_REFUND", "PARTIAL_REFUND"}

Bill == [total : 0..Capacity, paid : Nat, refunded : Nat,
         paymentStatus : {"UNPAID", "PARTIALLY_PAID", "PAID"},
         refundStatus : {"NONE", "PARTIALLY_REFUNDED", "REFUNDED"}]

NewBill(total) == [total |-> total, paid |-> 0, refunded |-> 0,
                   paymentStatus |-> "UNPAID", refundStatus |-> "NONE"]

IssueRow == [order : Orders \cup {NoOrder}, status : {"NONE", "OPEN", "RESOLVED"},
             resolution : Resolutions \cup {"UNDECIDED"}, approved : 0..Capacity]

-----------------------------------------------------------------------------
(* Balances *)

NetPaid(o)     == bill[o].paid - bill[o].refunded
Outstanding(o) == IF bill[o].total > NetPaid(o) THEN bill[o].total - NetPaid(o) ELSE 0

\* Mutant: a cancelled order can be paid.
OpenToPay(o) == status[o] # "ABSENT"

\* Only an order that exists and was not cancelled takes money.
Open(o) == status[o] \notin {"ABSENT", "CANCELLED"}

\* recompute_order_summary: the two status columns follow the two amounts.
Summary(total, paid, refunded) ==
    [total |-> total, paid |-> paid, refunded |-> refunded,
     paymentStatus |-> IF paid - refunded <= 0 THEN "UNPAID"
                       ELSE IF paid - refunded >= total THEN "PAID" ELSE "PARTIALLY_PAID",
     refundStatus |-> IF refunded <= 0 THEN "NONE"
                      ELSE IF refunded >= paid THEN "REFUNDED" ELSE "PARTIALLY_REFUNDED"]

\* What was given back of one allocation, whoever asked for it.
GivenBack(a)     == Total([x \in Sources |-> given[<<a, x>>]], Sources)
\* Mutant: earlier refunds are not counted.
RefundableOfPayment(a) == allocated[a]
Refundable(a)    == allocated[a] - GivenBack(a)
RefundablesOf(o) == [s \in Settlements |-> Refundable(<<s, o>>)]

-----------------------------------------------------------------------------
(* Orders. The clock of the undo window is not part of this module. *)

PlaceOrder(o, total) ==
    /\ status[o] = "ABSENT"
    /\ status' = [status EXCEPT ![o] = "NEW"]
    /\ bill' = [bill EXCEPT ![o] = NewBill(total)]
    /\ UNCHANGED <<allocated, given, issue>>

\* Mutant: a cancellation can be undone.
TransitionsFromCancelled ==
    {<<"NEW", "IN_PREP">>, <<"IN_PREP", "READY">>, <<"READY", "DELIVERED">>,
     <<"IN_PREP", "NEW">>, <<"READY", "IN_PREP">>, <<"CANCELLED", "NEW">>}

Transitions ==
    {<<"NEW", "IN_PREP">>, <<"IN_PREP", "READY">>, <<"READY", "DELIVERED">>,
     <<"IN_PREP", "NEW">>, <<"READY", "IN_PREP">>}

KitchenMove(o, to) ==
    /\ <<status[o], to>> \in Transitions
    /\ status' = [status EXCEPT ![o] = to]
    /\ UNCHANGED <<bill, allocated, given, issue>>

\* The kitchen may not cancel an order that still holds collected money.
KitchenCancel(o) ==
    /\ status[o] \in {"NEW", "IN_PREP"}
    /\ NetPaid(o) <= 0
    /\ status' = [status EXCEPT ![o] = "CANCELLED"]
    /\ UNCHANGED <<bill, allocated, given, issue>>

-----------------------------------------------------------------------------
(* Collecting *)

Used(s) == \E o \in Orders : allocated[<<s, o>>] > 0

\* One settlement pays due[o] towards each order o.
Collect(s, due) ==
    /\ ~Used(s) /\ \A t \in Settlements : t < s => Used(t)
    /\ \E o \in Orders : due[o] > 0
    /\ allocated' = [a \in Allocations |-> IF a[1] = s THEN due[a[2]] ELSE allocated[a]]
    /\ bill' = [o \in Orders |->
                   IF due[o] = 0 THEN bill[o]
                   ELSE Summary(bill[o].total, bill[o].paid + due[o], bill[o].refunded)]
    /\ UNCHANGED <<status, given, issue>>

\* The whole-table settlement pays every balance of the orders it names, and
\* refuses to collect again what was once given back.
CollectSettlement(s, O) ==
    /\ \A o \in O : Open(o)
    /\ \A o \in O : Outstanding(o) > 0 => bill[o].refundStatus = "NONE"
    /\ Collect(s, [o \in Orders |-> IF o \in O THEN Outstanding(o) ELSE 0])

\* One order, in full or in part; the explicit way to collect again.
CollectOrderPayment(s, o, amount) ==
    /\ Open(o)
    /\ amount <= Outstanding(o)
    /\ Collect(s, [p \in Orders |-> IF p = o THEN amount ELSE 0])

-----------------------------------------------------------------------------
(* Giving back *)

\* Mutant: a second refund of an allocation replaces the first.
GiveBackReplacing(o, source, take) ==
    /\ given' = [g \in Allocations \X Sources |->
                    IF g[1][2] = o /\ g[2] = source /\ take[g[1][1]] > 0
                    THEN take[g[1][1]] ELSE given[g]]
    /\ bill' = [bill EXCEPT ![o] =
                    Summary(@.total, @.paid, @.refunded + Total(take, Settlements))]

\* The order's refunds of this call: take[s] of what settlement s paid.
GiveBack(o, source, take) ==
    /\ given' = [g \in Allocations \X Sources |->
                    IF g[1][2] = o /\ g[2] = source THEN given[g] + take[g[1][1]] ELSE given[g]]
    /\ bill' = [bill EXCEPT ![o] =
                    Summary(@.total, @.paid, @.refunded + Total(take, Settlements))]

RefundAllocation(a, amount) ==
    /\ amount <= Refundable(a)
    /\ GiveBack(a[2], Till, [s \in Settlements |-> IF s = a[1] THEN amount ELSE 0])
    /\ UNCHANGED <<status, allocated, issue>>

\* An issue's refund fills the order's allocations in ascending order.
Share(o, amount) ==
    [s \in Settlements |->
        LET r == RefundablesOf(o)
            left == amount - Total(r, {t \in Settlements : t < s}) IN
        IF left <= 0 THEN 0 ELSE IF left < r[s] THEN left ELSE r[s]]

CreateIssueRefunds(o, i, amount) ==
    /\ amount > 0
    /\ amount <= Total(RefundablesOf(o), Settlements)
    /\ GiveBack(o, i, Share(o, amount))

-----------------------------------------------------------------------------
(* Issues *)

CreateIssue(i, o) ==
    /\ issue[i].status = "NONE"
    /\ status[o] # "ABSENT"
    /\ issue' = [issue EXCEPT ![i] = [order |-> o, status |-> "OPEN",
                                      resolution |-> "UNDECIDED", approved |-> 0]]
    /\ UNCHANGED <<status, bill, allocated, given>>

\* Mutant: an issue that was decided can be decided again.
ResolveAgain(i, resolution, approved) ==
    /\ issue[i].status # "NONE"
    /\ issue' = [issue EXCEPT ![i] = [order |-> issue[i].order, status |-> "RESOLVED",
                                      resolution |-> resolution, approved |-> approved]]

\* The decision is taken once, under the issue's lock and the order's.
Resolve(i, resolution, approved) ==
    /\ issue[i].status = "OPEN"
    /\ issue' = [issue EXCEPT ![i] = [order |-> issue[i].order, status |-> "RESOLVED",
                                      resolution |-> resolution, approved |-> approved]]

CancelOrder(o) == status' = [status EXCEPT ![o] = "CANCELLED"]

ResolveNoRefund(i) ==
    /\ Resolve(i, "NO_REFUND", 0)
    /\ UNCHANGED <<status, bill, allocated, given>>

ResolveCancelOnly(i) ==
    LET o == issue[i].order IN
    /\ Resolve(i, "CANCEL_ONLY", 0)
    /\ NetPaid(o) <= 0
    /\ CancelOrder(o)
    /\ UNCHANGED <<bill, allocated, given>>

ResolveFullRefund(i) ==
    LET o == issue[i].order IN
    /\ Resolve(i, "FULL_REFUND", NetPaid(o))
    /\ CreateIssueRefunds(o, i, NetPaid(o))
    /\ CancelOrder(o)
    /\ UNCHANGED allocated

ResolvePartialRefund(i, approved) ==
    LET o == issue[i].order IN
    /\ Resolve(i, "PARTIAL_REFUND", approved)
    /\ approved <= NetPaid(o)
    /\ CreateIssueRefunds(o, i, approved)
    /\ UNCHANGED <<status, allocated>>

-----------------------------------------------------------------------------
MoneyInit ==
    /\ status = [o \in Orders |-> "ABSENT"]
    /\ bill = [o \in Orders |-> NewBill(0)]
    /\ allocated = [a \in Allocations |-> 0]
    /\ given = [g \in Allocations \X Sources |-> 0]
    /\ issue = [i \in Issues |-> [order |-> NoOrder, status |-> "NONE",
                                  resolution |-> "UNDECIDED", approved |-> 0]]

Cashier ==
    \E s \in Settlements :
        \/ \E O \in SUBSET Orders : CollectSettlement(s, O)
        \/ \E o \in Orders : \E amount \in Amounts \cup {Outstanding(o)} :
              CollectOrderPayment(s, o, amount)

Supervisor ==
    \/ \E a \in Allocations, amount \in Amounts : RefundAllocation(a, amount)
    \/ \E i \in Issues :
          \/ \E o \in Orders : CreateIssue(i, o)
          \/ ResolveNoRefund(i)
          \/ ResolveCancelOnly(i)
          \/ ResolveFullRefund(i)
          \/ \E approved \in Amounts : ResolvePartialRefund(i, approved)

MoneyNext ==
    \/ \E o \in Orders, total \in Totals : PlaceOrder(o, total)
    \/ \E o \in Orders, to \in Statuses : KitchenMove(o, to)
    \/ \E o \in Orders : KitchenCancel(o)
    \/ Cashier
    \/ Supervisor

MoneySpec == MoneyInit /\ [][MoneyNext]_moneyVars

-----------------------------------------------------------------------------
(* Properties *)

\* The money tables hold what their columns may hold.
MoneyTypeOK ==
    /\ status \in [Orders -> Statuses \cup {"ABSENT"}]
    /\ bill \in [Orders -> Bill]
    /\ allocated \in [Allocations -> 0..Capacity]
    /\ given \in [Allocations \X Sources -> 0..Capacity]
    /\ issue \in [Issues -> IssueRow]

\* The tables hold what they may hold, and an order's paid and refunded figures are
\* the sums of the append-only ledger, through settlements, till refunds and issue
\* refunds spread over allocations.
PaidOf(o)     == Total([s \in Settlements |-> allocated[<<s, o>>]], Settlements)
RefundedOf(o) == Total([s \in Settlements |-> GivenBack(<<s, o>>)], Settlements)

BillsMatchLedger ==
    /\ MoneyTypeOK
    /\ \A o \in Orders : bill[o].paid = PaidOf(o) /\ bill[o].refunded = RefundedOf(o)

\* A shop never holds more than an order costs and never gives back more of a payment
\* than the payment was: ck_order_refund_le_paid and the guard at the end of
\* _do_collect never have to fire.
NeverOverpaid ==
    /\ \A o \in Orders : NetPaid(o) \in 0..bill[o].total
    /\ \A a \in Allocations : GivenBack(a) <= allocated[a]

\* The status columns the boards read tell what the ledger says, after every kind of
\* write: paid means nothing is outstanding, refunded means everything went back.
SummaryTellsTruth ==
    \A o \in Orders : status[o] # "ABSENT" =>
        /\ bill[o].paymentStatus = "PAID" <=> Outstanding(o) = 0
        /\ bill[o].paymentStatus = "UNPAID" <=> PaidOf(o) = RefundedOf(o)
        /\ bill[o].refundStatus = "NONE" <=> RefundedOf(o) = 0
        /\ bill[o].refundStatus = "REFUNDED" <=> PaidOf(o) = RefundedOf(o) /\ PaidOf(o) > 0

\* A cancelled order holds no collected money, whether the kitchen or an issue
\* cancelled it and whatever the till did around it.
CancelledHoldsNoMoney == \A o \in Orders : status[o] = "CANCELLED" => NetPaid(o) = 0

\* An issue and the refund ledger tell the same story: what was approved is what was
\* given back in its name, of its own order, and a full refund ended the order. These
\* are checks 2, 3, 5 and 6 of scripts/reconcile_order_issues.py.
GivenFor(i) == Total([a \in Allocations |-> given[<<a, i>>]], Allocations)

IssuesMatchRefunds ==
    \A i \in Issues :
        /\ GivenFor(i) = issue[i].approved
        /\ \A a \in Allocations : given[<<a, i>>] > 0 => a[2] = issue[i].order
        /\ issue[i].approved > 0 <=> issue[i].resolution \in {"FULL_REFUND", "PARTIAL_REFUND"}
        /\ issue[i].resolution \in {"FULL_REFUND", "CANCEL_ONLY"} =>
              status[issue[i].order] = "CANCELLED"

\* The books of a cancelled order are closed: no payment, refund or later issue moves
\* its money, and it never comes back.
ClosedBooksStayClosed ==
    [][\A o \in Orders : status[o] = "CANCELLED" =>
          status'[o] = "CANCELLED" /\ bill'[o] = bill[o]]_moneyVars

=============================================================================
