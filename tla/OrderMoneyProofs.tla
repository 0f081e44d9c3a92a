-------------------------- MODULE OrderMoneyProofs --------------------------
(***************************************************************************)
(* The invariants of OrderMoney and the agreement of what MoneyReports     *)
(* reads off it, for any number of orders, settlements and issues and any  *)
(* capacity of the money columns.                                          *)
(***************************************************************************)
EXTENDS MoneyReports, BoundedSumsProofs

-----------------------------------------------------------------------------
(* The inductive invariant. The sums of the ledger bound a refund only if    *)
(* every allocation holds what was given back of it; a cancelled order stays *)
(* without money only if its two figures are those sums; and what an issue   *)
(* approved is what was given in its name only if nothing was before.        *)

\* The columns of a bill follow its figures; an order that was not placed has none.
BillsFollowFigures ==
    \A o \in Orders :
        /\ bill[o] = Summary(bill[o].total, bill[o].paid, bill[o].refunded)
        /\ bill[o].total = 0 <=> status[o] = "ABSENT"
        /\ status[o] = "ABSENT" => \A s \in Settlements : allocated[<<s, o>>] = 0

\* An issue that was not decided approved nothing, and belongs to a placed order.
UndecidedIssuesAreEmpty ==
    \A i \in Issues :
        /\ issue[i].order = NoOrder <=> issue[i].status = "NONE"
        /\ issue[i].order \in Orders => status[issue[i].order] # "ABSENT"
        /\ issue[i].status # "RESOLVED" <=> issue[i].resolution = "UNDECIDED"

IInv ==
    /\ BillsMatchLedger
    /\ BillsFollowFigures
    /\ NeverOverpaid
    /\ CancelledHoldsNoMoney
    /\ UndecidedIssuesAreEmpty
    /\ IssuesMatchRefunds

-----------------------------------------------------------------------------
(* Facts about the ledger *)

LEMMA IdsFinite ==
    /\ IsFiniteSet(Orders) /\ IsFiniteSet(Settlements) /\ IsFiniteSet(Sources)
    /\ IsFiniteSet(Allocations) /\ IsFiniteSet(Allocations \X Sources)
<1>1. IsFiniteSet(Sources)
  <2>1. IsFiniteSet({Till})
    BY FS_Singleton
  <2> QED
    BY <2>1, FiniteMoneyIds, FS_Union DEF Sources
<1>2. IsFiniteSet(Allocations)
  BY FiniteMoneyIds, FS_Product DEF Allocations
<1>3. IsFiniteSet(Allocations \X Sources)
  BY <1>1, <1>2, FS_Product
<1> QED
  BY <1>1, <1>2, <1>3, FiniteMoneyIds

\* What is left to give back of an allocation is within the allocation and within
\* what the shop still holds for the order.
LEMMA AllocationFacts ==
    ASSUME MoneyTypeOK, NeverOverpaid, NEW a \in Allocations
    PROVE  /\ GivenBack(a) \in 0..Capacity
           /\ Refundable(a) \in 0..Capacity
           /\ allocated[a] = GivenBack(a) + Refundable(a)
           /\ \A x \in Sources : given[<<a, x>>] \in 0..GivenBack(a)
<1>1. GivenBack(a) \in Nat
  BY IdsFinite, TotalType DEF GivenBack
<1>2. GivenBack(a) <= allocated[a] /\ allocated[a] \in 0..Capacity
  BY DEF NeverOverpaid, MoneyTypeOK
<1>3. ASSUME NEW x \in Sources
      PROVE  given[<<a, x>>] \in 0..GivenBack(a)
  <2> DEFINE f == [y \in Sources |-> given[<<a, y>>]]
  <2>1. f[x] = given[<<a, x>>] /\ f[x] \in 0..Capacity
    BY DEF MoneyTypeOK
  <2>2. f[x] <= Total(f, Sources)
    <3> HIDE DEF f
    <3> QED
      BY <2>1, IdsFinite, PartOfTotal
  <2> QED
    BY <1>1, <2>1, <2>2, CapacityIsNat DEF GivenBack
<1> QED
  BY <1>1, <1>2, <1>3, CapacityIsNat DEF Refundable

LEMMA HeldIsRefundable ==
    ASSUME MoneyTypeOK, BillsMatchLedger, NeverOverpaid, NEW o \in Orders
    PROVE  /\ NetPaid(o) = Total(RefundablesOf(o), Settlements)
           /\ NetPaid(o) \in 0..Capacity
           /\ \A s \in Settlements : Refundable(<<s, o>>) <= NetPaid(o)
<1> DEFINE paid == [s \in Settlements |-> allocated[<<s, o>>]]
           back == [s \in Settlements |-> GivenBack(<<s, o>>)]
           left == [s \in Settlements |-> Refundable(<<s, o>>)]
<1>1. \A s \in Settlements : <<s, o>> \in Allocations
  BY DEF Allocations
<1>2. \A s \in Settlements : /\ back[s] \in 0..Capacity
                             /\ left[s] \in 0..Capacity
                             /\ paid[s] \in 0..Capacity
                             /\ paid[s] = back[s] + left[s]
  BY <1>1, AllocationFacts DEF MoneyTypeOK
<1>3. PaidOf(o) = Total(paid, Settlements) /\ RefundedOf(o) = Total(back, Settlements)
  BY DEF PaidOf, RefundedOf
<1>4. Total(RefundablesOf(o), Settlements) = Total(left, Settlements)
  BY DEF RefundablesOf
<1>5. \A s \in Settlements : left[s] = Refundable(<<s, o>>)
  OBVIOUS
<1> HIDE DEF paid, back, left
<1>6. Total(paid, Settlements) = Total(back, Settlements) + Total(left, Settlements)
  BY <1>2, IdsFinite, TotalOfSums
<1>7. Total(back, Settlements) \in Nat /\ Total(left, Settlements) \in Nat
  BY IdsFinite, TotalType
<1>8. NetPaid(o) = Total(left, Settlements)
  BY <1>3, <1>6, <1>7 DEF NetPaid, BillsMatchLedger
<1>9. NetPaid(o) \in 0..Capacity
  BY CapacityIsNat DEF NeverOverpaid, MoneyTypeOK, Bill
<1>10. \A s \in Settlements : left[s] <= Total(left, Settlements)
  BY <1>2, IdsFinite, PartOfTotal
<1> QED
  BY <1>4, <1>5, <1>8, <1>9, <1>10

-----------------------------------------------------------------------------
(* Filling the allocations in ascending order gives out the whole amount. The *)
(* smallest set of first settlements on which it would not cannot be empty,  *)
(* and without its last settlement it would be a smaller one.                *)

LEMMA FillingGivesAll ==
    ASSUME NEW r, NEW share, NEW amount \in 1..Capacity, amount <= Total(r, Settlements),
           \A s \in Settlements :
              /\ r[s] \in 0..Capacity
              /\ share[s] = LET left == amount - Total(r, {t \in Settlements : t < s})
                            IN  IF left <= 0 THEN 0 ELSE IF left < r[s] THEN left ELSE r[s]
    PROVE  /\ \A s \in Settlements : share[s] \in 0..r[s]
           /\ Total(share, Settlements) = amount
<1> DEFINE Before(s) == {t \in Settlements : t < s}
           Filled(T) == IF amount <= Total(r, T) THEN amount ELSE Total(r, T)
           First(T)  == \A t \in T, s \in Settlements : s < t => s \in T
           Bad       == {T \in SUBSET Settlements : First(T) /\ Total(share, T) # Filled(T)}
<1>0. \A T \in SUBSET Settlements : IsFiniteSet(T) /\ Total(r, T) \in Nat
  BY IdsFinite, FS_Subset, TotalType
<1>1. ASSUME NEW s \in Settlements
      PROVE  /\ share[s] \in 0..r[s] /\ r[s] \in 0..Capacity /\ r[s] \in Nat
             /\ share[s] = IF amount <= Total(r, Before(s)) THEN 0
                           ELSE IF amount < Total(r, Before(s)) + r[s]
                                THEN amount - Total(r, Before(s)) ELSE r[s]
  <2>1. PICK n \in Nat : n = Total(r, Before(s))
    BY <1>0
  <2>2. r[s] \in 0..Capacity /\ r[s] \in Nat /\ amount \in Nat
    <3>1. r[s] \in 0..Capacity
      OBVIOUS
    <3> QED
      BY <3>1, CapacityIsNat
  <2>3. share[s] = IF amount - n <= 0 THEN 0 ELSE IF amount - n < r[s] THEN amount - n ELSE r[s]
    BY <2>1
  <2>4. share[s] = IF amount <= n THEN 0 ELSE IF amount < n + r[s] THEN amount - n ELSE r[s]
    BY <2>2, <2>3
  <2>5. share[s] \in 0..r[s]
    BY <2>2, <2>4
  <2> QED
    BY <2>1, <2>2, <2>4, <2>5
<1>2. ASSUME Bad # {} PROVE FALSE
  <2>1. PICK T \in Bad : \A x \in T : T \ {x} \notin Bad
    <3> HIDE DEF Bad
    <3>1. Bad \subseteq SUBSET Settlements
      BY DEF Bad
    <3> QED
      BY <1>2, <3>1, IdsFinite, SmallestBad
  <2>2. T \in SUBSET Settlements /\ First(T) /\ Total(share, T) # Filled(T)
    BY <2>1
  <2>3. T # {}
    <3>1. Total(share, {}) = 0 /\ Total(r, {}) = 0
      BY TotalOfEmpty
    <3>2. Filled({}) = 0
      BY <3>1, CapacityIsNat
    <3> HIDE DEF Filled, First, Bad, Before
    <3> QED
      BY <2>2, <3>1, <3>2
  <2>4. PICK m \in T : \A s \in T : s <= m
    BY <1>0, <2>2, <2>3, LargestExists, SettlementIds
  <2>5. T \ {m} = Before(m)
    <3>1. m \in Nat /\ T \subseteq Nat
      BY <2>2, <2>4, SettlementIds
    <3>2. ASSUME NEW x \in T \ {m} PROVE x \in Before(m)
      <4>1. x \in Nat /\ x \in Settlements /\ x <= m /\ x # m
        BY <2>2, <2>4, <3>1
      <4> QED
        BY <3>1, <4>1
    <3>3. ASSUME NEW x \in Before(m) PROVE x \in T \ {m}
      <4>1. x \in Settlements /\ x < m /\ x \in Nat
        BY SettlementIds
      <4> QED
        BY <2>2, <2>4, <3>1, <4>1
    <3> QED
      BY <3>2, <3>3
  <2>6. First(T \ {m})
    BY <2>5, SettlementIds
  <2>7. Total(share, T \ {m}) = Filled(T \ {m})
    BY <2>1, <2>2, <2>4, <2>6
  <2>8. share[m] \in 0..Capacity /\ r[m] \in 0..Capacity /\ m \notin T \ {m}
    <3>1. m \in Settlements
      BY <2>2, <2>4
    <3>2. share[m] \in 0..r[m] /\ r[m] \in 0..Capacity /\ r[m] \in Nat
      BY <1>1, <3>1
    <3> QED
      BY <3>2, CapacityIsNat
  <2>9. (T \ {m}) \cup {m} = T /\ IsFiniteSet(T \ {m})
    BY <1>0, <2>2
  <2>10. /\ Total(share, T) = Total(share, T \ {m}) + share[m]
         /\ Total(r, T) = Total(r, T \ {m}) + r[m]
    BY <2>8, <2>9, TotalAddOne
  <2>11. PICK n \in Nat : n = Total(r, Before(m))
    BY <1>0
  <2>12. share[m] = IF amount <= n THEN 0 ELSE IF amount < n + r[m] THEN amount - n ELSE r[m]
    BY <1>1, <2>2, <2>11
  <2>13. /\ Total(share, T) = (IF amount <= n THEN amount ELSE n) + share[m]
         /\ Total(r, T) = n + r[m]
    BY <2>5, <2>7, <2>10, <2>11
  <2>14. Total(share, T) = IF amount <= n + r[m] THEN amount ELSE n + r[m]
    <3>1. amount \in Nat /\ r[m] \in Nat
      BY <2>8, CapacityIsNat
    <3> HIDE DEF Filled, First, Bad, Before
    <3>2. CASE amount <= n
      BY <2>12, <2>13, <3>1, <3>2
    <3>3. CASE ~(amount <= n) /\ amount < n + r[m]
      BY <2>12, <2>13, <3>1, <3>3
    <3>4. CASE ~(amount < n + r[m])
      BY <2>12, <2>13, <3>1, <3>4
    <3> QED
      BY <3>1, <3>2, <3>3, <3>4
  <2> QED
    BY <2>2, <2>13, <2>14
<1>3. Total(share, Settlements) = Filled(Settlements)
  BY <1>2
<1> QED
  BY <1>1, <1>3

\* What an issue's refund takes of the order's allocations.
LEMMA ShareAddsUp ==
    ASSUME MoneyTypeOK, NeverOverpaid, NEW o \in Orders,
           NEW amount \in 1..Capacity, amount <= Total(RefundablesOf(o), Settlements)
    PROVE  /\ Share(o, amount) \in [Settlements -> 0..Capacity]
           /\ \A s \in Settlements : Share(o, amount)[s] <= Refundable(<<s, o>>)
           /\ Total(Share(o, amount), Settlements) = amount
<1> DEFINE r == RefundablesOf(o)
           share == Share(o, amount)
<1>1. \A s \in Settlements : <<s, o>> \in Allocations
  BY DEF Allocations
<1>2. \A s \in Settlements : r[s] = Refundable(<<s, o>>) /\ r[s] \in 0..Capacity
  BY <1>1, AllocationFacts DEF RefundablesOf
<1>3. \A s \in Settlements :
         share[s] = LET left == amount - Total(r, {t \in Settlements : t < s})
                    IN  IF left <= 0 THEN 0 ELSE IF left < r[s] THEN left ELSE r[s]
  BY DEF Share
<1>4. share = [s \in Settlements |-> share[s]]
  BY DEF Share
<1>5. amount <= Total(r, Settlements)
  OBVIOUS
<1> HIDE DEF r, share
<1>6. /\ \A s \in Settlements : share[s] \in 0..r[s]
      /\ Total(share, Settlements) = amount
  <2>1. \A s \in Settlements :
         /\ r[s] \in 0..Capacity
         /\ share[s] = LET left == amount - Total(r, {t \in Settlements : t < s})
                       IN  IF left <= 0 THEN 0 ELSE IF left < r[s] THEN left ELSE r[s]
    BY <1>2, <1>3
  <2> QED
    BY <1>5, <2>1, FillingGivesAll
<1>7. \A s \in Settlements : share[s] \in 0..Capacity /\ share[s] <= Refundable(<<s, o>>)
  BY <1>2, <1>6, CapacityIsNat
<1> QED
  BY <1>4, <1>6, <1>7 DEF share

-----------------------------------------------------------------------------
(* The two ways money moves *)

LEMMA SummaryType ==
    ASSUME NEW total \in 0..Capacity, NEW paid \in Nat, NEW refunded \in Nat
    PROVE  Summary(total, paid, refunded) \in Bill
BY CapacityIsNat DEF Summary, Bill

LEMMA NewBillIsSummary ==
    ASSUME NEW total \in 0..Capacity
    PROVE  NewBill(total) = Summary(total, 0, 0) /\ NewBill(total) \in Bill
BY CapacityIsNat DEF Summary, Bill, NewBill

\* A settlement that was not used adds what it pays to each order's ledger, and
\* holds nothing that was given back.
LEMMA CollectLedger ==
    ASSUME IInv, NEW s \in Settlements, NEW due \in [Orders -> 0..Capacity], Collect(s, due)
    PROVE  /\ allocated' \in [Allocations -> 0..Capacity]
           /\ \A a \in Allocations : allocated[a] <= allocated'[a]
           /\ \A o \in Orders : PaidOf(o)' = PaidOf(o) + due[o]
           /\ \A o \in Orders : RefundedOf(o)' = RefundedOf(o)
           /\ \A a \in Allocations : GivenBack(a)' = GivenBack(a)
<1>1. allocated \in [Allocations -> 0..Capacity]
  BY DEF IInv, BillsMatchLedger, MoneyTypeOK
<1>2. allocated' = [a \in Allocations |-> IF a[1] = s THEN due[a[2]] ELSE allocated[a]]
      /\ given' = given
  BY DEF Collect
<1>3. \A a \in Allocations : a[1] \in Settlements /\ a[2] \in Orders /\ a = <<a[1], a[2]>>
  BY DEF Allocations
<1>4. allocated' \in [Allocations -> 0..Capacity]
  BY <1>1, <1>2, <1>3
<1>5. \A o \in Orders : allocated[<<s, o>>] = 0
  <2>1. \A o \in Orders : ~(allocated[<<s, o>>] > 0)
    BY DEF Collect, Used
  <2>2. \A o \in Orders : allocated[<<s, o>>] \in 0..Capacity
    BY <1>1 DEF Allocations
  <2> QED
    BY <2>1, <2>2, CapacityIsNat
<1>6. \A a \in Allocations : allocated[a] <= allocated'[a]
  <2> TAKE a \in Allocations
  <2>1. allocated[a] \in 0..Capacity /\ allocated'[a] \in 0..Capacity
    BY <1>1, <1>4
  <2>2. CASE a[1] = s
    BY <1>3, <1>5, <2>1, <2>2, CapacityIsNat
  <2>3. CASE a[1] # s
    BY <1>2, <2>1, <2>3, CapacityIsNat
  <2> QED
    BY <2>2, <2>3
<1>7. ASSUME NEW o \in Orders
      PROVE  PaidOf(o)' = PaidOf(o) + due[o]
  <2> DEFINE f == [t \in Settlements |-> allocated[<<t, o>>]]
             g == [t \in Settlements |-> allocated'[<<t, o>>]]
  <2>1. /\ \A t \in Settlements \ {s} : f[t] = g[t]
        /\ f[s] = 0 /\ g[s] = due[o] /\ due[o] \in 0..Capacity
    BY <1>2, <1>5 DEF Allocations
  <2>2. PaidOf(o)' = Total(g, Settlements) /\ PaidOf(o) = Total(f, Settlements)
    BY DEF PaidOf, Total, Units
  <2> HIDE DEF f, g
  <2>3. Total(f, {s}) = 0 /\ Total(g, {s}) = due[o]
    BY <2>1, TotalOfOne, CapacityIsNat
  <2>4. Total(g, Settlements) = Total(f, Settlements) - Total(f, {s}) + Total(g, {s})
    BY <2>1, IdsFinite, TotalReplace
  <2>5. Total(f, Settlements) \in Nat
    BY IdsFinite, TotalType
  <2> QED
    BY <2>1, <2>2, <2>3, <2>4, <2>5, CapacityIsNat
<1>8. \A a \in Allocations : GivenBack(a)' = GivenBack(a)
  BY <1>2 DEF GivenBack
<1>9. \A o \in Orders : RefundedOf(o)' = RefundedOf(o)
  BY <1>2 DEF RefundedOf, GivenBack
<1> QED
  BY <1>4, <1>6, <1>7, <1>8, <1>9

LEMMA CollectKeeps ==
    ASSUME IInv, NEW s \in Settlements, NEW due \in [Orders -> 0..Capacity], Collect(s, due),
           \A o \in Orders : due[o] <= Outstanding(o) /\ (due[o] > 0 => Open(o))
    PROVE  IInv'
<1>1. MoneyTypeOK /\ UNCHANGED <<status, given, issue>>
  BY DEF IInv, BillsMatchLedger, Collect
<1>2. ASSUME NEW o \in Orders
      PROVE  /\ bill'[o] = IF due[o] = 0 THEN bill[o]
                           ELSE Summary(bill[o].total, bill[o].paid + due[o], bill[o].refunded)
             /\ bill'[o] \in Bill
             /\ bill'[o].total = bill[o].total
             /\ bill'[o].paid = bill[o].paid + due[o]
             /\ bill'[o].refunded = bill[o].refunded
             /\ bill'[o] = Summary(bill'[o].total, bill'[o].paid, bill'[o].refunded)
  <2>1. bill'[o] = IF due[o] = 0 THEN bill[o]
                   ELSE Summary(bill[o].total, bill[o].paid + due[o], bill[o].refunded)
    BY DEF Collect
  <2>2. /\ bill[o] \in Bill /\ due[o] \in Nat
        /\ bill[o].total \in 0..Capacity /\ bill[o].paid \in Nat /\ bill[o].refunded \in Nat
        /\ bill[o] = Summary(bill[o].total, bill[o].paid, bill[o].refunded)
    BY <1>1, CapacityIsNat DEF MoneyTypeOK, IInv, BillsFollowFigures, Bill
  <2>3. Summary(bill[o].total, bill[o].paid + due[o], bill[o].refunded) \in Bill
    BY <2>2, SummaryType
  <2>4. CASE due[o] = 0
    BY <2>1, <2>2, <2>4
  <2>5. CASE due[o] # 0
    BY <2>1, <2>2, <2>3, <2>5 DEF Summary
  <2> QED
    BY <2>1, <2>4, <2>5
<1>3. MoneyTypeOK'
  BY <1>1, <1>2, CollectLedger DEF MoneyTypeOK, Collect
<1>4. BillsMatchLedger'
  BY <1>2, <1>3, CollectLedger DEF IInv, BillsMatchLedger
<1>5. BillsFollowFigures'
  <2> SUFFICES ASSUME NEW o \in Orders, status[o] = "ABSENT", NEW t \in Settlements
               PROVE  allocated'[<<t, o>>] = 0
    BY <1>1, <1>2 DEF IInv, BillsFollowFigures
  <2>1. allocated[<<t, o>>] = 0
    BY DEF IInv, BillsFollowFigures
  <2>2. due[o] = 0
    <3>1. ~(due[o] > 0) /\ due[o] \in 0..Capacity
      BY DEF Open
    <3> QED
      BY <3>1, CapacityIsNat
  <2> QED
    BY <2>1, <2>2 DEF Collect, Allocations
<1>6. NeverOverpaid'
  <2>1. ASSUME NEW o \in Orders PROVE NetPaid(o)' \in 0..bill'[o].total
    <3>1. /\ bill[o].total \in 0..Capacity /\ bill[o].paid \in Nat /\ bill[o].refunded \in Nat
          /\ due[o] \in Nat /\ due[o] <= Outstanding(o)
      BY <1>1, CapacityIsNat DEF MoneyTypeOK, Bill
    <3>2. NetPaid(o) \in 0..bill[o].total
      BY DEF IInv, NeverOverpaid
    <3>3. NetPaid(o)' = NetPaid(o) + due[o]
      BY <1>2, <3>1 DEF NetPaid
    <3>4. due[o] <= bill[o].total - NetPaid(o)
      BY <3>1, <3>2, CapacityIsNat DEF Outstanding
    <3> QED
      BY <1>2, <3>1, <3>2, <3>3, <3>4, CapacityIsNat
  <2>2. ASSUME NEW a \in Allocations PROVE GivenBack(a)' <= allocated'[a]
    <3>1. GivenBack(a) \in 0..Capacity /\ GivenBack(a) <= allocated[a]
      BY <1>1, AllocationFacts DEF IInv, NeverOverpaid
    <3>2. GivenBack(a)' = GivenBack(a) /\ allocated[a] <= allocated'[a]
      BY CollectLedger
    <3>3. allocated[a] \in Int /\ allocated'[a] \in Int
      BY <1>1, <1>3, CapacityIsNat DEF MoneyTypeOK
    <3> QED
      BY <3>1, <3>2, <3>3, CapacityIsNat
  <2> QED
    BY <2>1, <2>2 DEF NeverOverpaid
<1>7. CancelledHoldsNoMoney'
  <2> SUFFICES ASSUME NEW o \in Orders, status[o] = "CANCELLED"
               PROVE  NetPaid(o)' = 0
    BY <1>1 DEF CancelledHoldsNoMoney
  <2>1. ~(due[o] > 0) /\ due[o] \in 0..Capacity
    BY DEF Open
  <2>2. due[o] = 0
    BY <2>1, CapacityIsNat
  <2> QED
    BY <1>2, <2>2 DEF NetPaid, IInv, CancelledHoldsNoMoney
<1>8. UndecidedIssuesAreEmpty' /\ IssuesMatchRefunds'
  BY <1>1 DEF IInv, UndecidedIssuesAreEmpty, IssuesMatchRefunds, GivenFor
<1> QED
  BY <1>4, <1>5, <1>6, <1>7, <1>8 DEF IInv

\* What a call gives back of an order is added, settlement by settlement, to what
\* was given back before, and to what was given back in the name of its source.
LEMMA GiveBackLedger ==
    ASSUME IInv, NEW o \in Orders, NEW source \in Sources, NEW take \in [Settlements -> 0..Capacity],
           \A s \in Settlements : take[s] <= Refundable(<<s, o>>),
           GiveBack(o, source, take), allocated' = allocated
    PROVE  /\ given' \in [Allocations \X Sources -> 0..Capacity]
           /\ \A a \in Allocations : GivenBack(a)' \in 0..allocated[a]
           /\ \A p \in Orders : PaidOf(p)' = PaidOf(p)
           /\ \A p \in Orders : RefundedOf(p)' = RefundedOf(p)
                                   + IF p = o THEN Total(take, Settlements) ELSE 0
           /\ \A i \in Issues : GivenFor(i)' = GivenFor(i)
                                   + IF i = source THEN Total(take, Settlements) ELSE 0
           /\ Total(take, Settlements) \in 0..NetPaid(o)
<1> DEFINE Taken(a) == IF a[2] = o THEN take[a[1]] ELSE 0
<1>1. MoneyTypeOK /\ BillsMatchLedger /\ NeverOverpaid
  BY DEF IInv, BillsMatchLedger
<1>2. \A a \in Allocations : a[1] \in Settlements /\ a[2] \in Orders /\ a = <<a[1], a[2]>>
  BY DEF Allocations
<1>3. ASSUME NEW a \in Allocations
      PROVE  /\ GivenBack(a) \in Nat /\ Refundable(a) \in Nat /\ Taken(a) \in Nat
             /\ Taken(a) <= Refundable(a)
             /\ allocated[a] = GivenBack(a) + Refundable(a)
             /\ allocated[a] \in 0..Capacity
  <2>1. take[a[1]] \in 0..Capacity
    BY <1>2
  <2>2. a[2] = o => take[a[1]] <= Refundable(a)
    BY <1>2
  <2>3. /\ GivenBack(a) \in 0..Capacity /\ Refundable(a) \in 0..Capacity
        /\ allocated[a] = GivenBack(a) + Refundable(a) /\ allocated[a] \in 0..Capacity
    BY <1>1, AllocationFacts DEF MoneyTypeOK
  <2> QED
    BY <2>1, <2>2, <2>3, CapacityIsNat
<1>4. ASSUME NEW a \in Allocations, NEW x \in Sources
      PROVE  /\ given'[<<a, x>>] = given[<<a, x>>] + IF x = source THEN Taken(a) ELSE 0
             /\ given[<<a, x>>] \in 0..GivenBack(a)
             /\ given[<<a, x>>] \in 0..Capacity
             /\ given'[<<a, x>>] \in 0..Capacity
  <2>1. given'[<<a, x>>] = IF a[2] = o /\ x = source THEN given[<<a, x>>] + take[a[1]]
                           ELSE given[<<a, x>>]
    BY DEF GiveBack
  <2>2. given[<<a, x>>] \in 0..GivenBack(a)
    BY <1>1, AllocationFacts
  <2>3. given[<<a, x>>] \in Nat
    BY <1>3, <2>2
  <2>4. given'[<<a, x>>] = given[<<a, x>>] + IF x = source THEN Taken(a) ELSE 0
    BY <2>1, <2>3
  <2> HIDE DEF Taken
  <2>5. given'[<<a, x>>] \in 0..Capacity /\ given[<<a, x>>] \in 0..Capacity
    BY <1>3, <2>2, <2>3, <2>4, CapacityIsNat
  <2> QED
    BY <2>2, <2>4, <2>5
<1>5. given' \in [Allocations \X Sources -> 0..Capacity]
  <2>1. given' = [g \in Allocations \X Sources |-> given'[g]]
    BY DEF GiveBack
  <2>2. \A g \in Allocations \X Sources : g = <<g[1], g[2]>> /\ g[1] \in Allocations /\ g[2] \in Sources
    OBVIOUS
  <2>3. \A g \in Allocations \X Sources : given'[g] \in 0..Capacity
    BY <1>4, <2>2
  <2> QED
    BY <2>1, <2>3
<1>6. ASSUME NEW a \in Allocations
      PROVE  GivenBack(a)' = GivenBack(a) + Taken(a)
  <2> DEFINE f == [x \in Sources |-> given[<<a, x>>]]
             g == [x \in Sources |-> given'[<<a, x>>]]
  <2>1. /\ \A x \in Sources \ {source} : f[x] = g[x]
        /\ g[source] = f[source] + Taken(a)
        /\ f[source] \in 0..Capacity /\ g[source] \in 0..Capacity
    <3>1. ASSUME NEW x \in Sources \ {source} PROVE f[x] = g[x]
      <4>1. given'[<<a, x>>] = given[<<a, x>>] + 0 /\ given[<<a, x>>] \in 0..Capacity
        BY <1>4
      <4> QED
        BY <4>1, CapacityIsNat
    <3> QED
      BY <1>4, <3>1
  <2>2. GivenBack(a)' = Total(g, Sources) /\ GivenBack(a) = Total(f, Sources)
    BY DEF GivenBack, Total, Units
  <2> HIDE DEF f, g, Taken
  <2>3. Total(f, {source}) = f[source] /\ Total(g, {source}) = g[source]
    BY <2>1, TotalOfOne
  <2>4. Total(g, Sources) = Total(f, Sources) - Total(f, {source}) + Total(g, {source})
    BY <2>1, IdsFinite, TotalReplace
  <2>5. Total(f, Sources) \in Nat
    BY IdsFinite, TotalType
  <2> QED
    BY <1>3, <2>1, <2>2, <2>3, <2>4, <2>5, CapacityIsNat
<1>7. \A a \in Allocations : GivenBack(a)' \in 0..allocated[a]
  <2> HIDE DEF Taken
  <2> QED
    BY <1>3, <1>6, CapacityIsNat
<1>8. \A p \in Orders : PaidOf(p)' = PaidOf(p)
  BY DEF PaidOf
<1>9. \A s \in Settlements : take[s] \in 0..Capacity /\ <<s, o>> \in Allocations
  BY DEF Allocations
<1>10. ASSUME NEW p \in Orders
       PROVE  RefundedOf(p)' = RefundedOf(p) + IF p = o THEN Total(take, Settlements) ELSE 0
  <2> DEFINE f == [s \in Settlements |-> GivenBack(<<s, p>>)]
             g == [s \in Settlements |-> GivenBack(<<s, p>>)']
  <2>1. RefundedOf(p)' = Total(g, Settlements) /\ RefundedOf(p) = Total(f, Settlements)
    BY DEF RefundedOf, Total, Units
  <2>2. ASSUME NEW s \in Settlements
        PROVE  /\ f[s] \in 0..Capacity /\ g[s] \in 0..Capacity
               /\ g[s] = f[s] + IF p = o THEN take[s] ELSE 0
    <3>1. <<s, p>> \in Allocations
      BY DEF Allocations
    <3>2. g[s] = f[s] + Taken(<<s, p>>)
      BY <1>6, <3>1
    <3>3. GivenBack(<<s, p>>)' \in 0..Capacity /\ GivenBack(<<s, p>>) \in 0..Capacity
      BY <1>3, <1>7, <3>1, CapacityIsNat
    <3>4. Taken(<<s, p>>) = IF p = o THEN take[s] ELSE 0
      OBVIOUS
    <3> QED
      BY <3>2, <3>3, <3>4
  <2>3. Total(f, Settlements) \in Nat
    BY IdsFinite, TotalType
  <2> HIDE DEF f, g, Taken
  <2>4. CASE p = o
    <3>1. Total(g, Settlements) = Total(f, Settlements) + Total(take, Settlements)
      BY <1>9, <2>2, <2>4, IdsFinite, TotalOfSums
    <3> QED
      BY <2>1, <2>4, <3>1
  <2>5. CASE p # o
    <3>1. \A s \in Settlements : f[s] = g[s]
      BY <2>2, <2>5, CapacityIsNat
    <3>2. Total(f, Settlements) = Total(g, Settlements)
      BY <3>1, TotalCongruence
    <3> QED
      BY <2>1, <2>3, <2>5, <3>2
  <2> QED
    BY <2>4, <2>5
<1>11. Total([a \in Allocations |-> Taken(a)], Allocations) = Total(take, Settlements)
  <2> DEFINE t == [a \in Allocations |-> Taken(a)]
             Own == {a \in Allocations : a[2] = o}
             Rest == {a \in Allocations : a[2] # o}
             h == [a \in Own |-> a[1]]
  <2>1. IsFiniteSet(Own) /\ IsFiniteSet(Rest) /\ Own \cap Rest = {} /\ Allocations = Own \cup Rest
    BY IdsFinite, FS_Subset
  <2>2. Total(t, Allocations) = Total(t, Own) + Total(t, Rest)
    <3> HIDE DEF t, Own, Rest
    <3> QED
      BY <2>1, TotalSplit
  <2>3. \A a \in Rest : t[a] = 0
    OBVIOUS
  <2>4. Total(t, Rest) = 0
    <3> HIDE DEF t, Rest
    <3> QED
      BY <2>3, TotalOfZeros
  <2>5. ASSUME NEW s \in Settlements
        PROVE  \E d \in Own : /\ \A c \in Own : h[c] = s <=> c = d
                              /\ t[d] \in 0..Capacity
                              /\ take[s] = t[d]
    <3>1. <<s, o>> \in Own /\ h[<<s, o>>] = s /\ t[<<s, o>>] = take[s]
      BY <1>9
    <3>2. \A c \in Own : h[c] = s <=> c = <<s, o>>
      BY <1>2, <3>1
    <3> QED
      BY <1>9, <3>1, <3>2
  <2>6. h \in [Own -> Settlements]
    BY <1>2
  <2>7. Total(take, Settlements) = Total(t, Own)
    <3>1. \A s \in Settlements : \E d \in Own : /\ \A c \in Own : h[c] = s <=> c = d
                                                /\ t[d] \in 0..Capacity
                                                /\ take[s] = t[d]
      BY <2>5
    <3>2. IsFiniteSet(Own) /\ IsFiniteSet(Settlements)
      BY <2>1, IdsFinite
    <3> HIDE DEF t, Own, h
    <3> QED
      BY <2>6, <3>1, <3>2, TotalRenamed
  <2>8. Total(t, Own) \in Nat
    BY <2>1, TotalType
  <2> QED
    BY <2>2, <2>4, <2>7, <2>8
<1>12. ASSUME NEW i \in Issues
       PROVE  GivenFor(i)' = GivenFor(i) + IF i = source THEN Total(take, Settlements) ELSE 0
  <2> DEFINE f == [a \in Allocations |-> given[<<a, i>>]]
             g == [a \in Allocations |-> given'[<<a, i>>]]
             t == [a \in Allocations |-> Taken(a)]
  <2>1. GivenFor(i)' = Total(g, Allocations) /\ GivenFor(i) = Total(f, Allocations)
    BY DEF GivenFor, Total, Units
  <2>2. i \in Sources
    BY DEF Sources
  <2>3. ASSUME NEW a \in Allocations
        PROVE  /\ f[a] \in 0..Capacity /\ g[a] \in 0..Capacity /\ t[a] \in 0..Capacity
               /\ g[a] = f[a] + IF i = source THEN t[a] ELSE 0
    <3>1. Taken(a) \in 0..Capacity
      BY <1>2, CapacityIsNat
    <3> HIDE DEF Taken
    <3> QED
      BY <1>4, <2>2, <3>1
  <2>4. Total(f, Allocations) \in Nat
    BY IdsFinite, TotalType
  <2>5. Total(t, Allocations) = Total(take, Settlements)
    BY <1>11
  <2> HIDE DEF f, g, t, Taken
  <2>6. CASE i = source
    <3>1. Total(g, Allocations) = Total(f, Allocations) + Total(t, Allocations)
      BY <2>3, <2>6, IdsFinite, TotalOfSums
    <3> QED
      BY <2>1, <2>5, <2>6, <3>1
  <2>7. CASE i # source
    <3>1. \A a \in Allocations : f[a] = g[a]
      BY <2>3, <2>7, CapacityIsNat
    <3>2. Total(f, Allocations) = Total(g, Allocations)
      BY <3>1, TotalCongruence
    <3> QED
      BY <2>1, <2>4, <2>7, <3>2
  <2> QED
    BY <2>6, <2>7
<1>13. Total(take, Settlements) \in 0..NetPaid(o)
  <2> DEFINE left == RefundablesOf(o)
  <2>1. \A s \in Settlements : left[s] = Refundable(<<s, o>>)
    BY DEF RefundablesOf
  <2>2. ASSUME NEW s \in Settlements
        PROVE  take[s] \in Int /\ left[s] \in Int /\ take[s] <= left[s]
    <3>1. Refundable(<<s, o>>) \in Nat /\ take[s] \in 0..Capacity
      BY <1>3, <1>9
    <3>2. take[s] <= Refundable(<<s, o>>)
      OBVIOUS
    <3> QED
      BY <2>1, <3>1, <3>2, CapacityIsNat
  <2>3. NetPaid(o) = Total(left, Settlements)
    BY <1>1, HeldIsRefundable
  <2> HIDE DEF left
  <2>4. Total(take, Settlements) <= Total(left, Settlements)
    BY <2>2, IdsFinite, TotalMonotone
  <2>5. Total(take, Settlements) \in Nat /\ Total(left, Settlements) \in Nat
    BY IdsFinite, TotalType
  <2> QED
    BY <2>3, <2>4, <2>5
<1> QED
  BY <1>5, <1>7, <1>8, <1>10, <1>12, <1>13

\* The same, as far as the issues look at it.
LEMMA GiveBackForIssues ==
    ASSUME IInv, NEW o \in Orders, NEW source \in Sources, NEW take \in [Settlements -> 0..Capacity],
           \A s \in Settlements : take[s] <= Refundable(<<s, o>>),
           GiveBack(o, source, take), allocated' = allocated
    PROVE  /\ given' \in [Allocations \X Sources -> 0..Capacity]
           /\ \A i \in Issues : GivenFor(i)' = GivenFor(i)
                                   + IF i = source THEN Total(take, Settlements) ELSE 0
BY GiveBackLedger, ZenonT(40)

\* Of the bills only the order's own moves, by what was given back of it.
LEMMA GiveBackKeeps ==
    ASSUME IInv, NEW o \in Orders, NEW source \in Sources, NEW take \in [Settlements -> 0..Capacity],
           \A s \in Settlements : take[s] <= Refundable(<<s, o>>),
           GiveBack(o, source, take), allocated' = allocated
    PROVE  /\ bill' \in [Orders -> Bill]
           /\ \A p \in Orders :
                 /\ bill'[p].paid = PaidOf(p)' /\ bill'[p].refunded = RefundedOf(p)'
                 /\ bill'[p] = Summary(bill'[p].total, bill'[p].paid, bill'[p].refunded)
                 /\ bill'[p].total = bill[p].total
                 /\ p # o => bill'[p] = bill[p]
                 /\ NetPaid(p)' = NetPaid(p) - IF p = o THEN Total(take, Settlements) ELSE 0
           /\ NeverOverpaid'
<1> DEFINE T == Total(take, Settlements)
<1>1. bill' = [bill EXCEPT ![o] = Summary(bill[o].total, bill[o].paid, bill[o].refunded + T)]
  BY DEF GiveBack
<1>2. T \in 0..NetPaid(o) /\ T \in Nat
  BY GiveBackLedger, IdsFinite, TotalType
<1> HIDE DEF T
<1>3. \A p \in Orders : /\ bill[p] \in Bill /\ bill[p].total \in 0..Capacity
                        /\ bill[p].paid \in Nat /\ bill[p].refunded \in Nat
                        /\ bill[p] = Summary(bill[p].total, bill[p].paid, bill[p].refunded)
  BY DEF IInv, BillsMatchLedger, MoneyTypeOK, Bill, BillsFollowFigures
<1>4. Summary(bill[o].total, bill[o].paid, bill[o].refunded + T) \in Bill
  BY <1>2, <1>3, SummaryType
<1>5. bill' \in [Orders -> Bill]
  BY <1>1, <1>4 DEF IInv, BillsMatchLedger, MoneyTypeOK
<1>6. ASSUME NEW p \in Orders
      PROVE  /\ bill'[p].total = bill[p].total
             /\ bill'[p].paid = bill[p].paid
             /\ bill'[p].refunded = bill[p].refunded + IF p = o THEN T ELSE 0
             /\ bill'[p] = Summary(bill'[p].total, bill'[p].paid, bill'[p].refunded)
             /\ p # o => bill'[p] = bill[p]
  <2>1. bill'[p] = IF p = o THEN Summary(bill[o].total, bill[o].paid, bill[o].refunded + T)
                   ELSE bill[p]
    BY <1>1 DEF IInv, BillsMatchLedger, MoneyTypeOK
  <2>2. CASE p = o
    BY <1>3, <2>1, <2>2 DEF Summary
  <2>3. CASE p # o
    BY <1>3, <2>1, <2>3
  <2> QED
    BY <2>2, <2>3
<1>7. ASSUME NEW p \in Orders
      PROVE  bill'[p].paid = PaidOf(p)' /\ bill'[p].refunded = RefundedOf(p)'
  <2>1. bill[p].paid = PaidOf(p) /\ bill[p].refunded = RefundedOf(p)
    BY DEF IInv, BillsMatchLedger
  <2>2. PaidOf(p)' = PaidOf(p) /\ RefundedOf(p)' = RefundedOf(p) + IF p = o THEN T ELSE 0
    BY GiveBackLedger DEF T
  <2> QED
    BY <1>6, <2>1, <2>2
<1>8. ASSUME NEW p \in Orders
      PROVE  NetPaid(p)' = NetPaid(p) - IF p = o THEN T ELSE 0
  BY <1>2, <1>3, <1>6 DEF NetPaid
<1>9. NeverOverpaid'
  <2>1. ASSUME NEW p \in Orders PROVE NetPaid(p)' \in 0..bill'[p].total
    <3>1. NetPaid(p) \in 0..bill[p].total
      BY DEF IInv, NeverOverpaid
    <3>2. p = o => T <= NetPaid(p)
      BY <1>2, <1>3 DEF NetPaid
    <3> QED
      BY <1>2, <1>3, <1>6, <1>8, <3>1, <3>2, CapacityIsNat
  <2>2. ASSUME NEW a \in Allocations PROVE GivenBack(a)' <= allocated'[a]
    <3>1. GivenBack(a)' \in 0..allocated[a] /\ allocated[a] \in 0..Capacity
      BY GiveBackLedger DEF IInv, BillsMatchLedger, MoneyTypeOK
    <3> QED
      BY <3>1, CapacityIsNat
  <2> QED
    BY <2>1, <2>2 DEF NeverOverpaid
<1> QED
  BY <1>5, <1>6, <1>7, <1>8, <1>9 DEF T

-----------------------------------------------------------------------------
(* Every action preserves the invariant. *)

LEMMA InitIsGood == MoneyInit => IInv
<1> SUFFICES ASSUME MoneyInit PROVE IInv
  OBVIOUS
<1>1. MoneyTypeOK
  <2>1. NewBill(0) \in Bill
    BY NewBillIsSummary, CapacityIsNat
  <2>2. 0 \in 0..Capacity
    BY CapacityIsNat
  <2> QED
    BY <2>1, <2>2 DEF MoneyInit, MoneyTypeOK, IssueRow
<1>2. \A a \in Allocations : GivenBack(a) = 0
  <2> TAKE a \in Allocations
  <2> DEFINE f == [x \in Sources |-> given[<<a, x>>]]
  <2>1. \A x \in Sources : f[x] = 0
    BY DEF MoneyInit
  <2> HIDE DEF f
  <2>2. Total(f, Sources) = 0
    BY <2>1, TotalOfZeros
  <2> QED
    BY <2>2 DEF GivenBack, f
<1>3. \A o \in Orders : PaidOf(o) = 0 /\ RefundedOf(o) = 0
  <2> TAKE o \in Orders
  <2> DEFINE f == [s \in Settlements |-> allocated[<<s, o>>]]
             g == [s \in Settlements |-> GivenBack(<<s, o>>)]
  <2>1. \A s \in Settlements : f[s] = 0 /\ g[s] = 0
    BY <1>2 DEF MoneyInit, Allocations
  <2> HIDE DEF f, g
  <2>2. Total(f, Settlements) = 0 /\ Total(g, Settlements) = 0
    BY <2>1, TotalOfZeros
  <2> QED
    BY <2>2 DEF PaidOf, RefundedOf, f, g
<1>4. \A i \in Issues : GivenFor(i) = 0
  <2> TAKE i \in Issues
  <2> DEFINE f == [a \in Allocations |-> given[<<a, i>>]]
  <2>1. \A a \in Allocations : f[a] = 0
    BY DEF MoneyInit, Sources
  <2> HIDE DEF f
  <2>2. Total(f, Allocations) = 0
    BY <2>1, TotalOfZeros
  <2> QED
    BY <2>2 DEF GivenFor, f
<1>5. BillsMatchLedger
  BY <1>1, <1>3 DEF BillsMatchLedger, MoneyInit, NewBill
<1>6. BillsFollowFigures
  <2>1. NewBill(0) = Summary(0, 0, 0)
    BY NewBillIsSummary, CapacityIsNat
  <2> QED
    BY <2>1 DEF BillsFollowFigures, MoneyInit, NewBill, Allocations
<1>7. NeverOverpaid
  BY <1>2 DEF NeverOverpaid, MoneyInit, NetPaid, NewBill
<1>8. CancelledHoldsNoMoney
  BY DEF CancelledHoldsNoMoney, MoneyInit
<1>9. UndecidedIssuesAreEmpty
  BY NoOrderIsNone DEF UndecidedIssuesAreEmpty, MoneyInit
<1>10. IssuesMatchRefunds
  <2>1. \A a \in Allocations, i \in Issues : given[<<a, i>>] = 0
    BY DEF MoneyInit, Sources
  <2> QED
    BY <1>4, <2>1 DEF IssuesMatchRefunds, MoneyInit
<1> QED
  BY <1>5, <1>6, <1>7, <1>8, <1>9, <1>10 DEF IInv

LEMMA PlaceOrderStep ==
    ASSUME IInv, NEW o \in Orders, NEW total \in Totals, PlaceOrder(o, total)
    PROVE  IInv'
<1>1. /\ MoneyTypeOK /\ status[o] = "ABSENT"
      /\ bill[o].total = 0 /\ bill[o].paid = 0 /\ bill[o].refunded = 0
  <2>1. MoneyTypeOK /\ status[o] = "ABSENT"
    BY DEF IInv, BillsMatchLedger, PlaceOrder
  <2>2. \A s \in Settlements : /\ allocated[<<s, o>>] = 0 /\ GivenBack(<<s, o>>) = 0
    <3> TAKE s \in Settlements
    <3>1. <<s, o>> \in Allocations
      BY DEF Allocations
    <3>2. allocated[<<s, o>>] = 0
      BY <2>1 DEF IInv, BillsFollowFigures
    <3>3. GivenBack(<<s, o>>) \in 0..Capacity /\ GivenBack(<<s, o>>) <= allocated[<<s, o>>]
      BY <2>1, <3>1, AllocationFacts DEF IInv, NeverOverpaid
    <3> QED
      BY <3>2, <3>3, CapacityIsNat
  <2> DEFINE f == [s \in Settlements |-> allocated[<<s, o>>]]
             g == [s \in Settlements |-> GivenBack(<<s, o>>)]
  <2>3. \A s \in Settlements : f[s] = 0 /\ g[s] = 0
    BY <2>2
  <2>4. PaidOf(o) = Total(f, Settlements) /\ RefundedOf(o) = Total(g, Settlements)
    BY DEF PaidOf, RefundedOf
  <2> HIDE DEF f, g
  <2>5. Total(f, Settlements) = 0 /\ Total(g, Settlements) = 0
    BY <2>3, TotalOfZeros
  <2> QED
    BY <2>1, <2>4, <2>5 DEF IInv, BillsMatchLedger, BillsFollowFigures
<1>2. UNCHANGED <<allocated, given, issue>>
  BY DEF PlaceOrder
<1>3. /\ status' = [status EXCEPT ![o] = "NEW"] /\ bill' = [bill EXCEPT ![o] = NewBill(total)]
      /\ status \in [Orders -> Statuses \cup {"ABSENT"}] /\ bill \in [Orders -> Bill]
  BY <1>1 DEF PlaceOrder, MoneyTypeOK
<1>4. total \in 1..Capacity /\ total \in 0..Capacity
  BY TotalsFit, CapacityIsNat
<1>5. /\ NewBill(total) = Summary(total, 0, 0) /\ NewBill(total) \in Bill
      /\ NewBill(total).total = total /\ NewBill(total).paid = 0 /\ NewBill(total).refunded = 0
  BY <1>4, NewBillIsSummary DEF NewBill
<1>6. MoneyTypeOK'
  BY <1>1, <1>2, <1>3, <1>5 DEF MoneyTypeOK, Statuses
<1>7. \A p \in Orders : PaidOf(p)' = PaidOf(p) /\ RefundedOf(p)' = RefundedOf(p)
  BY <1>2 DEF PaidOf, RefundedOf, GivenBack
<1>8. BillsMatchLedger'
  BY <1>1, <1>3, <1>5, <1>6, <1>7 DEF IInv, BillsMatchLedger
<1>9. BillsFollowFigures'
  BY <1>2, <1>3, <1>4, <1>5 DEF IInv, BillsFollowFigures, Statuses
<1>10. NeverOverpaid'
  <2>1. \A p \in Orders : NetPaid(p)' \in 0..bill'[p].total
    BY <1>3, <1>4, <1>5, CapacityIsNat DEF IInv, NeverOverpaid, NetPaid
  <2>2. \A a \in Allocations : GivenBack(a)' <= allocated'[a]
    BY <1>2 DEF IInv, NeverOverpaid, GivenBack
  <2> QED
    BY <2>1, <2>2 DEF NeverOverpaid
<1>11. CancelledHoldsNoMoney'
  BY <1>3 DEF IInv, CancelledHoldsNoMoney, NetPaid
<1>12. UndecidedIssuesAreEmpty'
  BY <1>2, <1>3 DEF IInv, UndecidedIssuesAreEmpty
<1>13. IssuesMatchRefunds'
  <2>1. \A i \in Issues : issue[i].resolution # "UNDECIDED" => issue[i].order \in Orders
    BY <1>1 DEF IInv, UndecidedIssuesAreEmpty, MoneyTypeOK, IssueRow
  <2>2. \A p \in Orders : status[p] = "CANCELLED" => status'[p] = "CANCELLED"
    BY <1>1, <1>3
  <2> QED
    BY <1>2, <2>1, <2>2 DEF IInv, IssuesMatchRefunds, GivenFor
<1> QED
  BY <1>8, <1>9, <1>10, <1>11, <1>12, <1>13 DEF IInv

\* A call that moves no money leaves the ledger and the bills in agreement.
LEMMA NoMoneyMoves ==
    ASSUME IInv, UNCHANGED <<bill, allocated, given>>,
           status' \in [Orders -> Statuses \cup {"ABSENT"}], issue' \in [Issues -> IssueRow],
           \A o \in Orders : status'[o] = "ABSENT" <=> status[o] = "ABSENT",
           \A o \in Orders : status'[o] = "CANCELLED" => NetPaid(o) = 0
    PROVE  /\ BillsMatchLedger' /\ BillsFollowFigures' /\ NeverOverpaid' /\ CancelledHoldsNoMoney'
           /\ \A i \in Issues : GivenFor(i)' = GivenFor(i)
<1>1. MoneyTypeOK'
  BY DEF IInv, BillsMatchLedger, MoneyTypeOK
<1>2. BillsMatchLedger'
  BY <1>1 DEF IInv, BillsMatchLedger, PaidOf, RefundedOf, GivenBack
<1>3. BillsFollowFigures'
  BY DEF IInv, BillsFollowFigures
<1>4. NeverOverpaid'
  BY DEF IInv, NeverOverpaid, NetPaid, GivenBack
<1>5. CancelledHoldsNoMoney'
  BY DEF CancelledHoldsNoMoney, NetPaid
<1>6. \A i \in Issues : GivenFor(i)' = GivenFor(i)
  BY DEF GivenFor
<1> QED
  BY <1>2, <1>3, <1>4, <1>5, <1>6

\* An issue that was raised is about a placed order, and only a decided one has a
\* resolution.
LEMMA IssueFacts ==
    ASSUME IInv, NEW i \in Issues
    PROVE  /\ issue[i] \in IssueRow
           /\ issue[i].status # "NONE" => /\ issue[i].order \in Orders
                                          /\ status[issue[i].order] # "ABSENT"
           /\ issue[i].status # "RESOLVED" => issue[i].approved = 0 /\ GivenFor(i) = 0
           /\ issue[i].resolution # "UNDECIDED" => issue[i].order \in Orders
<1>1. issue[i] \in IssueRow /\ issue[i].approved \in 0..Capacity
  BY DEF IInv, BillsMatchLedger, MoneyTypeOK, IssueRow
<1>2. issue[i].status # "NONE" => issue[i].order \in Orders /\ status[issue[i].order] # "ABSENT"
  BY <1>1 DEF IInv, UndecidedIssuesAreEmpty, IssueRow
<1>3. issue[i].status # "RESOLVED" => ~(issue[i].approved > 0) /\ GivenFor(i) = issue[i].approved
  BY DEF IInv, UndecidedIssuesAreEmpty, IssuesMatchRefunds
<1>4. issue[i].resolution # "UNDECIDED" => issue[i].order \in Orders
  BY <1>2 DEF IInv, UndecidedIssuesAreEmpty
<1> QED
  BY <1>1, <1>2, <1>3, <1>4, CapacityIsNat

LEMMA KitchenStep ==
    ASSUME IInv, NEW o \in Orders,
           KitchenCancel(o) \/ \E to \in Statuses : KitchenMove(o, to)
    PROVE  IInv'
<1>1. /\ status \in [Orders -> Statuses \cup {"ABSENT"}] /\ issue \in [Issues -> IssueRow]
      /\ NetPaid(o) \in 0..Capacity
  BY HeldIsRefundable DEF IInv, BillsMatchLedger, MoneyTypeOK
<1>2. UNCHANGED <<bill, allocated, given, issue>>
  BY DEF KitchenCancel, KitchenMove
<1>3. \E to \in Statuses : /\ status' = [status EXCEPT ![o] = to]
                           /\ status[o] \notin {"ABSENT", "CANCELLED"}
                           /\ to = "CANCELLED" => NetPaid(o) = 0
  <2>1. CASE KitchenCancel(o)
    <3>1. NetPaid(o) = 0
      BY <1>1, <2>1, CapacityIsNat DEF KitchenCancel
    <3> QED
      BY <2>1, <3>1 DEF KitchenCancel, Statuses
  <2>2. CASE \E to \in Statuses : KitchenMove(o, to)
    BY <2>2 DEF KitchenMove, Transitions
  <2> QED
    BY <2>1, <2>2
<1>4. PICK to \in Statuses : /\ status' = [status EXCEPT ![o] = to]
                             /\ status[o] \notin {"ABSENT", "CANCELLED"}
                             /\ to = "CANCELLED" => NetPaid(o) = 0
  BY <1>3
<1>5. /\ status' \in [Orders -> Statuses \cup {"ABSENT"}] /\ to # "ABSENT"
      /\ \A p \in Orders : status'[p] = "ABSENT" <=> status[p] = "ABSENT"
      /\ \A p \in Orders : status[p] = "CANCELLED" => status'[p] = "CANCELLED"
      /\ \A p \in Orders : status'[p] = "CANCELLED" => NetPaid(p) = 0
  BY <1>1, <1>4 DEF Statuses, IInv, CancelledHoldsNoMoney
<1>6. /\ BillsMatchLedger' /\ BillsFollowFigures' /\ NeverOverpaid' /\ CancelledHoldsNoMoney'
      /\ \A i \in Issues : GivenFor(i)' = GivenFor(i)
  BY <1>1, <1>2, <1>5, NoMoneyMoves
<1>7. UndecidedIssuesAreEmpty'
  BY <1>2, <1>5 DEF IInv, UndecidedIssuesAreEmpty
<1>8. IssuesMatchRefunds'
  BY <1>2, <1>5, <1>6, IssueFacts DEF IInv, IssuesMatchRefunds
<1> QED
  BY <1>6, <1>7, <1>8 DEF IInv

\* The whole-table settlement and the single payment both pay at most the balance.
LEMMA CashierStep ==
    ASSUME IInv, Cashier
    PROVE  IInv'
<1>1. \A o \in Orders : Outstanding(o) \in 0..Capacity
  <2> TAKE o \in Orders
  <2>1. NetPaid(o) \in 0..bill[o].total /\ bill[o].total \in 0..Capacity
    BY DEF IInv, BillsMatchLedger, MoneyTypeOK, Bill, NeverOverpaid
  <2> QED
    BY <2>1, CapacityIsNat DEF Outstanding
<1>2. ASSUME NEW s \in Settlements, NEW O \in SUBSET Orders, CollectSettlement(s, O)
      PROVE  IInv'
  <2> DEFINE due == [o \in Orders |-> IF o \in O THEN Outstanding(o) ELSE 0]
  <2>1. due \in [Orders -> 0..Capacity]
    BY <1>1, CapacityIsNat
  <2>2. \A o \in Orders : due[o] <= Outstanding(o) /\ (due[o] > 0 => Open(o))
    BY <1>1, <1>2, CapacityIsNat DEF CollectSettlement
  <2>3. Collect(s, due)
    BY <1>2 DEF CollectSettlement
  <2> HIDE DEF due
  <2> QED
    BY <2>1, <2>2, <2>3, CollectKeeps
<1>3. ASSUME NEW s \in Settlements, NEW o \in Orders, NEW amount \in Amounts \cup {Outstanding(o)},
             CollectOrderPayment(s, o, amount)
      PROVE  IInv'
  <2> DEFINE due == [p \in Orders |-> IF p = o THEN amount ELSE 0]
  <2>1. amount \in 0..Capacity /\ amount <= Outstanding(o)
    BY <1>1, <1>3, AmountsFit, CapacityIsNat DEF CollectOrderPayment
  <2>2. due \in [Orders -> 0..Capacity]
    BY <2>1, CapacityIsNat
  <2>3. \A p \in Orders : due[p] <= Outstanding(p) /\ (due[p] > 0 => Open(p))
    BY <1>1, <1>3, <2>1, CapacityIsNat DEF CollectOrderPayment
  <2>4. Collect(s, due)
    BY <1>3 DEF CollectOrderPayment
  <2> HIDE DEF due
  <2> QED
    BY <2>2, <2>3, <2>4, CollectKeeps
<1> QED
  BY <1>2, <1>3 DEF Cashier

\* The till gives back within one allocation; a cancelled order has none left to give.
LEMMA RefundAllocationFacts ==
    ASSUME IInv, NEW a \in Allocations, NEW amount \in Amounts, RefundAllocation(a, amount)
    PROVE  LET take == [s \in Settlements |-> IF s = a[1] THEN amount ELSE 0] IN
           /\ a[2] \in Orders /\ status[a[2]] # "CANCELLED"
           /\ take \in [Settlements -> 0..Capacity]
           /\ \A s \in Settlements : take[s] <= Refundable(<<s, a[2]>>)
           /\ GiveBack(a[2], Till, take)
<1> DEFINE take == [s \in Settlements |-> IF s = a[1] THEN amount ELSE 0]
<1>1. a[1] \in Settlements /\ a[2] \in Orders /\ a = <<a[1], a[2]>>
  BY DEF Allocations
<1>2. amount \in 1..Capacity /\ amount \in 0..Capacity /\ amount <= Refundable(a)
  BY AmountsFit, CapacityIsNat DEF RefundAllocation
<1>3. take \in [Settlements -> 0..Capacity]
  BY <1>2, CapacityIsNat
<1>4. ASSUME NEW s \in Settlements PROVE take[s] <= Refundable(<<s, a[2]>>)
  <2>1. <<s, a[2]>> \in Allocations
    BY <1>1 DEF Allocations
  <2>2. Refundable(<<s, a[2]>>) \in 0..Capacity
    BY <2>1, AllocationFacts DEF IInv, BillsMatchLedger
  <2>3. s = a[1] => <<s, a[2]>> = a
    BY <1>1
  <2> QED
    BY <1>2, <2>2, <2>3, CapacityIsNat
<1>5. status[a[2]] # "CANCELLED"
  <2>1. Refundable(<<a[1], a[2]>>) <= NetPaid(a[2]) /\ NetPaid(a[2]) \in 0..Capacity
    BY <1>1, HeldIsRefundable DEF IInv, BillsMatchLedger
  <2>2. NetPaid(a[2]) # 0
    BY <1>1, <1>2, <2>1, AllocationFacts, CapacityIsNat DEF IInv, BillsMatchLedger
  <2> QED
    BY <1>1, <2>2 DEF IInv, CancelledHoldsNoMoney
<1> QED
  BY <1>1, <1>3, <1>4, <1>5 DEF RefundAllocation

LEMMA RefundAllocationStep ==
    ASSUME IInv, NEW a \in Allocations, NEW amount \in Amounts, RefundAllocation(a, amount)
    PROVE  IInv'
<1> DEFINE o == a[2]
           take == [s \in Settlements |-> IF s = a[1] THEN amount ELSE 0]
<1>1. /\ o \in Orders /\ status[o] # "CANCELLED" /\ take \in [Settlements -> 0..Capacity]
      /\ \A s \in Settlements : take[s] <= Refundable(<<s, o>>)
      /\ GiveBack(o, Till, take)
  BY RefundAllocationFacts
<1>2. UNCHANGED <<status, allocated, issue>>
  BY DEF RefundAllocation
<1>3. Till \in Sources /\ \A i \in Issues : i \in Sources /\ i # Till
  BY TillIsNoIssue DEF Sources
<1> HIDE DEF take, o
<1>4. /\ given' \in [Allocations \X Sources -> 0..Capacity]
      /\ \A i \in Issues : GivenFor(i)' = GivenFor(i) + IF i = Till THEN Total(take, Settlements) ELSE 0
  BY <1>1, <1>2, <1>3, GiveBackForIssues
<1>5. /\ bill' \in [Orders -> Bill]
      /\ \A p \in Orders :
            /\ bill'[p].paid = PaidOf(p)' /\ bill'[p].refunded = RefundedOf(p)'
            /\ bill'[p] = Summary(bill'[p].total, bill'[p].paid, bill'[p].refunded)
            /\ bill'[p].total = bill[p].total
            /\ p # o => bill'[p] = bill[p]
      /\ NeverOverpaid'
  BY <1>1, <1>2, <1>3, GiveBackKeeps
<1>6. BillsMatchLedger'
  BY <1>2, <1>4, <1>5 DEF IInv, BillsMatchLedger, MoneyTypeOK
<1>7. BillsFollowFigures'
  BY <1>2, <1>5 DEF IInv, BillsFollowFigures
<1>8. CancelledHoldsNoMoney'
  BY <1>1, <1>2, <1>5 DEF IInv, CancelledHoldsNoMoney, NetPaid
<1>9. UndecidedIssuesAreEmpty'
  BY <1>2 DEF IInv, UndecidedIssuesAreEmpty
<1>10. IssuesMatchRefunds'
  <2>1. \A i \in Issues, b \in Allocations : given'[<<b, i>>] = given[<<b, i>>]
    BY <1>1, <1>3 DEF GiveBack
  <2>2. \A i \in Issues : GivenFor(i)' = GivenFor(i)
    <3>1. \A i \in Issues : GivenFor(i) \in Nat
      BY IdsFinite, TotalType DEF GivenFor
    <3> QED
      BY <1>3, <1>4, <3>1
  <2> QED
    BY <1>2, <2>1, <2>2 DEF IInv, IssuesMatchRefunds
<1> QED
  BY <1>5, <1>6, <1>7, <1>8, <1>9, <1>10 DEF IInv

\* Raising an issue, and the two decisions that give nothing back.
LEMMA IssueWithoutRefundStep ==
    ASSUME IInv, NEW i \in Issues,
           \/ \E o \in Orders : CreateIssue(i, o)
           \/ ResolveNoRefund(i)
           \/ ResolveCancelOnly(i)
    PROVE  IInv'
<1>1. /\ status \in [Orders -> Statuses \cup {"ABSENT"}] /\ issue \in [Issues -> IssueRow]
      /\ \A o \in Orders : NetPaid(o) \in 0..Capacity
  BY HeldIsRefundable DEF IInv, BillsMatchLedger, MoneyTypeOK
<1>2. UNCHANGED <<bill, allocated, given>>
  BY DEF CreateIssue, ResolveNoRefund, ResolveCancelOnly
<1>3. PICK row \in IssueRow :
         /\ issue' = [issue EXCEPT ![i] = row]
         /\ issue[i].status # "RESOLVED" /\ row.approved = 0
         /\ row.order \in Orders /\ status[row.order] # "ABSENT"
         /\ row.status # "NONE" /\ (row.status # "RESOLVED" <=> row.resolution = "UNDECIDED")
         /\ row.resolution \notin {"FULL_REFUND", "PARTIAL_REFUND"}
         /\ issue[i].status # "NONE" => row.order = issue[i].order
         /\ \/ status' = status /\ row.resolution # "CANCEL_ONLY"
            \/ /\ row.resolution = "CANCEL_ONLY" /\ NetPaid(row.order) = 0
               /\ status' = [status EXCEPT ![row.order] = "CANCELLED"]
  <2>1. CASE \E o \in Orders : CreateIssue(i, o)
    <3>1. PICK o \in Orders : CreateIssue(i, o)
      BY <2>1
    <3> DEFINE row == [order |-> o, status |-> "OPEN", resolution |-> "UNDECIDED", approved |-> 0]
    <3>2. row \in IssueRow
      BY CapacityIsNat DEF IssueRow
    <3>3. /\ issue' = [issue EXCEPT ![i] = row] /\ issue[i].status = "NONE"
          /\ status[o] # "ABSENT" /\ status' = status
      BY <3>1 DEF CreateIssue
    <3> QED
      BY <3>2, <3>3
  <2>2. CASE ResolveNoRefund(i)
    <3> DEFINE row == [order |-> issue[i].order, status |-> "RESOLVED",
                       resolution |-> "NO_REFUND", approved |-> 0]
    <3>1. /\ issue' = [issue EXCEPT ![i] = row] /\ issue[i].status = "OPEN" /\ status' = status
      BY <2>2 DEF ResolveNoRefund, Resolve
    <3>2. issue[i].order \in Orders /\ status[issue[i].order] # "ABSENT"
      BY <3>1, IssueFacts
    <3>3. row \in IssueRow
      BY <3>2, CapacityIsNat DEF IssueRow, Resolutions
    <3> QED
      BY <3>1, <3>2, <3>3
  <2>3. CASE ResolveCancelOnly(i)
    <3> DEFINE row == [order |-> issue[i].order, status |-> "RESOLVED",
                       resolution |-> "CANCEL_ONLY", approved |-> 0]
    <3>1. /\ issue' = [issue EXCEPT ![i] = row] /\ issue[i].status = "OPEN"
          /\ NetPaid(issue[i].order) <= 0
          /\ status' = [status EXCEPT ![issue[i].order] = "CANCELLED"]
      BY <2>3 DEF ResolveCancelOnly, Resolve, CancelOrder
    <3>2. issue[i].order \in Orders /\ status[issue[i].order] # "ABSENT"
      BY <3>1, IssueFacts
    <3>3. NetPaid(issue[i].order) = 0
      BY <1>1, <3>1, <3>2, CapacityIsNat
    <3>4. row \in IssueRow
      BY <3>2, CapacityIsNat DEF IssueRow, Resolutions
    <3> QED
      BY <3>1, <3>2, <3>3, <3>4
  <2> QED
    BY <2>1, <2>2, <2>3
<1>4. /\ issue' \in [Issues -> IssueRow] /\ issue'[i] = row
      /\ \A j \in Issues : j # i => issue'[j] = issue[j]
  BY <1>1, <1>3
<1>5. /\ status' \in [Orders -> Statuses \cup {"ABSENT"}]
      /\ \A p \in Orders : status'[p] = "ABSENT" <=> status[p] = "ABSENT"
      /\ \A p \in Orders : status[p] = "CANCELLED" => status'[p] = "CANCELLED"
      /\ \A p \in Orders : status'[p] = "CANCELLED" => NetPaid(p) = 0
      /\ row.resolution = "CANCEL_ONLY" => status'[row.order] = "CANCELLED"
  BY <1>1, <1>3 DEF Statuses, IInv, CancelledHoldsNoMoney
<1>6. /\ BillsMatchLedger' /\ BillsFollowFigures' /\ NeverOverpaid' /\ CancelledHoldsNoMoney'
      /\ \A j \in Issues : GivenFor(j)' = GivenFor(j)
  BY <1>2, <1>4, <1>5, NoMoneyMoves
<1>7. UndecidedIssuesAreEmpty'
  <2>1. row.order # NoOrder
    BY <1>3, NoOrderIsNone
  <2> QED
    BY <1>3, <1>4, <1>5, <2>1 DEF IInv, UndecidedIssuesAreEmpty
<1>8. IssuesMatchRefunds'
  <2>1. GivenFor(i) = 0
    BY <1>3, IssueFacts
  <2>2. ASSUME NEW b \in Allocations, given[<<b, i>>] > 0 PROVE b[2] = row.order
    <3>1. b[2] = issue[i].order /\ b[2] \in Orders
      BY <2>2 DEF IInv, IssuesMatchRefunds, Allocations
    <3>2. issue[i].status # "NONE"
      BY <3>1, NoOrderIsNone DEF IInv, UndecidedIssuesAreEmpty
    <3> QED
      BY <1>3, <3>1, <3>2
  <2>3. \A j \in Issues : issue[j].resolution # "UNDECIDED" => issue[j].order \in Orders
    BY IssueFacts
  <2>4. ASSUME NEW j \in Issues, j # i
        PROVE  /\ GivenFor(j)' = issue'[j].approved
               /\ \A b \in Allocations : given'[<<b, j>>] > 0 => b[2] = issue'[j].order
               /\ issue'[j].approved > 0 <=> issue'[j].resolution \in {"FULL_REFUND", "PARTIAL_REFUND"}
               /\ issue'[j].resolution \in {"FULL_REFUND", "CANCEL_ONLY"} =>
                     status'[issue'[j].order] = "CANCELLED"
    BY <1>2, <1>4, <1>5, <1>6, <2>3, <2>4 DEF IInv, IssuesMatchRefunds
  <2>5. /\ GivenFor(i)' = issue'[i].approved
        /\ \A b \in Allocations : given'[<<b, i>>] > 0 => b[2] = issue'[i].order
        /\ issue'[i].approved > 0 <=> issue'[i].resolution \in {"FULL_REFUND", "PARTIAL_REFUND"}
        /\ issue'[i].resolution \in {"FULL_REFUND", "CANCEL_ONLY"} =>
              status'[issue'[i].order] = "CANCELLED"
    BY <1>2, <1>3, <1>4, <1>5, <1>6, <2>1, <2>2
  <2> QED
    BY <2>4, <2>5 DEF IssuesMatchRefunds
<1> QED
  BY <1>6, <1>7, <1>8 DEF IInv

\* The two decisions that give money back: the share of the allocations adds up to
\* what was approved, and nothing was given in the issue's name before.
LEMMA IssueRefundStep ==
    ASSUME IInv, NEW i \in Issues,
           ResolveFullRefund(i) \/ \E approved \in Amounts : ResolvePartialRefund(i, approved)
    PROVE  IInv'
<1> DEFINE o == issue[i].order
<1>1. /\ status \in [Orders -> Statuses \cup {"ABSENT"}] /\ issue \in [Issues -> IssueRow]
      /\ MoneyTypeOK /\ BillsMatchLedger /\ NeverOverpaid
  BY DEF IInv, BillsMatchLedger, MoneyTypeOK
<1>2. PICK amount, resolution :
         /\ resolution \in {"FULL_REFUND", "PARTIAL_REFUND"}
         /\ Resolve(i, resolution, amount)
         /\ amount \in Int /\ amount <= NetPaid(o)
         /\ CreateIssueRefunds(o, i, amount)
         /\ allocated' = allocated
         /\ \/ status' = status /\ resolution = "PARTIAL_REFUND"
            \/ status' = [status EXCEPT ![o] = "CANCELLED"] /\ amount = NetPaid(o)
  <2>1. o \in Orders
    BY IssueFacts DEF ResolveFullRefund, ResolvePartialRefund, Resolve
  <2>2. NetPaid(o) \in 0..Capacity
    BY <1>1, <2>1, HeldIsRefundable
  <2>3. CASE ResolveFullRefund(i)
    <3>1. NetPaid(o) \in Int /\ NetPaid(o) <= NetPaid(o)
      BY <2>2
    <3> QED
      BY <2>3, <3>1 DEF ResolveFullRefund, CancelOrder
  <2>4. CASE \E approved \in Amounts : ResolvePartialRefund(i, approved)
    <3>1. PICK approved \in Amounts : ResolvePartialRefund(i, approved)
      BY <2>4
    <3>2. approved \in Int
      BY AmountsFit, CapacityIsNat
    <3> QED
      BY <3>1, <3>2 DEF ResolvePartialRefund
  <2> QED
    BY <2>3, <2>4
<1>3. /\ o \in Orders /\ status[o] # "ABSENT" /\ issue[i].status = "OPEN"
      /\ issue[i].approved = 0 /\ GivenFor(i) = 0 /\ i \in Sources
  BY <1>2, IssueFacts DEF Resolve, Sources
<1>4. /\ NetPaid(o) \in 0..Capacity /\ amount \in 1..Capacity
      /\ amount <= Total(RefundablesOf(o), Settlements)
  <2>1. NetPaid(o) \in 0..Capacity
    BY <1>1, <1>3, HeldIsRefundable
  <2> QED
    BY <1>2, <2>1, CapacityIsNat DEF CreateIssueRefunds
<1> DEFINE take == Share(o, amount)
<1>5. /\ take \in [Settlements -> 0..Capacity]
      /\ \A s \in Settlements : take[s] <= Refundable(<<s, o>>)
      /\ Total(take, Settlements) = amount
  BY <1>1, <1>3, <1>4, ShareAddsUp
<1>6. GiveBack(o, i, take)
  BY <1>2 DEF CreateIssueRefunds
<1> DEFINE row == [order |-> issue[i].order, status |-> "RESOLVED",
                   resolution |-> resolution, approved |-> amount]
<1>7. /\ issue' = [issue EXCEPT ![i] = row] /\ row \in IssueRow
  BY <1>2, <1>3, <1>4, CapacityIsNat DEF Resolve, IssueRow, Resolutions
<1>8. /\ issue' \in [Issues -> IssueRow] /\ issue'[i] = row
      /\ \A j \in Issues : j # i => issue'[j] = issue[j]
  BY <1>1, <1>7
<1>9. /\ row.order = o /\ row.status = "RESOLVED" /\ row.approved = amount
      /\ row.resolution \in {"FULL_REFUND", "PARTIAL_REFUND"}
      /\ row.resolution = "FULL_REFUND" => status' = [status EXCEPT ![o] = "CANCELLED"]
  BY <1>2
<1> HIDE DEF take, row, o
<1>10. /\ given' \in [Allocations \X Sources -> 0..Capacity]
       /\ \A j \in Issues : GivenFor(j)' = GivenFor(j) + IF j = i THEN amount ELSE 0
  <2>1. allocated' = allocated
    BY <1>2
  <2>2. /\ given' \in [Allocations \X Sources -> 0..Capacity]
        /\ \A j \in Issues : GivenFor(j)' = GivenFor(j)
                                + IF j = i THEN Total(take, Settlements) ELSE 0
    BY <1>3, <1>5, <1>6, <2>1, GiveBackForIssues
  <2> QED
    BY <1>5, <2>2
<1>11. /\ bill' \in [Orders -> Bill]
       /\ \A p \in Orders :
             /\ bill'[p].paid = PaidOf(p)' /\ bill'[p].refunded = RefundedOf(p)'
             /\ bill'[p] = Summary(bill'[p].total, bill'[p].paid, bill'[p].refunded)
             /\ bill'[p].total = bill[p].total
             /\ p # o => bill'[p] = bill[p]
             /\ NetPaid(p)' = NetPaid(p) - IF p = o THEN amount ELSE 0
       /\ NeverOverpaid'
  BY <1>2, <1>3, <1>5, <1>6, GiveBackKeeps
<1>12. /\ status' \in [Orders -> Statuses \cup {"ABSENT"}]
       /\ \A p \in Orders : status'[p] = "ABSENT" <=> status[p] = "ABSENT"
       /\ \A p \in Orders : status[p] = "CANCELLED" => status'[p] = "CANCELLED"
       /\ \A p \in Orders : status'[p] = "CANCELLED" /\ p # o => status[p] = "CANCELLED"
       /\ row.resolution = "FULL_REFUND" => status'[o] = "CANCELLED"
  BY <1>1, <1>2, <1>3, <1>9 DEF Statuses, o
<1>13. BillsMatchLedger'
  BY <1>1, <1>2, <1>8, <1>10, <1>11, <1>12 DEF BillsMatchLedger, MoneyTypeOK
<1>14. BillsFollowFigures'
  BY <1>2, <1>11, <1>12 DEF IInv, BillsFollowFigures
<1>15. CancelledHoldsNoMoney'
  <2> SUFFICES ASSUME NEW p \in Orders, status'[p] = "CANCELLED"
               PROVE  NetPaid(p)' = 0
    BY DEF CancelledHoldsNoMoney
  <2>1. CASE p # o
    <3>1. NetPaid(p) = 0
      BY <1>12, <2>1 DEF IInv, CancelledHoldsNoMoney
    <3> QED
      BY <1>11, <2>1, <3>1
  <2>2. CASE p = o
    <3>1. status[o] # "CANCELLED"
      <4>1. NetPaid(o) # 0
        BY <1>2, <1>4, CapacityIsNat DEF o
      <4> QED
        BY <1>3, <4>1 DEF IInv, CancelledHoldsNoMoney, o
    <3>2. amount = NetPaid(o)
      BY <1>2, <2>2, <3>1 DEF o
    <3> QED
      BY <1>4, <1>11, <2>2, <3>2, CapacityIsNat
  <2> QED
    BY <2>1, <2>2
<1>16. UndecidedIssuesAreEmpty'
  <2>1. o # NoOrder /\ o \in Orders /\ status[o] # "ABSENT"
    BY <1>3, NoOrderIsNone DEF o
  <2> QED
    BY <1>8, <1>9, <1>12, <2>1 DEF IInv, UndecidedIssuesAreEmpty
<1>17. IssuesMatchRefunds'
  <2>1. \A j \in Issues : GivenFor(j) \in Nat
    BY IdsFinite, TotalType DEF GivenFor
  <2>2. \A j \in Issues : issue[j].resolution # "UNDECIDED" => issue[j].order \in Orders
    BY IssueFacts
  <2>3. ASSUME NEW j \in Issues, NEW b \in Allocations
        PROVE  given'[<<b, j>>] = given[<<b, j>>] \/ (j = i /\ b[2] = o)
    <3>1. j \in Sources
      BY DEF Sources
    <3> QED
      BY <1>6, <3>1 DEF GiveBack
  <2>4. ASSUME NEW j \in Issues, j # i
        PROVE  /\ GivenFor(j)' = issue'[j].approved
               /\ \A b \in Allocations : given'[<<b, j>>] > 0 => b[2] = issue'[j].order
               /\ issue'[j].approved > 0 <=> issue'[j].resolution \in {"FULL_REFUND", "PARTIAL_REFUND"}
               /\ issue'[j].resolution \in {"FULL_REFUND", "CANCEL_ONLY"} =>
                     status'[issue'[j].order] = "CANCELLED"
    <3>1. GivenFor(j)' = GivenFor(j)
      BY <1>10, <2>1, <2>4
    <3> QED
      BY <1>8, <1>12, <2>2, <2>3, <2>4, <3>1 DEF IInv, IssuesMatchRefunds
  <2>5. /\ GivenFor(i)' = issue'[i].approved
        /\ \A b \in Allocations : given'[<<b, i>>] > 0 => b[2] = issue'[i].order
        /\ issue'[i].approved > 0 <=> issue'[i].resolution \in {"FULL_REFUND", "PARTIAL_REFUND"}
        /\ issue'[i].resolution \in {"FULL_REFUND", "CANCEL_ONLY"} =>
              status'[issue'[i].order] = "CANCELLED"
    <3>1. GivenFor(i)' = amount /\ amount > 0
      BY <1>3, <1>4, <1>10, CapacityIsNat
    <3>2. \A b \in Allocations : given'[<<b, i>>] > 0 => b[2] = o
      BY <2>3 DEF IInv, IssuesMatchRefunds, o
    <3> QED
      BY <1>8, <1>9, <1>12, <3>1, <3>2
  <2> QED
    BY <2>4, <2>5 DEF IssuesMatchRefunds
<1> QED
  BY <1>11, <1>13, <1>14, <1>15, <1>16, <1>17 DEF IInv

LEMMA StepIsGood == IInv /\ [MoneyNext]_moneyVars => IInv'
<1> SUFFICES ASSUME IInv, [MoneyNext]_moneyVars PROVE IInv'
  OBVIOUS
<1>1. CASE \E o \in Orders, total \in Totals : PlaceOrder(o, total)
  BY <1>1, PlaceOrderStep
<1>2. CASE \E o \in Orders, to \in Statuses : KitchenMove(o, to)
  BY <1>2, KitchenStep
<1>3. CASE \E o \in Orders : KitchenCancel(o)
  BY <1>3, KitchenStep
<1>4. CASE Cashier
  BY <1>4, CashierStep
<1>5. CASE Supervisor
  <2>1. CASE \E a \in Allocations, amount \in Amounts : RefundAllocation(a, amount)
    BY <2>1, RefundAllocationStep
  <2>2. ASSUME NEW i \in Issues,
               \/ \E o \in Orders : CreateIssue(i, o)
               \/ ResolveNoRefund(i)
               \/ ResolveCancelOnly(i)
        PROVE  IInv'
    BY <2>2, IssueWithoutRefundStep
  <2>3. ASSUME NEW i \in Issues,
               ResolveFullRefund(i) \/ \E approved \in Amounts : ResolvePartialRefund(i, approved)
        PROVE  IInv'
    BY <2>3, IssueRefundStep
  <2> QED
    BY <1>5, <2>1, <2>2, <2>3 DEF Supervisor
<1>6. CASE UNCHANGED moneyVars
  <2>1. IInv' = IInv
    BY <1>6 DEF moneyVars, IInv, BillsMatchLedger, MoneyTypeOK, BillsFollowFigures, NeverOverpaid,
                CancelledHoldsNoMoney, UndecidedIssuesAreEmpty, IssuesMatchRefunds, GivenFor,
                NetPaid, PaidOf, RefundedOf, GivenBack
  <2> QED
    BY <2>1
<1> QED
  BY <1>1, <1>2, <1>3, <1>4, <1>5, <1>6 DEF MoneyNext

-----------------------------------------------------------------------------
(* The theorems *)

\* In every reachable state the books are in order: the inductive invariant itself.
THEOREM BooksAreInOrder == MoneySpec => []IInv
<1>1. MoneyInit => IInv
  BY InitIsGood
<1>2. IInv /\ [MoneyNext]_moneyVars => IInv'
  BY StepIsGood
<1> QED
  BY <1>1, <1>2, PTL DEF MoneySpec

\* The tables hold what they may hold and each order's paid and refunded figures are
\* the sums of its ledger, for any number of settlements and issues, through
\* collect_settlement, refund_allocation and create_issue_refunds.
THEOREM LedgerIsTheBill == MoneySpec => []BillsMatchLedger
<1>1. IInv => BillsMatchLedger
  BY DEF IInv
<1> QED
  BY <1>1, BooksAreInOrder, PTL

\* A shop never holds more than an order costs and never gives back more of a payment
\* than the payment was: the services' gates are enough, the CHECK constraints of
\* orders and the guard at the end of _do_collect never fire.
THEOREM GatesAreEnough == MoneySpec => []NeverOverpaid
<1>1. IInv => NeverOverpaid
  BY DEF IInv
<1> QED
  BY <1>1, BooksAreInOrder, PTL

\* A cancelled order holds no collected money, whether the kitchen or an issue
\* cancelled it and whatever the till did around it.
THEOREM NothingHeldForCancelled == MoneySpec => []CancelledHoldsNoMoney
<1>1. IInv => CancelledHoldsNoMoney
  BY DEF IInv
<1> QED
  BY <1>1, BooksAreInOrder, PTL

\* What an issue approved is what was given back in its name, of its own order, and a
\* full refund or a cancellation ended the order.
THEOREM IssuesAreTrue == MoneySpec => []IssuesMatchRefunds
<1>1. IInv => IssuesMatchRefunds
  BY DEF IInv
<1> QED
  BY <1>1, BooksAreInOrder, PTL

LEMMA CancelledStepIsClosed ==
    ASSUME IInv, MoneyNext, NEW o \in Orders, status[o] = "CANCELLED"
    PROVE  status'[o] = "CANCELLED" /\ bill'[o] = bill[o]
<1>0. /\ status \in [Orders -> Statuses \cup {"ABSENT"}] /\ bill \in [Orders -> Bill]
      /\ NetPaid(o) = 0
  BY DEF IInv, BillsMatchLedger, MoneyTypeOK, CancelledHoldsNoMoney
<1>1. CASE \E p \in Orders, total \in Totals : PlaceOrder(p, total)
  BY <1>0, <1>1 DEF PlaceOrder
<1>2. CASE \E p \in Orders, to \in Statuses : KitchenMove(p, to)
  BY <1>0, <1>2 DEF KitchenMove, Transitions
<1>3. CASE \E p \in Orders : KitchenCancel(p)
  BY <1>0, <1>3 DEF KitchenCancel
<1>4. CASE Cashier
  <2>1. ASSUME NEW s \in Settlements, NEW O \in SUBSET Orders, CollectSettlement(s, O)
        PROVE  status' = status /\ bill'[o] = bill[o]
    <3>1. o \notin O
      BY <2>1 DEF CollectSettlement, Open
    <3> QED
      BY <2>1, <3>1 DEF CollectSettlement, Collect
  <2>2. ASSUME NEW s \in Settlements, NEW p \in Orders, NEW amount, CollectOrderPayment(s, p, amount)
        PROVE  status' = status /\ bill'[o] = bill[o]
    <3>1. o # p
      BY <2>2 DEF CollectOrderPayment, Open
    <3> QED
      BY <2>2, <3>1 DEF CollectOrderPayment, Collect
  <2> QED
    BY <1>4, <2>1, <2>2 DEF Cashier
<1>5. ASSUME NEW a \in Allocations, NEW amount \in Amounts, RefundAllocation(a, amount)
      PROVE  status' = status /\ bill'[o] = bill[o]
  <2>1. a[2] # o
    BY <1>5, RefundAllocationFacts
  <2> QED
    BY <1>0, <1>5, <2>1 DEF RefundAllocation, GiveBack
<1>6. ASSUME NEW i \in Issues,
             \/ \E p \in Orders : CreateIssue(i, p)
             \/ ResolveNoRefund(i)
             \/ ResolveCancelOnly(i)
      PROVE  status'[o] = "CANCELLED" /\ bill' = bill
  BY <1>0, <1>6 DEF CreateIssue, ResolveNoRefund, ResolveCancelOnly, CancelOrder
<1>7. ASSUME NEW i \in Issues, NEW p, NEW amount \in Int, p = issue[i].order,
             amount <= NetPaid(p), CreateIssueRefunds(p, i, amount)
      PROVE  bill'[o] = bill[o] /\ p # o
  <2>1. p # o
    BY <1>0, <1>7 DEF CreateIssueRefunds
  <2> QED
    BY <1>0, <1>7, <2>1 DEF CreateIssueRefunds, GiveBack
<1>8. ASSUME NEW i \in Issues, ResolveFullRefund(i)
      PROVE  status'[o] = "CANCELLED" /\ bill'[o] = bill[o]
  <2> DEFINE p == issue[i].order
  <2>1. p \in Orders
    BY <1>8, IssueFacts DEF ResolveFullRefund, Resolve
  <2>2. NetPaid(p) \in Int
    BY <2>1, HeldIsRefundable, CapacityIsNat DEF IInv, BillsMatchLedger
  <2>3. NetPaid(p) <= NetPaid(p) /\ CreateIssueRefunds(p, i, NetPaid(p))
    BY <1>8, <2>2 DEF ResolveFullRefund
  <2>4. bill'[o] = bill[o] /\ p # o
    BY <1>7, <2>2, <2>3
  <2> QED
    BY <1>0, <1>8, <2>4 DEF ResolveFullRefund, CancelOrder
<1>9. ASSUME NEW i \in Issues, NEW approved \in Amounts, ResolvePartialRefund(i, approved)
      PROVE  status' = status /\ bill'[o] = bill[o]
  <2>1. approved \in Int
    BY AmountsFit, CapacityIsNat
  <2> QED
    BY <1>7, <1>9, <2>1 DEF ResolvePartialRefund
<1>10. CASE Supervisor
  BY <1>5, <1>6, <1>8, <1>9, <1>10 DEF Supervisor
<1> QED
  BY <1>1, <1>2, <1>3, <1>4, <1>10 DEF MoneyNext

\* The books of a cancelled order are closed: no payment, refund or later issue moves
\* its money, and the order never comes back.
THEOREM BooksStayClosed == MoneySpec => ClosedBooksStayClosed
<1>1. IInv /\ [MoneyNext]_moneyVars =>
         [\A o \in Orders : status[o] = "CANCELLED" =>
             status'[o] = "CANCELLED" /\ bill'[o] = bill[o]]_moneyVars
  BY CancelledStepIsClosed
<1> QED
  BY <1>1, BooksAreInOrder, PTL DEF MoneySpec, ClosedBooksStayClosed

-----------------------------------------------------------------------------
(* What MoneyReports reads off the books *)

\* What the ledger holds is what it holds for each order: the whole of what can
\* still be given back, grouped by order.
LEMMA HeldByOrder ==
    ASSUME IInv
    PROVE  Collected - Refunded = Total([o \in Orders |-> NetPaid(o)], Orders)
<1> DEFINE back == [a \in Allocations |-> GivenBack(a)]
           left == [a \in Allocations |-> Refundable(a)]
           net  == [o \in Orders |-> NetPaid(o)]
           byAllocation == [g \in Allocations \X Sources |-> g[1]]
           byOrder == [a \in Allocations |-> a[2]]
<1>1. MoneyTypeOK /\ BillsMatchLedger /\ NeverOverpaid
  BY DEF IInv, BillsMatchLedger
<1>2. \A a \in Allocations : a[1] \in Settlements /\ a[2] \in Orders /\ a = <<a[1], a[2]>>
  BY DEF Allocations
<1>3. \A a \in Allocations : /\ back[a] \in 0..Capacity /\ left[a] \in 0..Capacity
                             /\ allocated[a] \in 0..Capacity
                             /\ allocated[a] = back[a] + left[a]
  BY <1>1, AllocationFacts DEF MoneyTypeOK
<1>4. Total(allocated, Allocations) = Total(back, Allocations) + Total(left, Allocations)
  <2> HIDE DEF back, left
  <2> QED
    BY <1>3, IdsFinite, TotalOfSums
<1>5. Total(back, Allocations) = Total(given, Allocations \X Sources)
  <2>1. ASSUME NEW a \in Allocations
        PROVE  back[a] = Total(given, {g \in Allocations \X Sources : byAllocation[g] = a})
    <3> DEFINE D == {g \in Allocations \X Sources : byAllocation[g] = a}
               row == [x \in Sources |-> given[<<a, x>>]]
               bySource == [g \in D |-> g[2]]
    <3>1. \A g \in D : g[1] = a /\ g[2] \in Sources /\ g = <<a, g[2]>>
      OBVIOUS
    <3>2. bySource \in [D -> Sources]
      BY <3>1
    <3>3. ASSUME NEW x \in Sources
          PROVE  \E d \in D : /\ \A c \in D : bySource[c] = x <=> c = d
                              /\ given[d] \in 0..Capacity
                              /\ row[x] = given[d]
      <4>1. <<a, x>> \in D /\ bySource[<<a, x>>] = x
        OBVIOUS
      <4>2. \A c \in D : bySource[c] = x <=> c = <<a, x>>
        BY <3>1, <4>1
      <4>3. given[<<a, x>>] \in 0..Capacity
        BY <1>1 DEF MoneyTypeOK
      <4> QED
        BY <4>1, <4>2, <4>3
    <3>4. IsFiniteSet(D)
      BY IdsFinite, FS_Subset
    <3>5. back[a] = Total(row, Sources)
      BY DEF GivenBack
    <3> HIDE DEF D, row, bySource, back
    <3>6. Total(row, Sources) = Total(given, D)
      BY <3>2, <3>3, <3>4, IdsFinite, TotalRenamed
    <3> QED
      BY <3>5, <3>6 DEF D
  <2>2. byAllocation \in [Allocations \X Sources -> Allocations]
    OBVIOUS
  <2> DEFINE D == Allocations \X Sources
  <2>3. \A a \in Allocations : /\ back[a] \in 0..Capacity
                               /\ back[a] = Total(given, {g \in D : byAllocation[g] = a})
    BY <1>3, <2>1
  <2>4. IsFiniteSet(D) /\ IsFiniteSet(Allocations) /\ byAllocation \in [D -> Allocations]
    BY <2>2, IdsFinite
  <2> HIDE DEF D, back, byAllocation
  <2>5. Total(back, Allocations) = Total(given, D)
    BY <2>3, <2>4, TotalByGroup
  <2> QED
    BY <2>5 DEF D
<1>6. Total(net, Orders) = Total(left, Allocations)
  <2>1. ASSUME NEW o \in Orders
        PROVE  net[o] \in 0..Capacity /\ net[o] = Total(left, {a \in Allocations : byOrder[a] = o})
    <3> DEFINE D == {a \in Allocations : byOrder[a] = o}
               row == RefundablesOf(o)
               bySettlement == [a \in D |-> a[1]]
    <3>1. \A a \in D : a[2] = o /\ a[1] \in Settlements /\ a = <<a[1], o>> /\ a \in Allocations
      BY <1>2
    <3>2. bySettlement \in [D -> Settlements]
      BY <3>1
    <3>3. ASSUME NEW s \in Settlements
          PROVE  \E d \in D : /\ \A c \in D : bySettlement[c] = s <=> c = d
                              /\ left[d] \in 0..Capacity
                              /\ row[s] = left[d]
      <4>1. <<s, o>> \in Allocations
        BY DEF Allocations
      <4>2. <<s, o>> \in D /\ bySettlement[<<s, o>>] = s
        BY <4>1
      <4>3. \A c \in D : bySettlement[c] = s <=> c = <<s, o>>
        BY <3>1, <4>2
      <4>4. row[s] = left[<<s, o>>] /\ left[<<s, o>>] \in 0..Capacity
        BY <1>3, <4>1 DEF RefundablesOf
      <4> QED
        BY <4>2, <4>3, <4>4
    <3>4. IsFiniteSet(D)
      BY IdsFinite, FS_Subset
    <3>5. net[o] = Total(row, Settlements) /\ net[o] \in 0..Capacity
      BY <1>1, HeldIsRefundable
    <3> HIDE DEF D, row, bySettlement, left, net
    <3>6. Total(row, Settlements) = Total(left, D)
      BY <3>2, <3>3, <3>4, IdsFinite, TotalRenamed
    <3> QED
      BY <3>5, <3>6 DEF D
  <2>2. byOrder \in [Allocations -> Orders]
    BY <1>2
  <2>3. IsFiniteSet(Allocations) /\ IsFiniteSet(Orders)
    BY IdsFinite
  <2> HIDE DEF left, net, byOrder
  <2> QED
    BY <2>1, <2>2, <2>3, TotalByGroup
<1>7. Total(back, Allocations) \in Nat /\ Total(left, Allocations) \in Nat
  BY IdsFinite, TotalType
<1>8. Collected = Total(allocated, Allocations) /\ Refunded = Total(given, Allocations \X Sources)
  BY DEF Collected, Refunded
<1> HIDE DEF back, left, net
<1>9. Collected - Refunded = Total(net, Orders)
  BY <1>4, <1>5, <1>6, <1>7, <1>8
<1> QED
  BY <1>9 DEF net

\* What was given back, by who asked for it: the issues' approvals and the till's own.
LEMMA RefundedBySource ==
    ASSUME IInv
    PROVE  Refunded = Total([i \in Issues |-> issue[i].approved], Issues)
                        + Total([a \in Allocations |-> given[<<a, Till>>]], Allocations)
<1> DEFINE D == Allocations \X Issues
           R == Allocations \X {Till}
           approved == [i \in Issues |-> issue[i].approved]
           till == [a \in Allocations |-> given[<<a, Till>>]]
           byIssue == [g \in D |-> g[2]]
           byAllocation == [g \in R |-> g[1]]
<1>1. Allocations \X Sources = D \cup R /\ D \cap R = {}
  BY TillIsNoIssue DEF Sources
<1>2. IsFiniteSet(D) /\ IsFiniteSet(R) /\ IsFiniteSet(Issues)
  BY IdsFinite, FiniteMoneyIds, FS_Singleton, FS_Product
<1>3. \A g \in Allocations \X Sources : given[g] \in 0..Capacity
  BY DEF IInv, BillsMatchLedger, MoneyTypeOK
<1>4. Total(given, D \cup R) = Total(given, D) + Total(given, R)
  <2> HIDE DEF D, R
  <2> QED
    BY <1>1, <1>2, TotalSplit
<1>5. Total(till, Allocations) = Total(given, R)
  <2>1. ASSUME NEW a \in Allocations
        PROVE  \E d \in R : /\ \A c \in R : byAllocation[c] = a <=> c = d
                            /\ given[d] \in 0..Capacity
                            /\ till[a] = given[d]
    <3>1. <<a, Till>> \in R /\ \A c \in R : byAllocation[c] = a <=> c = <<a, Till>>
      OBVIOUS
    <3>2. given[<<a, Till>>] \in 0..Capacity
      BY <1>3 DEF Sources
    <3> QED
      BY <3>1, <3>2
  <2>2. byAllocation \in [R -> Allocations]
    OBVIOUS
  <2> HIDE DEF R, till, byAllocation
  <2> QED
    BY <1>2, <2>1, <2>2, IdsFinite, TotalRenamed
<1>6. Total(approved, Issues) = Total(given, D)
  <2>1. ASSUME NEW i \in Issues
        PROVE  /\ approved[i] \in 0..Capacity
               /\ approved[i] = Total(given, {g \in D : byIssue[g] = i})
    <3> DEFINE F == {g \in D : byIssue[g] = i}
               row == [a \in Allocations |-> given[<<a, i>>]]
               h == [g \in F |-> g[1]]
    <3>1. \A g \in F : g[1] \in Allocations /\ g = <<g[1], i>>
      OBVIOUS
    <3>2. h \in [F -> Allocations]
      BY <3>1
    <3>3. ASSUME NEW a \in Allocations
          PROVE  \E d \in F : /\ \A c \in F : h[c] = a <=> c = d
                              /\ given[d] \in 0..Capacity
                              /\ row[a] = given[d]
      <4>1. <<a, i>> \in F /\ h[<<a, i>>] = a
        OBVIOUS
      <4>2. \A c \in F : h[c] = a <=> c = <<a, i>>
        BY <3>1, <4>1
      <4>3. given[<<a, i>>] \in 0..Capacity
        BY <1>3 DEF Sources
      <4> QED
        BY <4>1, <4>2, <4>3
    <3>4. IsFiniteSet(F)
      BY <1>2, FS_Subset
    <3>5. approved[i] = Total(row, Allocations) /\ approved[i] \in 0..Capacity
      BY DEF IInv, IssuesMatchRefunds, GivenFor, BillsMatchLedger, MoneyTypeOK, IssueRow
    <3> HIDE DEF F, row, h, approved
    <3>6. Total(row, Allocations) = Total(given, F)
      BY <3>2, <3>3, <3>4, IdsFinite, TotalRenamed
    <3> QED
      BY <3>5, <3>6 DEF F
  <2>2. byIssue \in [D -> Issues]
    OBVIOUS
  <2>3. \A i \in Issues : /\ approved[i] \in 0..Capacity
                          /\ approved[i] = Total(given, {g \in D : byIssue[g] = i})
    BY <2>1
  <2>4. IsFiniteSet(D) /\ IsFiniteSet(Issues)
    BY <1>2
  <2> HIDE DEF D, approved, byIssue
  <2> QED
    BY <2>2, <2>3, <2>4, TotalByGroup
<1> HIDE DEF approved, till, D, R
<1>7. Refunded = Total(approved, Issues) + Total(till, Allocations)
  BY <1>1, <1>4, <1>5, <1>6 DEF Refunded
<1> QED
  BY <1>7 DEF approved, till

LEMMA ColumnsTellTruth == IInv => SummaryTellsTruth
<1> SUFFICES ASSUME IInv, NEW o \in Orders, status[o] # "ABSENT"
             PROVE  /\ bill[o].paymentStatus = "PAID" <=> Outstanding(o) = 0
                    /\ bill[o].paymentStatus = "UNPAID" <=> PaidOf(o) = RefundedOf(o)
                    /\ bill[o].refundStatus = "NONE" <=> RefundedOf(o) = 0
                    /\ bill[o].refundStatus = "REFUNDED" <=> PaidOf(o) = RefundedOf(o) /\ PaidOf(o) > 0
  BY DEF SummaryTellsTruth
<1> DEFINE total == bill[o].total
           paid == bill[o].paid
           refunded == bill[o].refunded
<1>1. /\ total \in 1..Capacity /\ paid \in Nat /\ refunded \in Nat
      /\ PaidOf(o) = paid /\ RefundedOf(o) = refunded
  <2>1. total \in 0..Capacity /\ paid \in Nat /\ refunded \in Nat /\ total # 0
    BY DEF IInv, BillsMatchLedger, MoneyTypeOK, Bill, BillsFollowFigures
  <2> QED
    BY <2>1, CapacityIsNat DEF IInv, BillsMatchLedger
<1>2. NetPaid(o) = paid - refunded /\ NetPaid(o) \in 0..total
  BY DEF IInv, NeverOverpaid, NetPaid
<1>3. bill[o] = Summary(total, paid, refunded)
  BY DEF IInv, BillsFollowFigures
<1> HIDE DEF total, paid, refunded
<1>4. /\ bill[o].paymentStatus = IF paid - refunded <= 0 THEN "UNPAID"
                                 ELSE IF paid - refunded >= total THEN "PAID" ELSE "PARTIALLY_PAID"
      /\ bill[o].refundStatus = IF refunded <= 0 THEN "NONE"
                                ELSE IF refunded >= paid THEN "REFUNDED" ELSE "PARTIALLY_REFUNDED"
  BY <1>3 DEF Summary
<1>5. Outstanding(o) = total - (paid - refunded)
  <2>1. Outstanding(o) = IF total > paid - refunded THEN total - (paid - refunded) ELSE 0
    BY <1>2 DEF Outstanding, total
  <2> QED
    BY <1>1, <1>2, <2>1, CapacityIsNat
<1>6. paid - refunded <= 0 <=> paid = refunded
  BY <1>1, <1>2, CapacityIsNat
<1>7. bill[o].paymentStatus = "PAID" <=> Outstanding(o) = 0
  BY <1>1, <1>2, <1>4, <1>5, CapacityIsNat
<1>8. bill[o].paymentStatus = "UNPAID" <=> paid = refunded
  BY <1>4, <1>6
<1>9. bill[o].refundStatus = "NONE" <=> refunded = 0
  BY <1>1, <1>4
<1>10. bill[o].refundStatus = "REFUNDED" <=> paid = refunded /\ paid > 0
  BY <1>1, <1>2, <1>4, CapacityIsNat
<1> QED
  BY <1>1, <1>7, <1>8, <1>9, <1>10

\* The lines of a bill: totals, what is held and what is owed, line by line and summed.
LEMMA BillLines ==
    ASSUME IInv, NEW O \in SUBSET Orders
    PROVE  /\ Sum("remaining", O) = Total([o \in Orders |-> Outstanding(o)], O)
           /\ Sum("net", O) = Total([o \in Orders |-> NetPaid(o)], O)
           /\ Sum("total", O) = Total([o \in Orders |-> bill[o].total], O)
           /\ Sum("total", O) = Sum("net", O) + Sum("remaining", O)
           /\ Sum("net", O) \in Nat /\ Sum("remaining", O) \in Nat
<1> DEFINE remaining == [o \in Orders |-> Outstanding(o)]
           net == [o \in Orders |-> NetPaid(o)]
           total == [o \in Orders |-> bill[o].total]
<1>1. /\ Sum("remaining", O) = Total(remaining, O)
      /\ Sum("net", O) = Total(net, O)
      /\ Sum("total", O) = Total(total, O)
  BY DEF Sum, BillLine
<1>2. ASSUME NEW o \in O
      PROVE  /\ net[o] \in 0..Capacity /\ remaining[o] \in 0..Capacity /\ total[o] \in 0..Capacity
             /\ total[o] = net[o] + remaining[o]
  <2>1. o \in Orders /\ bill[o].total \in 0..Capacity /\ NetPaid(o) \in 0..bill[o].total
    BY DEF IInv, BillsMatchLedger, MoneyTypeOK, Bill, NeverOverpaid
  <2>2. Outstanding(o) = bill[o].total - NetPaid(o)
    BY <2>1, CapacityIsNat DEF Outstanding
  <2> QED
    BY <2>1, <2>2, CapacityIsNat
<1>3. IsFiniteSet(O)
  BY FiniteMoneyIds, FS_Subset
<1> HIDE DEF remaining, net, total
<1>4. Total(total, O) = Total(net, O) + Total(remaining, O)
  BY <1>2, <1>3, TotalOfSums
<1>5. Total(net, O) \in Nat /\ Total(remaining, O) \in Nat
  BY <1>3, TotalType
<1> QED
  BY <1>1, <1>4, <1>5 DEF remaining, net, total

\* The owner's summary and the till's bills owe the same.
LEMMA OutstandingAgrees ==
    ASSUME IInv
    PROVE  PaymentSummary.outstanding = TableBill(Orders).remaining
<1> DEFINE net == [o \in Orders |-> NetPaid(o)]
<1>1. NotCancelled \in SUBSET Orders /\ Orders \cap NotCancelled = NotCancelled
  BY DEF NotCancelled, With
<1>2. \A o \in Orders \ NotCancelled : net[o] = 0
  <2> TAKE o \in Orders \ NotCancelled
  <2>1. status[o] = "ABSENT" \/ status[o] = "CANCELLED"
    BY DEF NotCancelled, With, IInv, BillsMatchLedger, MoneyTypeOK
  <2>2. CASE status[o] = "ABSENT"
    <3>1. bill[o].total = 0 /\ NetPaid(o) \in 0..bill[o].total
      BY <2>2 DEF IInv, BillsFollowFigures, NeverOverpaid
    <3> QED
      BY <3>1
  <2>3. CASE status[o] = "CANCELLED"
    BY <2>3 DEF IInv, CancelledHoldsNoMoney
  <2> QED
    BY <2>1, <2>2, <2>3
<1> HIDE DEF net
<1>3. Total(net, Orders) = Total(net, NotCancelled)
  BY <1>1, <1>2, FiniteMoneyIds, TotalOfNonzero
<1>4. Collected - Refunded = Total(net, Orders)
  BY HeldByOrder DEF net
<1>5. /\ Sum("net", NotCancelled) = Total(net, NotCancelled)
      /\ Sum("total", NotCancelled) = Total([o \in Orders |-> bill[o].total], NotCancelled)
      /\ Sum("total", NotCancelled) = Sum("net", NotCancelled) + Sum("remaining", NotCancelled)
      /\ Sum("net", NotCancelled) \in Nat /\ Sum("remaining", NotCancelled) \in Nat
  BY <1>1, BillLines DEF net
<1>6. PaymentSummary.outstanding
        = Total([o \in Orders |-> bill[o].total], NotCancelled) - (Collected - Refunded)
  BY DEF PaymentSummary
<1>7. TableBill(Orders).remaining = Sum("remaining", NotCancelled)
  BY <1>1 DEF TableBill, Bills
<1> QED
  BY <1>3, <1>4, <1>5, <1>6, <1>7

\* The issues' block counts each raised issue once, and sums what they approved.
LEMMA IssuesBlockAgrees ==
    ASSUME IInv
    PROVE  /\ IssuesBlock.open + IssuesBlock.resolved
                = Cardinality({i \in Issues : issue[i].order # NoOrder})
           /\ IssuesBlock.refund = Total([i \in Issues |-> issue[i].approved], Issues)
<1> DEFINE open == {i \in Issues : issue[i].status = "OPEN"}
           decided == {i \in Issues : issue[i].status = "RESOLVED"}
           refunding == {i \in decided : issue[i].resolution \in {"FULL_REFUND", "PARTIAL_REFUND"}}
           raised == {i \in Issues : issue[i].order # NoOrder}
           approved == [i \in Issues |-> issue[i].approved]
<1>1. IssuesBlock.open = Cardinality(open) /\ IssuesBlock.resolved = Cardinality(decided)
      /\ IssuesBlock.refund = Total(approved, refunding)
  BY DEF IssuesBlock
<1>2. IsFiniteSet(open) /\ IsFiniteSet(decided)
  BY FiniteMoneyIds, FS_Subset
<1>3. raised = open \cup decided /\ open \cap decided = {}
  BY DEF IInv, BillsMatchLedger, MoneyTypeOK, IssueRow, UndecidedIssuesAreEmpty
<1>4. \A i \in Issues \ refunding : approved[i] = 0
  <2> TAKE i \in Issues \ refunding
  <2>1. ~(issue[i].approved > 0)
    BY DEF IInv, IssuesMatchRefunds, UndecidedIssuesAreEmpty
  <2>2. issue[i].approved \in 0..Capacity
    BY DEF IInv, BillsMatchLedger, MoneyTypeOK, IssueRow
  <2> QED
    BY <2>1, <2>2, CapacityIsNat
<1>5. refunding \subseteq Issues
  OBVIOUS
<1> HIDE DEF open, decided, refunding, raised, approved
<1>6. Cardinality(open \cup decided)
        = Cardinality(open) + Cardinality(decided) - Cardinality(open \cap decided)
  BY <1>2, FS_Union
<1>7. Cardinality(open \cap decided) = 0 /\ Cardinality(open) \in Nat /\ Cardinality(decided) \in Nat
  BY <1>2, <1>3, FS_EmptySet, FS_CardinalityType
<1>8. Total(approved, Issues) = Total(approved, refunding)
  BY <1>4, <1>5, FiniteMoneyIds, TotalOfNonzero
<1>9. IssuesBlock.open + IssuesBlock.resolved = Cardinality(raised)
  BY <1>1, <1>3, <1>6, <1>7
<1>10. IssuesBlock.refund = Total(approved, Issues)
  BY <1>1, <1>8
<1> QED
  BY <1>9, <1>10 DEF raised, approved

\* The dashboard counts each placed order on one card, and counts as unpaid the
\* orders the till can take money for.
LEMMA OrdersBlockAgrees ==
    ASSUME IInv
    PROVE  /\ PaymentsBlock.unpaid = Cardinality({o \in NotCancelled : BillLine(o).payable})
           /\ LET card == OrdersBlock(With({"NEW", "IN_PREP", "READY"})) IN
                 card.active + card.completed + card.cancelled = Cardinality(With(Statuses))
<1> DEFINE active == With({"NEW", "IN_PREP", "READY"})
           completed == With({"DELIVERED"})
           cancelled == With({"CANCELLED"})
           owing == {o \in NotCancelled : bill[o].paymentStatus \in {"UNPAID", "PARTIALLY_PAID"}}
           payable == {o \in NotCancelled : BillLine(o).payable}
           card == OrdersBlock(active)
<1>1. ASSUME NEW o \in NotCancelled
      PROVE  BillLine(o).payable <=> bill[o].paymentStatus \in {"UNPAID", "PARTIALLY_PAID"}
  <2>1. o \in Orders /\ status[o] # "ABSENT" /\ status[o] # "CANCELLED"
    BY DEF NotCancelled, With, Statuses
  <2>2. bill[o].paymentStatus \in {"UNPAID", "PARTIALLY_PAID", "PAID"}
    BY <2>1 DEF IInv, BillsMatchLedger, MoneyTypeOK, Bill
  <2>3. bill[o].paymentStatus = "PAID" <=> Outstanding(o) = 0
    BY <2>1, ColumnsTellTruth DEF SummaryTellsTruth
  <2>4. Outstanding(o) \in Nat
    <3>1. bill[o].total \in 0..Capacity /\ NetPaid(o) \in 0..bill[o].total
      BY <2>1 DEF IInv, BillsMatchLedger, MoneyTypeOK, Bill, NeverOverpaid
    <3> QED
      BY <3>1, CapacityIsNat DEF Outstanding
  <2>5. BillLine(o).payable <=> Outstanding(o) > 0
    BY <2>1 DEF BillLine
  <2> QED
    BY <2>2, <2>3, <2>4, <2>5
<1>2. owing = payable
  BY <1>1
<1>3. PaymentsBlock.unpaid = Cardinality(owing)
  BY DEF PaymentsBlock
<1>4. PaymentsBlock.unpaid = Cardinality(payable)
  BY <1>2, <1>3
<1>5. /\ With(Statuses) = (active \cup completed) \cup cancelled
      /\ active \cap completed = {} /\ (active \cup completed) \cap cancelled = {}
  BY DEF With, Statuses
<1>6. IsFiniteSet(active) /\ IsFiniteSet(completed) /\ IsFiniteSet(cancelled)
  BY FiniteMoneyIds, FS_Subset DEF With
<1>7. /\ card.active = Cardinality(active) /\ card.completed = Cardinality(completed)
      /\ card.cancelled = Cardinality(cancelled)
  BY DEF OrdersBlock
<1> HIDE DEF active, completed, cancelled, card
<1>8. IsFiniteSet(active \cup completed)
  BY <1>6, FS_Union
<1>9. Cardinality(active \cup completed) = Cardinality(active) + Cardinality(completed)
  <2>1. Cardinality(active \cup completed)
          = Cardinality(active) + Cardinality(completed) - Cardinality(active \cap completed)
    BY <1>6, FS_Union
  <2>2. /\ Cardinality(active \cap completed) = 0
        /\ Cardinality(active) \in Nat /\ Cardinality(completed) \in Nat
    BY <1>5, <1>6, FS_EmptySet, FS_CardinalityType
  <2> QED
    BY <2>1, <2>2
<1>10. Cardinality((active \cup completed) \cup cancelled)
         = Cardinality(active \cup completed) + Cardinality(cancelled)
  <2>1. Cardinality((active \cup completed) \cup cancelled)
          = Cardinality(active \cup completed) + Cardinality(cancelled)
              - Cardinality((active \cup completed) \cap cancelled)
    BY <1>6, <1>8, FS_Union
  <2>2. /\ Cardinality((active \cup completed) \cap cancelled) = 0
        /\ Cardinality(active \cup completed) \in Nat /\ Cardinality(cancelled) \in Nat
    BY <1>5, <1>6, <1>8, FS_EmptySet, FS_CardinalityType
  <2> QED
    BY <2>1, <2>2
<1>11. card.active + card.completed + card.cancelled = Cardinality(With(Statuses))
  BY <1>5, <1>7, <1>9, <1>10
<1> QED
  BY <1>4, <1>11 DEF card, active

\* The list of open tables leaves out only bills that owe nothing.
LEMMA TableBillsAgree ==
    ASSUME IInv, NEW O \in SUBSET Orders
    PROVE  /\ OpenTable(O).remaining = TableBill(O).remaining
           /\ TableBill(O).remaining = TableBill(O).gross - TableBill(O).paid
<1> DEFINE all == O \cap NotCancelled
           owing == {o \in all : Outstanding(o) > 0}
           remaining == [o \in Orders |-> Outstanding(o)]
<1>1. all \in SUBSET Orders /\ owing \in SUBSET Orders /\ owing \subseteq all
  OBVIOUS
<1>2. IsFiniteSet(all)
  BY <1>1, FiniteMoneyIds, FS_Subset
<1>3. \A o \in all \ owing : remaining[o] = 0
  <2> TAKE o \in all \ owing
  <2>1. bill[o].total \in 0..Capacity /\ NetPaid(o) \in 0..bill[o].total
    BY DEF IInv, BillsMatchLedger, MoneyTypeOK, Bill, NeverOverpaid
  <2>2. Outstanding(o) \in Nat
    BY <2>1, CapacityIsNat DEF Outstanding
  <2> QED
    BY <2>2
<1>4. /\ TableBill(O).remaining = Sum("remaining", all)
      /\ TableBill(O).gross = Sum("total", all)
      /\ TableBill(O).paid = Sum("net", all)
      /\ OpenTable(O).remaining = Sum("remaining", owing)
  BY DEF TableBill, OpenTable, Bills
<1> HIDE DEF all, owing
<1>5. /\ Sum("remaining", all) = Total(remaining, all)
      /\ Sum("remaining", owing) = Total(remaining, owing)
      /\ Sum("total", all) = Sum("net", all) + Sum("remaining", all)
      /\ Sum("net", all) \in Nat /\ Sum("remaining", all) \in Nat
  BY <1>1, BillLines
<1> HIDE DEF remaining
<1>6. Total(remaining, all) = Total(remaining, owing)
  BY <1>1, <1>2, <1>3, TotalOfNonzero
<1> QED
  BY <1>4, <1>5, <1>6

\* None of the reconciliation scripts has anything to report.
LEMMA NothingToReconcile ==
    ASSUME IInv
    PROVE  /\ OrderMismatches \cup RefundOverruns = {}
           /\ \A i \in Issues : IssueProblems(i) = {}
<1>1. OrderMismatches = {}
  BY DEF OrderMismatches, IInv, BillsMatchLedger
<1>2. RefundOverruns = {}
  <2> SUFFICES ASSUME NEW o \in Orders PROVE ~(RefundedOf(o) > bill[o].paid)
    BY DEF RefundOverruns
  <2>1. /\ bill[o].total \in 0..Capacity /\ NetPaid(o) \in 0..bill[o].total
        /\ bill[o].paid \in Nat /\ bill[o].refunded \in Nat /\ RefundedOf(o) = bill[o].refunded
    BY DEF IInv, BillsMatchLedger, MoneyTypeOK, Bill, NeverOverpaid
  <2> QED
    BY <2>1, CapacityIsNat DEF NetPaid
<1>3. ASSUME NEW i \in Issues PROVE IssueProblems(i) = {}
  <2> DEFINE linked == {a \in Allocations : given[<<a, i>>] > 0}
             refunding == /\ issue[i].status = "RESOLVED"
                          /\ issue[i].resolution \in {"FULL_REFUND", "PARTIAL_REFUND"}
                          /\ issue[i].approved > 0
  <2>1. GivenFor(i) = issue[i].approved /\ issue[i].approved \in 0..Capacity
    BY DEF IInv, IssuesMatchRefunds, BillsMatchLedger, MoneyTypeOK, IssueRow
  <2>2. ~ \E a \in linked : a[2] # issue[i].order
    BY DEF IInv, IssuesMatchRefunds
  <2>3. ~(GivenFor(i) > issue[i].approved) /\ ~(GivenFor(i) < issue[i].approved)
    BY <2>1, CapacityIsNat
  <2>4. ~refunding => linked = {}
    <3> SUFFICES ASSUME ~refunding, NEW a \in Allocations, given[<<a, i>>] > 0 PROVE FALSE
      OBVIOUS
    <3>1. ~(issue[i].approved > 0)
      BY DEF IInv, IssuesMatchRefunds, UndecidedIssuesAreEmpty
    <3>2. issue[i].approved = 0
      BY <2>1, <3>1, CapacityIsNat
    <3> DEFINE f == [b \in Allocations |-> given[<<b, i>>]]
    <3>3. f[a] \in 0..Capacity /\ f[a] > 0
      BY DEF IInv, BillsMatchLedger, MoneyTypeOK, Sources
    <3>4. GivenFor(i) = Total(f, Allocations)
      BY DEF GivenFor
    <3> HIDE DEF f
    <3>5. f[a] <= Total(f, Allocations)
      BY <3>3, IdsFinite, PartOfTotal
    <3> QED
      BY <2>1, <3>2, <3>3, <3>4, <3>5, CapacityIsNat
  <2>5. IssueProblems(i) =
          (IF \E a \in linked : a[2] # issue[i].order THEN {"refund_context_mismatch"} ELSE {})
            \cup (IF refunding /\ GivenFor(i) > issue[i].approved THEN {"refund_amount_over"} ELSE {})
            \cup (IF refunding /\ GivenFor(i) < issue[i].approved THEN {"refund_amount_under"} ELSE {})
            \cup (IF ~refunding /\ linked # {} THEN {"unexpected_refund_link"} ELSE {})
    BY DEF IssueProblems
  <2> HIDE DEF linked, refunding
  <2> QED
    BY <2>2, <2>3, <2>4, <2>5
<1> QED
  BY <1>1, <1>2, <1>3

\* What is owed is one figure however it is computed, the cards count every order once,
\* what was given back is what issues approved and the till gave, and the nightly
\* reconciliations have nothing to report: for books of any size.
THEOREM ReportsAlwaysAgree == MoneySpec => []ReportsAgree
<1>1. IInv => ReportsAgree
  <2> SUFFICES ASSUME IInv PROVE ReportsAgree
    OBVIOUS
  <2>1. SummaryTellsTruth
    BY ColumnsTellTruth
  <2>2. PaymentSummary.outstanding = TableBill(Orders).remaining
    BY OutstandingAgrees
  <2>3. PaymentSummary.net = PaymentsBlock.net
    BY DEF PaymentSummary, PaymentsBlock
  <2>4. Refunded = IssuesBlock.refund + Total([a \in Allocations |-> given[<<a, Till>>]], Allocations)
    BY RefundedBySource, IssuesBlockAgrees
  <2> QED
    BY <2>1, <2>2, <2>3, <2>4, TableBillsAgree, IssuesBlockAgrees, OrdersBlockAgrees,
       NothingToReconcile DEF ReportsAgree
<1> QED
  BY <1>1, BooksAreInOrder, PTL

=============================================================================
