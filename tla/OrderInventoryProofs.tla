------------------------ MODULE OrderInventoryProofs ------------------------
(***************************************************************************)
(* The invariants of OrderInventory, for any number of branches, orders,   *)
(* items and ingredients and any capacity, and of the reports that are     *)
(* read off its stock.                                                     *)
(***************************************************************************)
EXTENDS StockReports, BoundedSumsProofs

-----------------------------------------------------------------------------
LEMMA LinesFinite == IsFiniteSet(Lines)
<1> DEFINE P == (Orders \X Items) \X Ingredients
           F == [p \in P |-> <<p[1][1], p[1][2], p[2]>>]
<1>1. IsFiniteSet(P)
  BY FiniteIds, FS_Product
<1>2. F \in [P -> Lines]
  BY DEF Lines
<1>3. \A l \in Lines : \E p \in P : F[p] = l
  <2> TAKE l \in Lines
  <2>1. <<<<l[1], l[2]>>, l[3]>> \in P
    BY DEF Lines
  <2>2. F[<<<<l[1], l[2]>>, l[3]>>] = l
    BY <2>1 DEF Lines
  <2> QED
    BY <2>1, <2>2
<1>4. F \in Surjection(P, Lines)
  BY <1>2, <1>3 DEF Surjection
<1> QED
  BY <1>1, <1>4, FS_Surjection

-----------------------------------------------------------------------------
(* The inductive invariant. None of its parts is inductive alone: that a shelf
   stays promised within its stock needs the reserved figure to be the sum of the
   outstanding lines, that needs every order to settle all its lines together, and
   that needs the column ranges. *)

IInv ==
    /\ TypeOK
    /\ ReservationsMatchLines
    /\ NeverOverPromised
    /\ StockMatchesLedger
    /\ LinesFollowStatus

LEMMA ShelfLinesFinite ==
    ASSUME NEW s, NEW i
    PROVE  IsFiniteSet(ShelfLines(s, i))
BY LinesFinite, FS_Subset DEF ShelfLines

LEMMA LinesOfFinite ==
    ASSUME NEW o, NEW i
    PROVE  IsFiniteSet(LinesOf(o, i))
BY LinesFinite, FS_Subset DEF LinesOf

\* The lines of an existing order lie on the shelves of its own branch only.
LEMMA OrderOnShelf ==
    ASSUME NEW o \in Orders, NEW k \in Shelves
    PROVE  /\ k[1] = storeOf[o] => LinesOf(o, k[2]) \subseteq ShelfLines(k[1], k[2])
           /\ k[1] # storeOf[o] => ShelfLines(k[1], k[2]) \cap OrderLines(o) = {}
BY DEF LinesOf, ShelfLines, OrderLines, Shelves

\* What an existing order owes is part of what its branch's shelf has reserved,
\* so its consumption never takes a shelf below zero.
LEMMA OwedIsReserved ==
    ASSUME IInv, NEW o \in Orders, NEW k \in Shelves, k[1] = storeOf[o]
    PROVE  /\ Owed(o, k[2]) \in Nat
           /\ Owed(o, k[2]) <= stock[k].reserved
<1>1. LinesOf(o, k[2]) \subseteq ShelfLines(k[1], k[2])
  BY OrderOnShelf
<1>2. Owed(o, k[2]) <= Total(OutstandingOf, ShelfLines(k[1], k[2]))
  BY <1>1, ShelfLinesFinite, TotalReplace DEF Owed
<1>3. Owed(o, k[2]) \in Nat
  BY LinesOfFinite, TotalType DEF Owed
<1> QED
  BY <1>2, <1>3 DEF IInv, ReservationsMatchLines

\* Settling every line of one order takes exactly what the order owed off the
\* outstanding total of its branch's shelves, and nothing off any other.
LEMMA SettledTotals ==
    ASSUME IInv, NEW o \in Orders, storeOf' = storeOf,
           \A l \in Lines : l[1] # o => line'[l] = line[l],
           \A l \in OrderLines(o) : Outstanding(l)' = 0,
           NEW k \in Shelves
    PROVE  Total(OutstandingOf, ShelfLines(k[1], k[2]))'
             = IF k[1] = storeOf[o]
               THEN Total(OutstandingOf, ShelfLines(k[1], k[2])) - Owed(o, k[2])
               ELSE Total(OutstandingOf, ShelfLines(k[1], k[2]))
<1> DEFINE D == ShelfLines(k[1], k[2])
           A == LinesOf(o, k[2])
           f == OutstandingOf
           g == OutstandingOf'
<1>1. ShelfLines(k[1], k[2])' = D
  BY DEF ShelfLines, Lines
<1>2. \A l \in D : l[1] # o => f[l] = g[l]
  BY DEF ShelfLines, OutstandingOf, Outstanding, Lines
<1>3. \A l \in A : g[l] = 0
  BY DEF LinesOf, OrderLines, OutstandingOf, Outstanding, Lines
<1>4. Total(OutstandingOf, ShelfLines(k[1], k[2]))' = Total(g, D)
  BY <1>1 DEF Total, Units
<1>5. CASE k[1] = storeOf[o]
  <2>1. A \subseteq D /\ \A l \in D \ A : f[l] = g[l]
    BY <1>2, <1>5, OrderOnShelf DEF LinesOf, ShelfLines
  <2>2. Total(g, A) = 0
    BY <1>3, TotalOfZeros
  <2>3. Total(g, D) = Total(f, D) - Total(f, A) + Total(g, A)
    BY <2>1, ShelfLinesFinite, TotalReplace
  <2>4. Total(f, D) \in Nat /\ Total(f, A) \in Nat
    BY ShelfLinesFinite, LinesOfFinite, TotalType
  <2>5. Total(f, A) = Owed(o, k[2])
    BY DEF Owed
  <2> QED
    BY <1>4, <1>5, <2>2, <2>3, <2>4, <2>5
<1>6. CASE k[1] # storeOf[o]
  <2>1. \A l \in D : f[l] = g[l]
    BY <1>2, <1>6 DEF ShelfLines
  <2> QED
    BY <1>4, <1>6, <2>1, TotalCongruence
<1> QED
  BY <1>5, <1>6

LEMMA InitIsGood == Init => IInv
<1> SUFFICES ASSUME Init PROVE IInv
  OBVIOUS
<1>0. Quantities \cup {0} \subseteq 0..Capacity /\ 0..Capacity \subseteq Int
  BY QuantitiesFit, CapacityIsNat
<1>1. TypeOK
  <2>1. line \in [Lines -> LineRow]
    BY CapacityIsNat DEF Init, LineRow, EmptyLine
  <2>2. stock \in [Shelves -> StockRow]
    BY <1>0 DEF Init, StockRow
  <2>3. ledger \in [Shelves -> LedgerSums]
    BY <2>2 DEF Init, StockRow, LedgerSums
  <2>4. \A o \in Orders : storeOf[o] = NoStore <=> status[o] = "ABSENT"
    BY DEF Init
  <2> QED
    BY <2>1, <2>2, <2>3, <2>4 DEF TypeOK, Init, Statuses
<1>2. \A k \in Shelves : /\ Total(OutstandingOf, ShelfLines(k[1], k[2])) = 0
                         /\ Total(ConsumedOf, ShelfLines(k[1], k[2])) = 0
  <2> TAKE k \in Shelves
  <2>1. \A l \in ShelfLines(k[1], k[2]) : OutstandingOf[l] = 0 /\ ConsumedOf[l] = 0
    BY DEF Init, ShelfLines, OutstandingOf, Outstanding, ConsumedOf, EmptyLine
  <2> QED
    BY <2>1, TotalOfZeros
<1>3. \A k \in Shelves : stock[k].onHand \in 0..Capacity /\ stock[k].reserved = 0
  <2> TAKE k \in Shelves
  <2>1. stock[k] \in [onHand : Quantities \cup {0}, reserved : {0}]
    BY DEF Init
  <2> QED
    BY <1>0, <2>1
<1>4. ReservationsMatchLines
  BY <1>2, <1>3 DEF ReservationsMatchLines
<1>5. NeverOverPromised
  BY <1>3, CapacityIsNat DEF NeverOverPromised, Init
<1>6. StockMatchesLedger
  BY <1>2, <1>3, CapacityIsNat DEF StockMatchesLedger, Init
<1>7. LinesFollowStatus
  BY DEF LinesFollowStatus, Init, AllEmpty, OrderLines
<1> QED
  BY <1>1, <1>4, <1>5, <1>6, <1>7 DEF IInv

-----------------------------------------------------------------------------
(* The order steps *)

\* Steps that only move the status: the lines must already be where the new
\* status wants them.
LEMMA PlainMoveKeeps ==
    ASSUME IInv, NEW o \in Orders, MarkReady(o) \/ Deliver(o) \/ UndoStart(o) \/ UndoReady(o)
    PROVE  IInv'
<1> USE DEF MarkReady, Deliver, UndoStart, UndoReady, MoveTo
<1>1. UNCHANGED <<storeOf, line, stocked, stock, ledger>>
  OBVIOUS
<1>2. TypeOK'
  BY <1>1 DEF IInv, TypeOK, Statuses
<1>3. /\ OutstandingOf' = OutstandingOf
      /\ ConsumedOf' = ConsumedOf
      /\ \A k \in Shelves : ShelfLines(k[1], k[2])' = ShelfLines(k[1], k[2])
  BY <1>1 DEF OutstandingOf, Outstanding, ConsumedOf, ShelfLines
<1>4. ReservationsMatchLines'
  BY <1>1, <1>3 DEF IInv, ReservationsMatchLines, Total, Units
<1>5. NeverOverPromised'
  BY <1>1 DEF IInv, NeverOverPromised
<1>6. StockMatchesLedger'
  BY <1>1, <1>3 DEF IInv, StockMatchesLedger, Total, Units
<1>7. LinesFollowStatus'
  BY <1>1 DEF IInv, TypeOK, LinesFollowStatus, AllEmpty, AllPromised, AllConsumed, AllReleased
<1> QED
  BY <1>2, <1>4, <1>5, <1>6, <1>7 DEF IInv

\* What the invariant says of the lines of an existing order.
LEMMA LineShape ==
    ASSUME IInv, NEW o \in Orders, status[o] # "ABSENT", NEW l \in OrderLines(o)
    PROVE  /\ l \in Lines /\ l[1] = o
           /\ line[l] \in LineRow
           /\ Outstanding(l) \in 0..Capacity
           /\ Outstanding(l) + line[l].consumed \in 0..Capacity
           /\ Outstanding(l) + line[l].released \in 0..Capacity
<1>1. l \in Lines /\ l[1] = o /\ line[l] \in LineRow
  BY DEF OrderLines, IInv, TypeOK
<1>2. \/ line[l].consumed = 0 /\ line[l].released = 0
      \/ line[l].consumed = line[l].reserved /\ line[l].released = 0
      \/ line[l].released = line[l].reserved /\ line[l].consumed = 0
  BY DEF IInv, TypeOK, LinesFollowStatus, AllPromised, AllConsumed, AllReleased, Statuses
<1> QED
  BY <1>1, <1>2, CapacityIsNat DEF Outstanding, LineRow

\* What one booking does to a summary row and to the ledger's sums.
LEMMA ConsumedRowFacts ==
    ASSUME NEW row \in StockRow, NEW q \in Int
    PROVE  /\ ConsumedRow(row, q) \in StockRow
           /\ ConsumedRow(row, q).onHand = row.onHand - q
           /\ ConsumedRow(row, q).reserved = row.reserved - q
BY DEF ConsumedRow, StockRow

LEMMA ReleasedRowFacts ==
    ASSUME NEW row \in StockRow, NEW q \in Int
    PROVE  /\ ReleasedRow(row, q) \in StockRow
           /\ ReleasedRow(row, q).onHand = row.onHand
           /\ ReleasedRow(row, q).reserved = row.reserved - q
BY DEF ReleasedRow, StockRow

LEMMA ReservedRowFacts ==
    ASSUME NEW row \in StockRow, NEW q \in Int
    PROVE  /\ ReservedRow(row, q) \in StockRow
           /\ ReservedRow(row, q).onHand = row.onHand
           /\ ReservedRow(row, q).reserved = row.reserved + q
BY DEF ReservedRow, StockRow

LEMMA PostReservedFacts ==
    ASSUME NEW sums \in LedgerSums, NEW q \in Int
    PROVE  /\ PostReserved(sums, q) \in LedgerSums
           /\ PostReserved(sums, q).moved = sums.moved
           /\ PostReserved(sums, q).consumed = sums.consumed
           /\ PostReserved(sums, q).reserved = sums.reserved + q
BY DEF PostReserved, LedgerSums

LEMMA PostConsumedFacts ==
    ASSUME NEW sums \in LedgerSums, NEW q \in Int
    PROVE  /\ PostConsumed(sums, q) \in LedgerSums
           /\ PostConsumed(sums, q).moved = sums.moved
           /\ PostConsumed(sums, q).consumed = sums.consumed + q
           /\ PostConsumed(sums, q).reserved = sums.reserved - q
BY DEF PostConsumed, LedgerSums

LEMMA PostReleasedFacts ==
    ASSUME NEW sums \in LedgerSums, NEW q \in Int
    PROVE  /\ PostReleased(sums, q) \in LedgerSums
           /\ PostReleased(sums, q).moved = sums.moved
           /\ PostReleased(sums, q).consumed = sums.consumed
           /\ PostReleased(sums, q).reserved = sums.reserved - q
BY DEF PostReleased, LedgerSums

LEMMA PostMovedFacts ==
    ASSUME NEW sums \in LedgerSums, NEW q \in Int
    PROVE  /\ PostMoved(sums, q) \in LedgerSums
           /\ PostMoved(sums, q).moved = sums.moved + q
           /\ PostMoved(sums, q).consumed = sums.consumed
           /\ PostMoved(sums, q).reserved = sums.reserved
BY DEF PostMoved, LedgerSums

LEMMA MovedRowFacts ==
    ASSUME NEW row \in StockRow, NEW q \in Int
    PROVE  /\ MovedRow(row, q) \in StockRow
           /\ MovedRow(row, q).onHand = row.onHand + q
           /\ MovedRow(row, q).reserved = row.reserved
BY DEF MovedRow, StockRow

LEMMA StartPrepKeeps ==
    ASSUME IInv, NEW o \in Orders, StartPrep(o)
    PROVE  IInv'
<1> DEFINE s == storeOf[o]
<1>1. /\ status[o] = "NEW" /\ s \in Stores
      /\ status' = [status EXCEPT ![o] = "IN_PREP"]
      /\ storeOf' = storeOf /\ stocked' = stocked
  BY DEF StartPrep, MoveTo, IInv, TypeOK
<1>2. \A l \in Lines : line'[l] = IF l[1] = o THEN ConsumedLine(l) ELSE line[l]
  BY DEF StartPrep, ConsumeOrder
<1>3. \A l \in OrderLines(o) : /\ line'[l] \in LineRow
                               /\ line'[l].reserved = line[l].reserved
                               /\ line'[l].consumed = line[l].consumed + Outstanding(l)
                               /\ line'[l].released = line[l].released
                               /\ Outstanding(l)' = 0
  <2> TAKE l \in OrderLines(o)
  <2>1. line'[l] = [line[l] EXCEPT !.consumed = @ + Outstanding(l)]
    BY <1>1, <1>2, LineShape DEF ConsumedLine
  <2>2. line[l] \in LineRow /\ Outstanding(l) + line[l].consumed \in 0..Capacity
    BY <1>1, LineShape
  <2>3. Outstanding(l) = line[l].reserved - line[l].consumed - line[l].released
    BY DEF Outstanding
  <2>4. Outstanding(l)' = line'[l].reserved - line'[l].consumed - line'[l].released
    BY DEF Outstanding
  <2> QED
    BY <2>1, <2>2, <2>3, <2>4, CapacityIsNat DEF LineRow
<1>4. line' \in [Lines -> LineRow]
  BY <1>2, <1>3 DEF StartPrep, ConsumeOrder, OrderLines, IInv, TypeOK
<1>5. \A k \in Shelves : k[1] = s => /\ Owed(o, k[2]) \in Nat
                                     /\ Owed(o, k[2]) <= stock[k].reserved
  BY OwedIsReserved
<1>6. \A k \in Shelves :
        /\ /\ stock[k] \in StockRow /\ ledger[k] \in LedgerSums
           /\ stock'[k] \in StockRow /\ ledger'[k] \in LedgerSums
        /\ k[1] = s => /\ stock'[k].onHand = stock[k].onHand - Owed(o, k[2])
                       /\ stock'[k].reserved = stock[k].reserved - Owed(o, k[2])
                       /\ ledger'[k].moved = ledger[k].moved
                       /\ ledger'[k].consumed = ledger[k].consumed + Owed(o, k[2])
                       /\ ledger'[k].reserved = ledger[k].reserved - Owed(o, k[2])
        /\ k[1] # s => stock'[k] = stock[k] /\ ledger'[k] = ledger[k]
  <2> TAKE k \in Shelves
  <2>1. stock[k] \in StockRow /\ ledger[k] \in LedgerSums
    BY DEF IInv, TypeOK
  <2>2. CASE k[1] = s
    <3>1. /\ stock'[k] = ConsumedRow(stock[k], Owed(o, k[2]))
          /\ ledger'[k] = PostConsumed(ledger[k], Owed(o, k[2]))
      BY <2>2 DEF StartPrep, ConsumeOrder
    <3>2. Owed(o, k[2]) \in Int
      BY <1>5, <2>2
    <3>3. /\ stock'[k] \in StockRow
          /\ stock'[k].onHand = stock[k].onHand - Owed(o, k[2])
          /\ stock'[k].reserved = stock[k].reserved - Owed(o, k[2])
      BY <2>1, <3>1, <3>2, ConsumedRowFacts
    <3>4. /\ ledger'[k] \in LedgerSums
          /\ ledger'[k].moved = ledger[k].moved
          /\ ledger'[k].consumed = ledger[k].consumed + Owed(o, k[2])
          /\ ledger'[k].reserved = ledger[k].reserved - Owed(o, k[2])
      BY <2>1, <3>1, <3>2, PostConsumedFacts
    <3> QED
      BY <2>1, <2>2, <3>3, <3>4
  <2>3. CASE k[1] # s
    BY <2>1, <2>3 DEF StartPrep, ConsumeOrder
  <2> QED
    BY <2>2, <2>3
<1>7. TypeOK'
  <2>1. stock' \in [Shelves -> StockRow] /\ ledger' \in [Shelves -> LedgerSums]
    BY <1>6 DEF StartPrep, ConsumeOrder
  <2> QED
    BY <1>1, <1>4, <2>1 DEF IInv, TypeOK, Statuses
<1>8. \A k \in Shelves :
        Total(OutstandingOf, ShelfLines(k[1], k[2]))'
          = IF k[1] = s THEN Total(OutstandingOf, ShelfLines(k[1], k[2])) - Owed(o, k[2])
                        ELSE Total(OutstandingOf, ShelfLines(k[1], k[2]))
  BY <1>1, <1>2, <1>3, SettledTotals
<1>9. ReservationsMatchLines'
  BY <1>6, <1>8 DEF IInv, ReservationsMatchLines
<1>10. NeverOverPromised'
  BY <1>1, <1>5, <1>6, CapacityIsNat DEF StockRow, IInv, NeverOverPromised
<1>11. \A k \in Shelves :
        Total(ConsumedOf, ShelfLines(k[1], k[2]))'
          = IF k[1] = s THEN Total(ConsumedOf, ShelfLines(k[1], k[2])) + Owed(o, k[2])
                        ELSE Total(ConsumedOf, ShelfLines(k[1], k[2]))
  <2> TAKE k \in Shelves
  <2> DEFINE D == ShelfLines(k[1], k[2])
             A == LinesOf(o, k[2])
             f == ConsumedOf
             g == ConsumedOf'
  <2>1. Total(ConsumedOf, ShelfLines(k[1], k[2]))' = Total(g, D)
    BY <1>1 DEF ShelfLines, Total, Units
  <2>2. \A l \in D : l[1] # o => f[l] = g[l]
    BY <1>2 DEF ShelfLines, ConsumedOf
  <2>3. \A l \in A : l \in OrderLines(o) /\ l \in Lines
    BY DEF LinesOf, OrderLines
  <2>4. CASE k[1] # s
    <3>1. \A l \in D : f[l] = g[l]
      BY <2>2, <2>4 DEF ShelfLines
    <3> QED
      BY <2>1, <2>4, <3>1, TotalCongruence
  <2>5. CASE k[1] = s
    <3>1. A \subseteq D /\ \A l \in D \ A : f[l] = g[l]
      BY <2>2, <2>5, OrderOnShelf DEF LinesOf, ShelfLines
    <3>2. Total(g, D) = Total(f, D) - Total(f, A) + Total(g, A)
      BY <3>1, ShelfLinesFinite, TotalReplace
    <3>3. /\ Total(f, D) \in Nat /\ Total(f, A) \in Nat
          /\ Total(g, A) \in Nat /\ Owed(o, k[2]) \in Nat
      BY ShelfLinesFinite, LinesOfFinite, TotalType DEF Owed
    <3>4. Total(g, A) = Total(f, A) + Owed(o, k[2])
      <4>1. CASE AllPromised(o)
        <5>1. \A l \in A : f[l] = 0 /\ g[l] = OutstandingOf[l]
          BY <1>1, <1>3, <2>3, <4>1, LineShape
             DEF AllPromised, ConsumedOf, OutstandingOf, LineRow
        <5>2. Total(f, A) = 0 /\ Total(g, A) = Owed(o, k[2])
          BY <5>1, TotalOfZeros, TotalCongruence DEF Owed
        <5> QED
          BY <5>2, <3>3
      <4>2. CASE AllConsumed(o)
        <5>1. \A l \in A : OutstandingOf[l] = 0 /\ g[l] = f[l]
          BY <1>1, <1>3, <2>3, <4>2, LineShape
             DEF AllConsumed, ConsumedOf, OutstandingOf, Outstanding, LineRow
        <5>2. Total(g, A) = Total(f, A) /\ Owed(o, k[2]) = 0
          BY <5>1, TotalOfZeros, TotalCongruence DEF Owed
        <5> QED
          BY <5>2, <3>3
      <4> QED
        BY <1>1, <4>1, <4>2 DEF IInv, LinesFollowStatus
    <3> QED
      BY <2>1, <2>5, <3>2, <3>3, <3>4
  <2> QED
    BY <2>4, <2>5
<1>12. StockMatchesLedger'
  BY <1>5, <1>6, <1>11 DEF StockRow, LedgerSums, IInv, StockMatchesLedger
<1>13. LinesFollowStatus'
  <2>1. AllConsumed(o)'
    <3>1. \A l \in OrderLines(o) : /\ line'[l].consumed = line'[l].reserved
                                   /\ line'[l].released = 0
      <4> TAKE l \in OrderLines(o)
      <4>1. line[l].released = 0
        BY <1>1 DEF IInv, LinesFollowStatus, AllPromised, AllConsumed
      <4> QED
        BY <1>1, <1>3, <4>1, LineShape DEF Outstanding, LineRow
    <3> QED
      BY <3>1 DEF AllConsumed, OrderLines
  <2>2. \A p \in Orders \ {o} : \A l \in OrderLines(p) : line'[l] = line[l]
    BY <1>2 DEF OrderLines
  <2>3. \A p \in Orders : OrderLines(p)' = OrderLines(p)
    BY DEF OrderLines
  <2> QED
    BY <1>1, <2>1, <2>2, <2>3
       DEF IInv, TypeOK, LinesFollowStatus, AllEmpty, AllPromised, AllConsumed, AllReleased
<1> QED
  BY <1>7, <1>9, <1>10, <1>12, <1>13 DEF IInv

\* Cancelling, by the kitchen or by an approved full refund.
LEMMA CancelKeeps ==
    ASSUME IInv, NEW o \in Orders, Cancel(o) \/ CancelByIssue(o)
    PROVE  IInv'
<1> DEFINE s == storeOf[o]
<1>1. /\ status[o] \in Statuses \ {"CANCELLED"} /\ s \in Stores
      /\ status' = [status EXCEPT ![o] = "CANCELLED"]
      /\ storeOf' = storeOf /\ stocked' = stocked
      /\ ReleaseReservation(o)
  BY DEF Cancel, CancelByIssue, MoveTo, Statuses, IInv, TypeOK
<1>a. status[o] # "ABSENT"
  BY <1>1 DEF Statuses
<1>2. \A l \in Lines : line'[l] = IF l[1] = o THEN ReleasedLine(l) ELSE line[l]
  BY <1>1 DEF ReleaseReservation
<1>3. \A l \in OrderLines(o) : /\ line'[l] \in LineRow
                               /\ line'[l].reserved = line[l].reserved
                               /\ line'[l].released = line[l].released + Outstanding(l)
                               /\ line'[l].consumed = line[l].consumed
                               /\ Outstanding(l)' = 0
  <2> TAKE l \in OrderLines(o)
  <2>1. line'[l] = [line[l] EXCEPT !.released = @ + Outstanding(l)]
    BY <1>a, <1>2, LineShape DEF ReleasedLine
  <2>2. line[l] \in LineRow /\ Outstanding(l) + line[l].released \in 0..Capacity
    BY <1>a, LineShape
  <2>3. Outstanding(l) = line[l].reserved - line[l].consumed - line[l].released
    BY DEF Outstanding
  <2>4. Outstanding(l)' = line'[l].reserved - line'[l].consumed - line'[l].released
    BY DEF Outstanding
  <2> QED
    BY <2>1, <2>2, <2>3, <2>4, CapacityIsNat DEF LineRow
<1>4. line' \in [Lines -> LineRow]
  BY <1>1, <1>2, <1>3 DEF ReleaseReservation, OrderLines, IInv, TypeOK
<1>5. \A k \in Shelves : k[1] = s => /\ Owed(o, k[2]) \in Nat
                                     /\ Owed(o, k[2]) <= stock[k].reserved
  BY OwedIsReserved
<1>6. \A k \in Shelves :
        /\ /\ stock[k] \in StockRow /\ ledger[k] \in LedgerSums
           /\ stock'[k] \in StockRow /\ ledger'[k] \in LedgerSums
        /\ k[1] = s => /\ stock'[k].onHand = stock[k].onHand
                       /\ stock'[k].reserved = stock[k].reserved - Owed(o, k[2])
                       /\ ledger'[k].moved = ledger[k].moved
                       /\ ledger'[k].consumed = ledger[k].consumed
                       /\ ledger'[k].reserved = ledger[k].reserved - Owed(o, k[2])
        /\ k[1] # s => stock'[k] = stock[k] /\ ledger'[k] = ledger[k]
  <2> TAKE k \in Shelves
  <2>1. stock[k] \in StockRow /\ ledger[k] \in LedgerSums
    BY DEF IInv, TypeOK
  <2>2. CASE k[1] = s
    <3>1. /\ stock'[k] = ReleasedRow(stock[k], Owed(o, k[2]))
          /\ ledger'[k] = PostReleased(ledger[k], Owed(o, k[2]))
      BY <1>1, <2>2 DEF ReleaseReservation
    <3>2. Owed(o, k[2]) \in Int
      BY <1>5, <2>2
    <3>3. /\ stock'[k] \in StockRow
          /\ stock'[k].onHand = stock[k].onHand
          /\ stock'[k].reserved = stock[k].reserved - Owed(o, k[2])
      BY <2>1, <3>1, <3>2, ReleasedRowFacts
    <3>4. /\ ledger'[k] \in LedgerSums
          /\ ledger'[k].moved = ledger[k].moved
          /\ ledger'[k].consumed = ledger[k].consumed
          /\ ledger'[k].reserved = ledger[k].reserved - Owed(o, k[2])
      BY <2>1, <3>1, <3>2, PostReleasedFacts
    <3> QED
      BY <2>1, <2>2, <3>3, <3>4
  <2>3. CASE k[1] # s
    BY <1>1, <2>1, <2>3 DEF ReleaseReservation
  <2> QED
    BY <2>2, <2>3
<1>7. TypeOK'
  <2>1. stock' \in [Shelves -> StockRow] /\ ledger' \in [Shelves -> LedgerSums]
    BY <1>1, <1>6 DEF ReleaseReservation
  <2> QED
    BY <1>1, <1>a, <1>4, <2>1 DEF IInv, TypeOK, Statuses
<1>8. \A k \in Shelves :
        Total(OutstandingOf, ShelfLines(k[1], k[2]))'
          = IF k[1] = s THEN Total(OutstandingOf, ShelfLines(k[1], k[2])) - Owed(o, k[2])
                        ELSE Total(OutstandingOf, ShelfLines(k[1], k[2]))
  BY <1>1, <1>2, <1>3, SettledTotals
<1>9. ReservationsMatchLines'
  BY <1>6, <1>8 DEF IInv, ReservationsMatchLines
<1>10. NeverOverPromised'
  BY <1>1, <1>5, <1>6, CapacityIsNat DEF StockRow, IInv, NeverOverPromised
<1>11. \A k \in Shelves :
        Total(ConsumedOf, ShelfLines(k[1], k[2]))' = Total(ConsumedOf, ShelfLines(k[1], k[2]))
  <2>1. \A l \in Lines : line'[l].consumed = line[l].consumed
    BY <1>2, <1>3 DEF OrderLines
  <2>2. ConsumedOf' = ConsumedOf
    BY <2>1 DEF ConsumedOf
  <2> QED
    BY <1>1, <2>2 DEF ShelfLines, Total, Units
<1>12. StockMatchesLedger'
  BY <1>5, <1>6, <1>11 DEF StockRow, LedgerSums, IInv, StockMatchesLedger
<1>13. LinesFollowStatus'
  <2>1. (AllConsumed(o) \/ AllReleased(o))'
    <3>1. CASE AllConsumed(o)
      <4>1. \A l \in OrderLines(o) : /\ line'[l].consumed = line'[l].reserved
                                     /\ line'[l].released = 0
        <5> TAKE l \in OrderLines(o)
        <5>1. line[l].consumed = line[l].reserved /\ line[l].released = 0
          BY <3>1 DEF AllConsumed
        <5>2. line[l] \in LineRow
          BY <1>a, LineShape
        <5>3. Outstanding(l) = 0
          BY <5>1, <5>2 DEF Outstanding, LineRow
        <5> QED
          BY <1>3, <5>1, <5>2, <5>3 DEF LineRow
      <4> QED
        BY <4>1 DEF AllConsumed, OrderLines
    <3>2. CASE AllPromised(o)
      <4>1. \A l \in OrderLines(o) : /\ line'[l].released = line'[l].reserved
                                     /\ line'[l].consumed = 0
        <5> TAKE l \in OrderLines(o)
        <5>1. line[l].consumed = 0 /\ line[l].released = 0
          BY <3>2 DEF AllPromised
        <5>2. line[l] \in LineRow
          BY <1>a, LineShape
        <5>3. Outstanding(l) = line[l].reserved
          BY <5>1, <5>2 DEF Outstanding, LineRow
        <5> QED
          BY <1>3, <5>1, <5>2, <5>3 DEF LineRow
      <4> QED
        BY <4>1 DEF AllReleased, OrderLines
    <3> QED
      BY <1>1, <3>1, <3>2 DEF IInv, LinesFollowStatus, Statuses
  <2>2. \A p \in Orders \ {o} : \A l \in OrderLines(p) : line'[l] = line[l]
    BY <1>2 DEF OrderLines
  <2>3. \A p \in Orders : OrderLines(p)' = OrderLines(p)
    BY DEF OrderLines
  <2> QED
    BY <1>1, <2>1, <2>2, <2>3
       DEF IInv, TypeOK, LinesFollowStatus, AllEmpty, AllPromised, AllConsumed, AllReleased
<1> QED
  BY <1>7, <1>9, <1>10, <1>12, <1>13 DEF IInv

LEMMA CreateOrderKeeps ==
    ASSUME IInv, NEW o \in Orders, NEW s \in Stores, NEW need \in [OrderLines(o) -> Needs],
           CreateOrder(o, s, need)
    PROVE  IInv'
<1>1. /\ status[o] = "ABSENT" /\ storeOf[o] = NoStore
      /\ status' = [status EXCEPT ![o] = "NEW"]
      /\ storeOf' = [storeOf EXCEPT ![o] = s]
      /\ stocked' = stocked
      /\ Satisfiable(need, o, s)
  BY DEF CreateOrder, IInv, TypeOK
<1>2. \A l \in Lines :
        line'[l] = IF l[1] = o THEN NewLine(need[l]) ELSE line[l]
  BY DEF CreateOrder
<1>3. \A l \in OrderLines(o) : /\ line'[l] \in LineRow
                               /\ line'[l].reserved = need[l]
                               /\ line'[l].consumed = 0
                               /\ line'[l].released = 0
                               /\ Outstanding(l)' = need[l]
  <2> TAKE l \in OrderLines(o)
  <2>1. line'[l] = NewLine(need[l])
    BY <1>2 DEF OrderLines
  <2>2. need[l] \in 0..Capacity
    BY NeedsFit
  <2>3. Outstanding(l)' = line'[l].reserved - line'[l].consumed - line'[l].released
    BY DEF Outstanding
  <2> QED
    BY <2>1, <2>2, <2>3, CapacityIsNat DEF LineRow, NewLine
<1>4. line' \in [Lines -> LineRow]
  BY <1>2, <1>3 DEF CreateOrder, OrderLines, IInv, TypeOK
<1>5. \A k \in Shelves :
        /\ Required(need, o, k[2]) \in Nat
        /\ k[1] = s /\ Required(need, o, k[2]) > 0 =>
              Required(need, o, k[2]) <= stock[k].onHand - stock[k].reserved
  <2> TAKE k \in Shelves
  <2>1. Required(need, o, k[2]) \in Nat
    BY LinesOfFinite, TotalType DEF Required
  <2>2. k[2] \in Ingredients /\ k = <<k[1], k[2]>>
    BY DEF Shelves
  <2> QED
    BY <1>1, <2>1, <2>2 DEF Satisfiable, Available
<1>6. \A k \in Shelves :
        /\ /\ stock[k] \in StockRow /\ ledger[k] \in LedgerSums
           /\ stock'[k] \in StockRow /\ ledger'[k] \in LedgerSums
        /\ k[1] = s => /\ stock'[k].onHand = stock[k].onHand
                       /\ stock'[k].reserved = stock[k].reserved + Required(need, o, k[2])
                       /\ ledger'[k].moved = ledger[k].moved
                       /\ ledger'[k].consumed = ledger[k].consumed
                       /\ ledger'[k].reserved = ledger[k].reserved + Required(need, o, k[2])
        /\ k[1] # s => stock'[k] = stock[k] /\ ledger'[k] = ledger[k]
  <2> TAKE k \in Shelves
  <2>1. stock[k] \in StockRow /\ ledger[k] \in LedgerSums
    BY DEF IInv, TypeOK
  <2>2. CASE k[1] = s
    <3>1. /\ stock'[k] = ReservedRow(stock[k], Required(need, o, k[2]))
          /\ ledger'[k] = PostReserved(ledger[k], Required(need, o, k[2]))
      BY <2>2 DEF CreateOrder
    <3>2. Required(need, o, k[2]) \in Int
      BY <1>5
    <3>3. /\ stock'[k] \in StockRow
          /\ stock'[k].onHand = stock[k].onHand
          /\ stock'[k].reserved = stock[k].reserved + Required(need, o, k[2])
      BY <2>1, <3>1, <3>2, ReservedRowFacts
    <3>4. /\ ledger'[k] \in LedgerSums
          /\ ledger'[k].moved = ledger[k].moved
          /\ ledger'[k].consumed = ledger[k].consumed
          /\ ledger'[k].reserved = ledger[k].reserved + Required(need, o, k[2])
      BY <2>1, <3>1, <3>2, PostReservedFacts
    <3> QED
      BY <2>1, <2>2, <3>3, <3>4
  <2>3. CASE k[1] # s
    BY <2>1, <2>3 DEF CreateOrder
  <2> QED
    BY <2>2, <2>3
<1>7. TypeOK'
  <2>1. stock' \in [Shelves -> StockRow] /\ ledger' \in [Shelves -> LedgerSums]
    BY <1>6 DEF CreateOrder
  <2> QED
    BY <1>1, <1>4, <2>1, NoStoreIsNone DEF IInv, TypeOK, Statuses
\* The new order's lines join the lines of its branch's shelves; every other line
\* stays on its shelf.
<1>8. \A k \in Shelves :
        /\ ShelfLines(k[1], k[2])'
              = IF k[1] = s THEN ShelfLines(k[1], k[2]) \cup LinesOf(o, k[2])
                            ELSE ShelfLines(k[1], k[2])
        /\ ShelfLines(k[1], k[2]) \cap OrderLines(o) = {}
  <2> TAKE k \in Shelves
  <2>1. k[1] # NoStore
    BY NoStoreIsNone DEF Shelves
  <2>2. \A l \in Lines : l[1] \in Orders
    BY DEF Lines
  <2>3. \A p \in Orders : storeOf'[p] = IF p = o THEN s ELSE storeOf[p]
    BY <1>1 DEF IInv, TypeOK
  <2> QED
    BY <1>1, <2>1, <2>2, <2>3 DEF ShelfLines, LinesOf, OrderLines
<1>9. \A k \in Shelves :
        /\ Total(OutstandingOf, ShelfLines(k[1], k[2]))'
              = IF k[1] = s
                THEN Total(OutstandingOf, ShelfLines(k[1], k[2])) + Required(need, o, k[2])
                ELSE Total(OutstandingOf, ShelfLines(k[1], k[2]))
        /\ Total(ConsumedOf, ShelfLines(k[1], k[2]))'
              = Total(ConsumedOf, ShelfLines(k[1], k[2]))
  <2> TAKE k \in Shelves
  <2> DEFINE D == ShelfLines(k[1], k[2])
             A == LinesOf(o, k[2])
             g == OutstandingOf'
             c == ConsumedOf'
  <2>1. \A l \in D : l \in Lines /\ l[1] # o
    BY <1>8 DEF ShelfLines, OrderLines
  <2>2. \A l \in D : g[l] = OutstandingOf[l] /\ c[l] = ConsumedOf[l]
    BY <1>2, <2>1 DEF OutstandingOf, Outstanding, ConsumedOf
  <2>3. \A l \in A : g[l] = need[l] /\ c[l] = 0
    BY <1>3 DEF LinesOf, OrderLines, OutstandingOf, ConsumedOf
  <2>4. /\ Total(g, D) = Total(OutstandingOf, D)
        /\ Total(c, D) = Total(ConsumedOf, D)
    BY <2>2, TotalCongruence
  <2>5. Total(g, A) = Required(need, o, k[2]) /\ Total(c, A) = 0
    BY <2>3, TotalCongruence, TotalOfZeros DEF Required
  <2>6. A \cap D = {} /\ IsFiniteSet(A) /\ IsFiniteSet(D)
    BY <2>1, ShelfLinesFinite, LinesOfFinite DEF LinesOf
  <2>7. /\ Total(g, D \cup A) = Total(g, D) + Total(g, A)
        /\ Total(c, D \cup A) = Total(c, D) + Total(c, A)
    BY <2>6, TotalSplit
  <2>8. /\ Total(OutstandingOf, ShelfLines(k[1], k[2]))' = Total(g, ShelfLines(k[1], k[2])')
        /\ Total(ConsumedOf, ShelfLines(k[1], k[2]))' = Total(c, ShelfLines(k[1], k[2])')
    BY DEF Total, Units
  <2>9. Total(ConsumedOf, D) \in Nat
    BY <2>6, TotalType
  <2> HIDE DEF D, A, g, c
  <2>10. ShelfLines(k[1], k[2])' = IF k[1] = s THEN D \cup A ELSE D
    BY <1>8 DEF D, A
  <2>11. CASE k[1] = s
    BY <2>4, <2>5, <2>7, <2>8, <2>9, <2>10, <2>11 DEF D
  <2>12. CASE k[1] # s
    BY <2>4, <2>8, <2>10, <2>12 DEF D
  <2> QED
    BY <2>11, <2>12
<1>10. ReservationsMatchLines'
  BY <1>6, <1>9 DEF IInv, ReservationsMatchLines
<1>11. NeverOverPromised'
  BY <1>1, <1>5, <1>6, CapacityIsNat DEF StockRow, IInv, NeverOverPromised
<1>12. StockMatchesLedger'
  BY <1>6, <1>9 DEF IInv, StockMatchesLedger
<1>13. LinesFollowStatus'
  <2>1. AllPromised(o)'
    BY <1>3 DEF AllPromised, OrderLines
  <2>2. \A p \in Orders \ {o} : \A l \in OrderLines(p) : line'[l] = line[l]
    BY <1>2 DEF OrderLines
  <2>3. \A p \in Orders : OrderLines(p)' = OrderLines(p)
    BY DEF OrderLines
  <2> QED
    BY <1>1, <2>1, <2>2, <2>3
       DEF IInv, TypeOK, LinesFollowStatus, AllEmpty, AllPromised, AllConsumed, AllReleased
<1> QED
  BY <1>7, <1>10, <1>11, <1>12, <1>13 DEF IInv

-----------------------------------------------------------------------------
(* The stock room *)

\* A step that leaves orders and lines alone leaves every total alone.
LEMMA FrameTotals ==
    ASSUME UNCHANGED <<status, storeOf, line>>, NEW k \in Shelves
    PROVE  /\ Total(OutstandingOf, ShelfLines(k[1], k[2]))'
                = Total(OutstandingOf, ShelfLines(k[1], k[2]))
           /\ Total(ConsumedOf, ShelfLines(k[1], k[2]))'
                = Total(ConsumedOf, ShelfLines(k[1], k[2]))
BY DEF Total, Units, OutstandingOf, Outstanding, ConsumedOf, ShelfLines

\* The shape every stock-room call has on one shelf: on-hand moves by d, the ledger
\* books d, and what is promised stays and stays covered.
Moved(k, d) ==
    /\ d \in Int
    /\ stock'[k] = MovedRow(stock[k], d)
    /\ ledger'[k] = PostMoved(ledger[k], d)
    /\ stock[k].onHand + d >= stock[k].reserved
    /\ stock[k].onHand + d <= Capacity
    /\ d # 0 => k \in stocked'

Untouched(k) == stock'[k] = stock[k] /\ ledger'[k] = ledger[k]

LEMMA StockRoomKeeps ==
    ASSUME IInv, UNCHANGED <<status, storeOf, line>>,
           stocked \subseteq stocked', stocked' \subseteq Shelves,
           stock' = [k \in Shelves |-> stock'[k]],
           ledger' = [k \in Shelves |-> ledger'[k]],
           \A k \in Shelves : Untouched(k) \/ \E d : Moved(k, d)
    PROVE  IInv'
<1>1. \A k \in Shelves :
        /\ stock[k] \in StockRow /\ ledger[k] \in LedgerSums
        /\ stock'[k] \in StockRow /\ ledger'[k] \in LedgerSums
        /\ stock'[k].reserved = stock[k].reserved
        /\ ledger'[k].reserved = ledger[k].reserved
        /\ ledger'[k].consumed = ledger[k].consumed
        /\ stock'[k].onHand - ledger'[k].moved = stock[k].onHand - ledger[k].moved
        /\ stock'[k].reserved <= stock'[k].onHand
        /\ stock'[k].onHand <= Capacity
        /\ k \notin stocked' => stock'[k].onHand = 0
  <2> TAKE k \in Shelves
  <2>1. stock[k] \in StockRow /\ ledger[k] \in LedgerSums
    BY DEF IInv, TypeOK
  <2>2. /\ stock[k].reserved <= stock[k].onHand /\ stock[k].onHand <= Capacity
        /\ k \notin stocked => stock[k].onHand = 0
    BY DEF IInv, NeverOverPromised
  <2>3. CASE Untouched(k)
    BY <2>1, <2>2, <2>3 DEF Untouched, StockRow, LedgerSums
  <2>4. CASE \E d : Moved(k, d)
    <3>1. PICK d : Moved(k, d)
      BY <2>4
    <3>2. d \in Int
      BY <3>1 DEF Moved
    <3>3. /\ stock'[k] \in StockRow
          /\ stock'[k].onHand = stock[k].onHand + d
          /\ stock'[k].reserved = stock[k].reserved
      BY <2>1, <3>1, <3>2, MovedRowFacts DEF Moved
    <3>4. /\ ledger'[k] \in LedgerSums
          /\ ledger'[k].moved = ledger[k].moved + d
          /\ ledger'[k].consumed = ledger[k].consumed
          /\ ledger'[k].reserved = ledger[k].reserved
      BY <2>1, <3>1, <3>2, PostMovedFacts DEF Moved
    <3>5. /\ stock[k].onHand + d >= stock[k].reserved
          /\ stock[k].onHand + d <= Capacity
          /\ d # 0 => k \in stocked'
      BY <3>1 DEF Moved
    <3> QED
      BY <2>1, <2>2, <3>2, <3>3, <3>4, <3>5, CapacityIsNat DEF StockRow, LedgerSums
  <2> QED
    BY <2>3, <2>4
<1>2. TypeOK'
  BY <1>1 DEF IInv, TypeOK
<1>3. ReservationsMatchLines'
  BY <1>1, FrameTotals DEF IInv, ReservationsMatchLines
<1>4. NeverOverPromised'
  BY <1>1 DEF IInv, NeverOverPromised
<1>5. StockMatchesLedger'
  <2> SUFFICES ASSUME NEW k \in Shelves
               PROVE  (/\ stock[k].onHand = ledger[k].moved - ledger[k].consumed
                       /\ stock[k].reserved = ledger[k].reserved
                       /\ ledger[k].consumed = Total(ConsumedOf, ShelfLines(k[1], k[2])))'
    BY DEF StockMatchesLedger
  <2>1. /\ stock[k].onHand = ledger[k].moved - ledger[k].consumed
        /\ stock[k].reserved = ledger[k].reserved
        /\ ledger[k].consumed = Total(ConsumedOf, ShelfLines(k[1], k[2]))
    BY DEF IInv, StockMatchesLedger
  <2>2. stock'[k].onHand = ledger'[k].moved - ledger'[k].consumed
    <3>1. /\ stock[k].onHand \in Int /\ ledger[k].moved \in Int /\ ledger[k].consumed \in Int
          /\ stock'[k].onHand \in Int /\ ledger'[k].moved \in Int
      BY <1>1 DEF StockRow, LedgerSums
    <3>2. /\ stock'[k].onHand - ledger'[k].moved = stock[k].onHand - ledger[k].moved
          /\ ledger'[k].consumed = ledger[k].consumed
      BY <1>1
    <3> QED
      BY <2>1, <3>1, <3>2
  <2>3. ledger'[k].consumed = Total(ConsumedOf, ShelfLines(k[1], k[2]))'
    BY <1>1, <2>1, FrameTotals
  <2> QED
    BY <1>1, <2>1, <2>2, <2>3
<1>6. LinesFollowStatus'
  BY DEF IInv, LinesFollowStatus, AllEmpty, AllPromised, AllConsumed, AllReleased
<1> QED
  BY <1>2, <1>3, <1>4, <1>5, <1>6 DEF IInv

\* The stock room never touches an order.
LEMMA StockRoomFrame ==
    ASSUME NEW s \in Stores, NEW i \in Ingredients, NEW q \in Quantities, StockRoom(s, i, q)
    PROVE  UNCHANGED <<status, storeOf, line>>
<1>1. ASSUME NEW d, ManualMovement(s, i, d) PROVE UNCHANGED <<status, storeOf, line>>
  BY <1>1 DEF ManualMovement
<1>2. CASE PurchaseReceipt(s, i, q) \/ Waste(s, i, q) \/ ManualAdjustment(s, i, q)
  BY <1>1, <1>2 DEF PurchaseReceipt, Waste, ManualAdjustment
<1>3. CASE StockCount(s, i, q)
  BY <1>3 DEF StockCount
<1>4. CASE \E t \in Stores : TransferStock(s, t, i, q)
  BY <1>4 DEF TransferStock
<1> QED
  BY <1>2, <1>3, <1>4 DEF StockRoom

LEMMA ManualMovementKeeps ==
    ASSUME IInv, NEW s \in Stores, NEW i \in Ingredients, NEW d \in Int,
           ManualMovement(s, i, d)
    PROVE  IInv'
<1> DEFINE h == <<s, i>>
<1>1. h \in Shelves /\ h \in stocked
  BY DEF ManualMovement, MovementAllowed, Shelves
<1>2. Moved(h, d)
  BY <1>1 DEF ManualMovement, MovementAllowed, Moved, IInv, TypeOK
<1>3. \A k \in Shelves : k # h => Untouched(k)
  BY <1>1 DEF ManualMovement, Untouched, IInv, TypeOK
<1>4. /\ stock' = [k \in Shelves |-> stock'[k]]
      /\ ledger' = [k \in Shelves |-> ledger'[k]]
      /\ stocked' = stocked /\ stocked' \subseteq Shelves
      /\ UNCHANGED <<status, storeOf, line>>
  BY <1>1 DEF ManualMovement, IInv, TypeOK
<1> HIDE DEF h
<1>5. \A k \in Shelves : Untouched(k) \/ \E e : Moved(k, e)
  BY <1>2, <1>3
<1> QED
  BY <1>4, <1>5, StockRoomKeeps

LEMMA StockCountKeeps ==
    ASSUME IInv, NEW s \in Stores, NEW i \in Ingredients, NEW counted \in Quantities,
           StockCount(s, i, counted)
    PROVE  IInv'
<1> DEFINE h == <<s, i>>
           d == counted - stock[h].onHand
<1>1. h \in Shelves /\ h \in stocked /\ counted >= stock[h].reserved
  BY DEF StockCount, CountAllowed, Shelves
<1>2. stock[h] \in StockRow /\ counted \in 0..Capacity
  BY <1>1, QuantitiesFit DEF IInv, TypeOK
<1>3. d \in Int /\ stock[h].onHand + d = counted
  BY <1>2, CapacityIsNat DEF StockRow
<1>4. /\ stock'[h] = MovedRow(stock[h], d)
      /\ ledger'[h] = PostMoved(ledger[h], d)
      /\ stocked' = stocked
  BY <1>1 DEF StockCount, IInv, TypeOK
<1>5. Moved(h, d)
  BY <1>1, <1>2, <1>3, <1>4, CapacityIsNat DEF Moved
<1>6. \A k \in Shelves : k # h => Untouched(k)
  BY <1>1 DEF StockCount, Untouched, IInv, TypeOK
<1>7. /\ stock' = [k \in Shelves |-> stock'[k]]
      /\ ledger' = [k \in Shelves |-> ledger'[k]]
      /\ stocked' = stocked /\ stocked' \subseteq Shelves
      /\ UNCHANGED <<status, storeOf, line>>
  BY <1>1 DEF StockCount, IInv, TypeOK
<1> HIDE DEF h, d
<1>8. \A k \in Shelves : Untouched(k) \/ \E e : Moved(k, e)
  BY <1>5, <1>6
<1> QED
  BY <1>7, <1>8, StockRoomKeeps

LEMMA TransferKeeps ==
    ASSUME IInv, NEW s \in Stores, NEW t \in Stores, NEW i \in Ingredients,
           NEW q \in Quantities, TransferStock(s, t, i, q)
    PROVE  IInv'
<1> DEFINE from == <<s, i>>
           to == <<t, i>>
<1>1. /\ from \in Shelves /\ to \in Shelves /\ from # to
      /\ q \in Nat /\ q > 0
      /\ from \in stocked /\ stock[from].onHand - stock[from].reserved >= q
      /\ stock[to].onHand + q <= Capacity
  BY QuantitiesFit, CapacityIsNat DEF TransferStock, TransferAllowed, Available, Shelves
<1>2. /\ stock[from] \in StockRow /\ stock[to] \in StockRow
      /\ stock[from].onHand <= Capacity
      /\ stock[to].reserved <= stock[to].onHand
  BY <1>1 DEF IInv, TypeOK, NeverOverPromised
<1>3. stocked' = stocked \cup {to}
  BY DEF TransferStock
<1>4. Moved(from, -q)
  <2>1. /\ stock'[from] = MovedRow(stock[from], -q)
        /\ ledger'[from] = PostMoved(ledger[from], -q)
    BY <1>1 DEF TransferStock, IInv, TypeOK
  <2> QED
    BY <1>1, <1>2, <1>3, <2>1, CapacityIsNat DEF Moved, StockRow
<1>5. Moved(to, q)
  <2>1. /\ stock'[to] = MovedRow(stock[to], q)
        /\ ledger'[to] = PostMoved(ledger[to], q)
    BY <1>1 DEF TransferStock, IInv, TypeOK
  <2> QED
    BY <1>1, <1>2, <1>3, <2>1, CapacityIsNat DEF Moved, StockRow
<1>6. \A k \in Shelves : k # from /\ k # to => Untouched(k)
  BY <1>1 DEF TransferStock, Untouched, IInv, TypeOK
<1>7. /\ stock' = [k \in Shelves |-> stock'[k]]
      /\ ledger' = [k \in Shelves |-> ledger'[k]]
      /\ stocked \subseteq stocked' /\ stocked' \subseteq Shelves
      /\ UNCHANGED <<status, storeOf, line>>
  BY <1>1, <1>3 DEF TransferStock, IInv, TypeOK
<1> HIDE DEF from, to
<1>8. \A k \in Shelves : Untouched(k) \/ \E d : Moved(k, d)
  BY <1>4, <1>5, <1>6
<1> QED
  BY <1>7, <1>8, StockRoomKeeps

-----------------------------------------------------------------------------
(* The theorems *)

LEMMA NextKeeps ==
    ASSUME IInv, [Next]_vars
    PROVE  IInv'
<1>1. CASE UNCHANGED vars
  <2>1. /\ stock' = [k \in Shelves |-> stock'[k]]
        /\ ledger' = [k \in Shelves |-> ledger'[k]]
        /\ stocked' = stocked /\ stocked' \subseteq Shelves
    BY <1>1 DEF vars, IInv, TypeOK
  <2>2. \A k \in Shelves : Untouched(k) \/ \E d : Moved(k, d)
    BY <1>1 DEF vars, Untouched
  <2> QED
    BY <1>1, <2>1, <2>2, StockRoomKeeps DEF vars
<1>2. CASE \E o \in Orders, s \in Stores : \E need \in [OrderLines(o) -> Needs] :
                CreateOrder(o, s, need)
  BY <1>2, CreateOrderKeeps
<1>3. CASE \E o \in Orders : Kitchen(o)
  <2>1. PICK o \in Orders : Kitchen(o)
    BY <1>3
  <2>2. CASE StartPrep(o)
    BY <2>2, StartPrepKeeps
  <2>3. CASE Cancel(o) \/ CancelByIssue(o)
    BY <2>3, CancelKeeps
  <2>4. CASE MarkReady(o) \/ Deliver(o) \/ UndoStart(o) \/ UndoReady(o)
    BY <2>4, PlainMoveKeeps
  <2> QED
    BY <2>1, <2>2, <2>3, <2>4 DEF Kitchen
<1>4. CASE \E s \in Stores, i \in Ingredients, q \in Quantities : StockRoom(s, i, q)
  <2>1. PICK s \in Stores, i \in Ingredients, q \in Quantities : StockRoom(s, i, q)
    BY <1>4
  <2>2. q \in Int /\ -q \in Int
    BY QuantitiesFit, CapacityIsNat
  <2>3. CASE PurchaseReceipt(s, i, q) \/ Waste(s, i, q) \/ ManualAdjustment(s, i, q)
    <3>1. ManualMovement(s, i, q) \/ ManualMovement(s, i, -q)
      BY <2>3 DEF PurchaseReceipt, Waste, ManualAdjustment
    <3> QED
      BY <2>2, <3>1, ManualMovementKeeps
  <2>4. CASE StockCount(s, i, q)
    BY <2>4, StockCountKeeps
  <2>5. CASE \E t \in Stores : TransferStock(s, t, i, q)
    BY <2>5, TransferKeeps
  <2> QED
    BY <2>1, <2>3, <2>4, <2>5 DEF StockRoom
<1> QED
  BY <1>1, <1>2, <1>3, <1>4 DEF Next

\* Every reachable state satisfies the inductive invariant.
THEOREM InventoryInvariant == Spec => []IInv
<1>1. Init => IInv
  BY InitIsGood
<1>2. IInv /\ [Next]_vars => IInv'
  BY NextKeeps
<1> QED
  BY <1>1, <1>2, PTL DEF Spec

\* Every table keeps holding what its columns may hold, and an order has a branch
\* exactly from its creation on.
THEOREM TypeCorrect == Spec => []TypeOK
<1>1. IInv => TypeOK
  BY DEF IInv
<1> QED
  BY <1>1, InventoryInvariant, PTL

\* No reservation leaks and none is given back twice: a shelf's reserved figure is
\* always the sum of what the branch's order lines still have outstanding.
THEOREM ReservationsNeverLeak == Spec => []ReservationsMatchLines
<1>1. IInv => ReservationsMatchLines
  BY DEF IInv
<1> QED
  BY <1>1, InventoryInvariant, PTL

\* No branch ever promises more than it has, so the stock constraints never fire.
THEOREM NeverOversold == Spec => []NeverOverPromised
<1>1. IInv => NeverOverPromised
  BY DEF IInv
<1> QED
  BY <1>1, InventoryInvariant, PTL

\* The summary rows always mirror the ledger, and the ledger's consumption is what
\* the order lines say was cooked.
THEOREM LedgerExplainsStock == Spec => []StockMatchesLedger
<1>1. IInv => StockMatchesLedger
  BY DEF IInv
<1> QED
  BY <1>1, InventoryInvariant, PTL

\* An order's lines always stand where its status says, through undos and restarts.
THEOREM LinesAlwaysFollowStatus == Spec => []LinesFollowStatus
<1>1. IInv => LinesFollowStatus
  BY DEF IInv
<1> QED
  BY <1>1, InventoryInvariant, PTL

\* An accepted order can always be started from its own branch's shelf, whatever the
\* stock room and the other orders did since it was accepted.
THEOREM AcceptedOrdersStayCookable == Spec => []AcceptedOrderCanBeCooked
<1>1. IInv => AcceptedOrderCanBeCooked
  <2> SUFFICES ASSUME IInv, NEW o \in Orders, NEW i \in Ingredients,
                      status[o] = "NEW", Owed(o, i) > 0
               PROVE  /\ <<storeOf[o], i>> \in stocked
                      /\ Owed(o, i) <= stock[<<storeOf[o], i>>].onHand
                      /\ Owed(o, i) <= stock[<<storeOf[o], i>>].reserved
    BY DEF AcceptedOrderCanBeCooked
  <2> DEFINE k == <<storeOf[o], i>>
  <2>1. k \in Shelves /\ k[1] = storeOf[o] /\ k[2] = i /\ stock[k] \in StockRow
    BY DEF IInv, TypeOK, Shelves
  <2>2. Owed(o, i) \in Nat /\ Owed(o, i) <= stock[k].reserved
    BY <2>1, OwedIsReserved
  <2>3. /\ stock[k].reserved <= stock[k].onHand
        /\ k \notin stocked => stock[k].onHand = 0
    BY <2>1 DEF IInv, NeverOverPromised
  <2> QED
    BY <2>1, <2>2, <2>3 DEF StockRow
<1> QED
  BY <1>1, InventoryInvariant, PTL

\* What happens to an order moves stock in the order's own branch only, for every
\* number of branches.
THEOREM BranchesAreIsolated == Spec => BranchIsolation
<1> DEFINE Isolated == \A o \in Orders :
                          status'[o] # status[o] =>
                              \A k \in Shelves : k[1] # storeOf'[o] => stock'[k] = stock[k]
<1>1. ASSUME IInv, [Next]_vars PROVE [Isolated]_vars
  <2> SUFFICES ASSUME Next, NEW o \in Orders, status'[o] # status[o],
                      NEW k \in Shelves, k[1] # storeOf'[o]
               PROVE  stock'[k] = stock[k]
    BY <1>1
  <2>1. CASE \E p \in Orders, s \in Stores : \E need \in [OrderLines(p) -> Needs] :
                CreateOrder(p, s, need)
    <3>1. PICK p \in Orders, s \in Stores : \E need \in [OrderLines(p) -> Needs] :
                  CreateOrder(p, s, need)
      BY <2>1
    <3>2. /\ status' = [status EXCEPT ![p] = "NEW"]
          /\ storeOf' = [storeOf EXCEPT ![p] = s]
          /\ k[1] # s => stock'[k] = stock[k]
      BY <3>1 DEF CreateOrder
    <3>3. o = p /\ storeOf'[p] = s
      BY <1>1, <3>2 DEF IInv, TypeOK
    <3> QED
      BY <3>2, <3>3
  <2>2. CASE \E p \in Orders : Kitchen(p)
    <3>1. PICK p \in Orders : Kitchen(p)
      BY <2>2
    <3>2. storeOf' = storeOf /\ (\E to : status' = [status EXCEPT ![p] = to])
      BY <3>1 DEF Kitchen, StartPrep, MarkReady, Deliver, Cancel, CancelByIssue, UndoStart,
                  UndoReady, MoveTo
    <3>3. o = p
      BY <1>1, <3>2 DEF IInv, TypeOK
    <3>4. k[1] # storeOf[p] => stock'[k] = stock[k]
      BY <3>1 DEF Kitchen, StartPrep, MarkReady, Deliver, Cancel, CancelByIssue, UndoStart,
                  UndoReady, ConsumeOrder, ReleaseReservation
    <3> QED
      BY <3>2, <3>3, <3>4
  <2>3. CASE \E s \in Stores, i \in Ingredients, q \in Quantities : StockRoom(s, i, q)
    BY <2>3, StockRoomFrame
  <2> QED
    BY <2>1, <2>2, <2>3 DEF Next
<1> QED
  BY <1>1, InventoryInvariant, PTL DEF Spec, BranchIsolation

\* A line's promise is settled once, whole and in one way; no later step, no undo and
\* no second start touches it.
THEOREM LinesSettleOnce == Spec => LineSettlesOnce
<1> DEFINE Once(l) ==
              /\ line[l].consumed = 0 /\ line[l].released = 0
              /\ line'[l].reserved = line[l].reserved
              /\ line'[l].consumed + line'[l].released = line[l].reserved
              /\ line'[l].consumed = 0 \/ line'[l].released = 0
           Settles == \A l \in Lines :
                        status[l[1]] # "ABSENT" /\ line'[l] # line[l] => Once(l)
<1>1. ASSUME IInv, [Next]_vars PROVE [Settles]_vars
  <2> SUFFICES ASSUME Next, NEW l \in Lines, status[l[1]] # "ABSENT", line'[l] # line[l]
               PROVE  Once(l)
    BY <1>1
  <2> DEFINE o == l[1]
  <2>1. /\ o \in Orders /\ l \in OrderLines(o)
        /\ line[l] \in LineRow /\ line[l].reserved \in Nat
    BY <1>1, CapacityIsNat DEF Lines, OrderLines, IInv, TypeOK, LineRow
  <2>2. Outstanding(l) = line[l].reserved - line[l].consumed - line[l].released
    BY DEF Outstanding
  <2>3. \/ line[l].consumed = 0 /\ line[l].released = 0
        \/ line[l].consumed + line[l].released = line[l].reserved
    BY <1>1, <2>1 DEF LineRow, IInv, TypeOK, LinesFollowStatus, AllPromised, AllConsumed,
                      AllReleased, Statuses
  <2>4. line'[l] = ConsumedLine(l) \/ line'[l] = ReleasedLine(l)
    <3>1. CASE \E p \in Orders, s \in Stores : \E need \in [OrderLines(p) -> Needs] :
                  CreateOrder(p, s, need)
      <4>1. PICK p \in Orders : status[p] = "ABSENT" /\ (l[1] # p => line'[l] = line[l])
        BY <3>1 DEF CreateOrder
      <4> QED
        BY <4>1
    <3>2. CASE \E p \in Orders : Kitchen(p)
      BY <3>2 DEF Kitchen, StartPrep, MarkReady, Deliver, Cancel, CancelByIssue, UndoStart,
                  UndoReady, ConsumeOrder, ReleaseReservation
    <3>3. CASE \E s \in Stores, i \in Ingredients, q \in Quantities : StockRoom(s, i, q)
      BY <3>3, StockRoomFrame
    <3> QED
      BY <3>1, <3>2, <3>3 DEF Next
  <2>5. CASE line[l].consumed = 0 /\ line[l].released = 0
    BY <2>1, <2>2, <2>4, <2>5 DEF ConsumedLine, ReleasedLine, LineRow
  <2>6. CASE line[l].consumed + line[l].released = line[l].reserved
    <3>1. Outstanding(l) = 0
      BY <2>1, <2>2, <2>6 DEF LineRow
    <3>2. line'[l] = line[l]
      BY <2>1, <2>4, <3>1, CapacityIsNat DEF ConsumedLine, ReleasedLine, LineRow
    <3> QED
      BY <3>2
  <2> QED
    BY <2>3, <2>5, <2>6
<1> QED
  BY <1>1, InventoryInvariant, PTL DEF Spec, LineSettlesOnce

-----------------------------------------------------------------------------
(* The screens. The menu, the alerts, the owner's table and the dashboard each
   classify a shelf by rules of their own; the invariant gives them the same
   quantities, none of them negative. *)

\* Where the services' gates hold, the two figures of a shelf are quantities.
LEMMA ShelfFigures ==
    ASSUME IInv, NEW k \in Shelves
    PROVE  /\ stock[k].onHand \in Int /\ stock[k].reserved \in Int
           /\ 0 <= stock[k].reserved /\ stock[k].reserved <= stock[k].onHand
<1>1. stock[k] \in StockRow
  BY DEF IInv, TypeOK
<1>2. stock[k].onHand \in Int /\ stock[k].reserved \in Int
  BY <1>1 DEF StockRow
<1> QED
  BY <1>2 DEF IInv, NeverOverPromised

LEMMA AvailableIsNat ==
    ASSUME IInv, NEW s \in Stores, NEW i \in Ingredients
    PROVE  /\ Available(s, i) \in Nat
           /\ Available(s, i) = stock[<<s, i>>].onHand - stock[<<s, i>>].reserved
<1>1. <<s, i>> \in Shelves
  BY DEF Shelves
<1> QED
  BY <1>1, ShelfFigures DEF Available

\* The stored figures are what the ledger and the order lines say.
LEMMA NothingToReconcile == ASSUME IInv PROVE Mismatches = {}
<1> SUFFICES ASSUME NEW k \in Mismatches PROVE FALSE
  OBVIOUS
<1>1. k \in Shelves /\ (OnHandDrift(k) # 0 \/ ReservedDrift(k) # 0)
  BY DEF Mismatches, IInv, TypeOK
<1>2. /\ stock[k].onHand = ledger[k].moved - ledger[k].consumed
      /\ stock[k].reserved = Total(OutstandingOf, ShelfLines(k[1], k[2]))
  BY <1>1 DEF IInv, StockMatchesLedger, ReservationsMatchLines
<1>3. stock[k].onHand \in Int /\ stock[k].reserved \in Int
  BY <1>1, ShelfFigures
<1> QED
  BY <1>1, <1>2, <1>3 DEF OnHandDrift, ReservedDrift

\* The three levels of a row of thresholds.
LEMMA LevelTypes ==
    ASSUME NEW t \in ThresholdRows
    PROVE  /\ t.critical \in Int \cup {NotSet} /\ t["critical"] = t.critical
           /\ t.minimum \in Int \cup {NotSet} /\ t["minimum"] = t.minimum
           /\ t.target \in Int \cup {NotSet} /\ t["target"] = t.target
           /\ NotSet \notin Int
<1>1. Levels \cup {NotSet, -1} \subseteq Int \cup {NotSet}
  <2>1. 0..Capacity \subseteq Int /\ -1 \in Int
    OBVIOUS
  <2> QED
    BY <2>1, LevelsAreQuantities
<1> QED
  BY <1>1, LevelsAreQuantities DEF ThresholdRows

\* The audit and the save have the same rules.
LEMMA AuditMatchesSave ==
    ASSUME NEW t \in ThresholdRows
    PROVE  Coherent(t) <=> ThresholdIssues(t) = {}
<1>1. ThresholdIssues(t) = {} <=>
        /\ \A level \in {"critical", "minimum", "target"} : ~(t[level] # NotSet /\ t[level] < 0)
        /\ \A pair \in {<<"critical", "minimum">>, <<"minimum", "target">>, <<"critical", "target">>} :
              ~(NotSet \notin {t[pair[1]], t[pair[2]]} /\ t[pair[1]] > t[pair[2]])
  BY DEF ThresholdIssues
<1>2. (\A level \in {"critical", "minimum", "target"} : ~(t[level] # NotSet /\ t[level] < 0))
        <=> \A level \in {t.critical, t.minimum, t.target} : AtMost(0, level)
  <2>1. (\A level \in {"critical", "minimum", "target"} : ~(t[level] # NotSet /\ t[level] < 0))
          <=> /\ ~(t.critical # NotSet /\ t.critical < 0)
              /\ ~(t.minimum # NotSet /\ t.minimum < 0)
              /\ ~(t.target # NotSet /\ t.target < 0)
    BY LevelTypes
  <2>2. \A n \in Int \cup {NotSet} : AtMost(0, n) <=> ~(n # NotSet /\ n < 0)
    BY LevelTypes DEF AtMost
  <2> QED
    BY <2>1, <2>2, LevelTypes
<1>3. ASSUME NEW a \in Int \cup {NotSet}, NEW b \in Int \cup {NotSet}
      PROVE  AtMost(a, b) <=> ~(NotSet \notin {a, b} /\ a > b)
  BY LevelTypes DEF AtMost
<1>4. (\A pair \in {<<"critical", "minimum">>, <<"minimum", "target">>, <<"critical", "target">>} :
          ~(NotSet \notin {t[pair[1]], t[pair[2]]} /\ t[pair[1]] > t[pair[2]]))
        <=> /\ ~(NotSet \notin {t.critical, t.minimum} /\ t.critical > t.minimum)
            /\ ~(NotSet \notin {t.minimum, t.target} /\ t.minimum > t.target)
            /\ ~(NotSet \notin {t.critical, t.target} /\ t.critical > t.target)
  BY LevelTypes
<1> QED
  BY <1>1, <1>2, <1>3, <1>4, LevelTypes DEF Coherent

\* Only a branch that stocks something, and alone does, answers for a menu
\* without a table.
LEMMA UngatedMenuIsOfOneBranch ==
    ASSUME IInv, NEW s \in UngatedStores
    PROVE  stocked \subseteq {s} \X Ingredients
<1>1. stocked \subseteq Stores \X Ingredients
  BY DEF IInv, TypeOK, Shelves
<1>2. IsFiniteSet(StockedStores)
  <2>1. StockedStores \subseteq Stores
    BY <1>1 DEF StockedStores
  <2> QED
    BY <2>1, StoresAreFinite, FS_Subset
<1>3. CASE Cardinality(StockedStores) = 1
  <2>1. PICK x : StockedStores = {x}
    BY <1>2, <1>3, FS_Singleton
  <2>2. s = x
    BY <1>3, <2>1 DEF UngatedStores
  <2> QED
    BY <1>1, <2>1, <2>2 DEF StockedStores
<1>4. CASE StockedStores = {}
  BY <1>1, <1>4 DEF StockedStores
<1> QED
  BY <1>3, <1>4 DEF UngatedStores

\* What a shelf's figures and its levels come to on the screens.
LEMMA StatusFacts ==
    ASSUME NEW onHand \in Int, NEW reserved \in Int, reserved <= onHand, NEW t \in ThresholdRows
    PROVE  LET shown == ThresholdStatus(onHand, reserved, t)
               available == onHand - reserved
           IN  /\ shown # "BELOW_RESERVED"
               /\ available = 0 <=> shown = "OUT_OF_STOCK"
               /\ Reached(available, t.critical) => shown \in {"OUT_OF_STOCK", "CRITICAL"}
               /\ Reached(available, t.minimum) => shown \in {"OUT_OF_STOCK", "CRITICAL", "LOW"}
               /\ available > 0 /\ ~Reached(available, t.critical) /\ ~Reached(available, t.minimum) =>
                      shown \in {"HEALTHY", "NOT_CONFIGURED"}
<1> DEFINE available == onHand - reserved
<1>1. available \in Int /\ ~(available < 0) /\ (available = 0 \/ available > 0)
  OBVIOUS
<1>2. \A level : Reached(available, level) <=> level # NotSet /\ available <= level
  BY DEF Reached
<1>3. CASE available = 0
  BY <1>1, <1>3 DEF ThresholdStatus
<1>4. CASE available > 0 /\ t.critical = NotSet /\ t.minimum = NotSet
  BY <1>1, <1>2, <1>4 DEF ThresholdStatus
<1>5. CASE available > 0 /\ ~(t.critical = NotSet /\ t.minimum = NotSet) /\ Reached(available, t.critical)
  BY <1>1, <1>2, <1>5 DEF ThresholdStatus
<1>6. CASE /\ available > 0 /\ ~(t.critical = NotSet /\ t.minimum = NotSet)
           /\ ~Reached(available, t.critical) /\ Reached(available, t.minimum)
  BY <1>1, <1>2, <1>6 DEF ThresholdStatus
<1>7. CASE /\ available > 0 /\ ~(t.critical = NotSet /\ t.minimum = NotSet)
           /\ ~Reached(available, t.critical) /\ ~Reached(available, t.minimum)
  BY <1>1, <1>2, <1>7 DEF ThresholdStatus
<1> QED
  BY <1>1, <1>3, <1>4, <1>5, <1>6, <1>7

\* The menu, the owner's table and the alert screen draw the line at the same place.
LEMMA TableMatchesMenu ==
    ASSUME NEW available \in Nat, NEW reorder \in Int
    PROVE  /\ StockStatus(available, reorder) = "out_of_stock" <=> available = 0
           /\ Severity(available, reorder) = "critical" <=> available = 0
           /\ Severity(available, reorder) \in {"warning", "low"} <=>
                 StockStatus(available, reorder) = "low_stock"
<1>1. CASE available = 0
  <2>1. available <= 0
    BY <1>1
  <2>2. StockStatus(available, reorder) = "out_of_stock"
    BY <2>1 DEF StockStatus
  <2>3. Severity(available, reorder) = "critical"
    BY <1>1 DEF Severity, UpToHalfAbove
  <2> QED
    BY <1>1, <2>2, <2>3
<1>2. CASE available > 0 /\ reorder > 0 /\ available <= reorder
  <2>1. UpToHalfAbove(reorder, available)
    BY <1>2 DEF UpToHalfAbove
  <2>2. StockStatus(available, reorder) = "low_stock"
    BY <1>2, <2>1 DEF StockStatus
  <2>3. Severity(available, reorder) = "warning"
    BY <1>2 DEF Severity
  <2> QED
    BY <1>2, <2>2, <2>3
<1>3. CASE available > 0 /\ ~(reorder > 0 /\ available <= reorder) /\ UpToHalfAbove(reorder, available)
  <2>1. available > reorder
    BY <1>3 DEF UpToHalfAbove
  <2>2. StockStatus(available, reorder) = "low_stock"
    BY <1>3 DEF StockStatus
  <2>3. Severity(available, reorder) = "low"
    BY <1>3, <2>1 DEF Severity
  <2> QED
    BY <1>3, <2>2, <2>3
<1>4. CASE available > 0 /\ ~(reorder > 0 /\ available <= reorder) /\ ~UpToHalfAbove(reorder, available)
  <2>1. StockStatus(available, reorder) = "in_stock"
    BY <1>4 DEF StockStatus
  <2>2. Severity(available, reorder) = "ok"
    BY <1>4 DEF Severity
  <2> QED
    BY <1>4, <2>1, <2>2
<1> QED
  BY <1>1, <1>2, <1>3, <1>4

\* Buying what is recommended brings the shelf to its target or leaves it above, and
\* no level lies there unless it is the target itself.
LEMMA RestockClears ==
    ASSUME NEW onHand \in Int, NEW reserved \in Int, reserved <= onHand,
           NEW t \in SavedThresholds, t.target # NotSet, t.target > 0,
           ~Reached(t.target, t.minimum), ~Reached(t.target, t.critical)
    PROVE  LET restocked == onHand + RecommendedRestock(onHand - reserved, t) IN
           ThresholdStatus(restocked, reserved, t) \in {"HEALTHY", "NOT_CONFIGURED"}
<1> DEFINE restocked == onHand + RecommendedRestock(onHand - reserved, t)
           available == restocked - reserved
<1>1. t \in ThresholdRows /\ t.target \in Int
  BY LevelTypes DEF SavedThresholds
<1>2. restocked \in Int /\ available \in Int /\ available >= t.target
  BY <1>1 DEF RecommendedRestock
<1>3. available > 0 /\ reserved <= restocked
  BY <1>1, <1>2
<1>4. ASSUME NEW level \in Int \cup {NotSet}, ~Reached(t.target, level)
      PROVE  ~Reached(available, level)
  <2> HIDE DEF restocked
  <2> QED
    BY <1>1, <1>2, <1>4 DEF Reached
<1>5. ~Reached(available, t.critical) /\ ~Reached(available, t.minimum)
  BY <1>1, <1>4, LevelTypes
<1>6. ThresholdStatus(restocked, reserved, t) \in {"HEALTHY", "NOT_CONFIGURED"}
  <2> HIDE DEF restocked
  <2> QED
    BY <1>1, <1>2, <1>3, <1>5, StatusFacts
<1> QED
  BY <1>6

LEMMA NobodyIsToldTwoStories ==
    ASSUME IInv, NEW s \in Stores, NEW i \in Carried(s), NEW t \in SavedThresholds,
           NEW reorder \in Reorders
    PROVE  OneStory(s, i, t, reorder)
<1> DEFINE onHand   == stock[<<s, i>>].onHand
           reserved == stock[<<s, i>>].reserved
           shown    == Alerts(s, [j \in Carried(s) |-> t])[i]
           restocked == onHand + RecommendedRestock(Available(s, i), t)
           empty    == MenuStatus(s, i, reorder) = "out_of_stock"
<1>1. i \in Ingredients /\ <<s, i>> \in Shelves /\ t \in ThresholdRows /\ reorder \in Int
  BY ReordersAreFigures DEF Carried, Shelves, SavedThresholds
<1>2. /\ onHand \in Int /\ reserved \in Int /\ reserved <= onHand
      /\ Available(s, i) \in Nat /\ Available(s, i) = onHand - reserved
  BY <1>1, ShelfFigures, AvailableIsNat
<1>3. shown = ThresholdStatus(onHand, reserved, t)
  BY DEF Alerts
<1>4. /\ MenuStatus(s, i, reorder) = StockStatus(Available(s, i), reorder)
      /\ StockTable(s, reorder)[i] = Severity(Available(s, i), reorder)
  BY DEF MenuStatus, StockTable
<1>5. /\ shown # "BELOW_RESERVED"
      /\ Available(s, i) = 0 <=> shown = "OUT_OF_STOCK"
      /\ Reached(Available(s, i), t.critical) => shown \in {"OUT_OF_STOCK", "CRITICAL"}
      /\ Reached(Available(s, i), t.minimum) => shown \in {"OUT_OF_STOCK", "CRITICAL", "LOW"}
  <2> HIDE DEF onHand, reserved, shown
  <2> QED
    BY <1>1, <1>2, <1>3, StatusFacts
<1>6. /\ empty <=> Available(s, i) = 0
      /\ StockTable(s, reorder)[i] = "critical" <=> Available(s, i) = 0
      /\ StockTable(s, reorder)[i] \in {"warning", "low"} <=> MenuStatus(s, i, reorder) = "low_stock"
  <2> HIDE DEF onHand, reserved, shown
  <2> QED
    BY <1>1, <1>2, <1>4, TableMatchesMenu
<1>7. t.target # NotSet /\ ~Reached(t.target, t.minimum) /\ ~Reached(t.target, t.critical) /\ t.target > 0 =>
         ThresholdStatus(restocked, reserved, t) \in {"HEALTHY", "NOT_CONFIGURED"}
  <2> HIDE DEF onHand, reserved, shown
  <2> QED
    BY <1>1, <1>2, RestockClears
<1> QED
  BY <1>5, <1>6, <1>7 DEF OneStory

\* One piece of one line: the menu refuses its ingredient when the checkout does.
LEMMA MenuMatchesCheckout ==
    ASSUME IInv, NEW s \in Stores, NEW i \in Ingredients, NEW reorder \in Reorders,
           NEW o \in Orders, NEW l \in OrderLines(o), l[3] = i
    PROVE  LET one == [m \in OrderLines(o) |-> IF m = l THEN 1 ELSE 0] IN
           MenuStatus(s, i, reorder) = "out_of_stock" <=> ~Satisfiable(one, o, s)
<1> DEFINE one == [m \in OrderLines(o) |-> IF m = l THEN 1 ELSE 0]
<1>1. l \in LinesOf(o, i) /\ \A j \in Ingredients : LinesOf(o, j) \subseteq OrderLines(o)
  BY DEF LinesOf, OrderLines
<1>2. Required(one, o, i) = 1
  <2>1. \A m \in LinesOf(o, i) \ {l} : one[m] = 0
    BY <1>1
  <2>2. one[l] = 1 /\ 1 \in 0..Capacity
    BY <1>1, SomethingFits, CapacityIsNat
  <2> HIDE DEF one
  <2>3. Total(one, LinesOf(o, i)) = Total(one, {l})
    BY <1>1, <2>1, LinesOfFinite, TotalOfNonzero
  <2> QED
    BY <2>2, <2>3, TotalOfOne DEF Required
<1>3. ASSUME NEW j \in Ingredients, j # i
      PROVE  Required(one, o, j) = 0
  <2>1. \A m \in LinesOf(o, j) : one[m] = 0
    BY <1>1, <1>3 DEF LinesOf
  <2> HIDE DEF one
  <2> QED
    BY <2>1, TotalOfZeros DEF Required
<1>4. Satisfiable(one, o, s) <=> <<s, i>> \in stocked /\ Available(s, i) >= 1
  <2> HIDE DEF one
  <2> QED
    BY <1>2, <1>3 DEF Satisfiable
<1>5. Available(s, i) \in Nat /\ reorder \in Int
  BY AvailableIsNat, ReordersAreFigures
<1>6. StockStatus(Available(s, i), reorder) = "out_of_stock" <=> Available(s, i) = 0
  BY <1>5, TableMatchesMenu
<1>7. MenuStatus(s, i, reorder) = "out_of_stock"
        <=> ~(<<s, i>> \in stocked /\ Available(s, i) >= 1)
  BY <1>5, <1>6 DEF MenuStatus, Carried
<1> QED
  BY <1>4, <1>7

\* Six cards, no row on two of them.
LEMMA CardsAddUp ==
    ASSUME NEW A, IsFiniteSet(A), NEW f \in [A -> {"BELOW_RESERVED", "OUT_OF_STOCK", "CRITICAL",
                                                  "LOW", "HEALTHY", "NOT_CONFIGURED"}]
    PROVE  /\ \A kind : Count(f, kind) \in Nat
           /\ Count(f, "BELOW_RESERVED") + Count(f, "OUT_OF_STOCK") + Count(f, "CRITICAL")
                + Count(f, "LOW") + Count(f, "HEALTHY") + Count(f, "NOT_CONFIGURED") = Cardinality(A)
<1> DEFINE Of(kinds) == {i \in A : f[i] \in kinds}
<1>1. \A kind : Count(f, kind) = Cardinality(Of({kind}))
  BY DEF Count
<1>2. \A kinds : IsFiniteSet(Of(kinds)) /\ Cardinality(Of(kinds)) \in Nat
  BY FS_Subset, FS_CardinalityType
<1>3. ASSUME NEW kinds, NEW kind, kind \notin kinds
      PROVE  Cardinality(Of(kinds \cup {kind})) = Cardinality(Of(kinds)) + Cardinality(Of({kind}))
  <2>1. Of(kinds \cup {kind}) = Of(kinds) \cup Of({kind}) /\ Of(kinds) \cap Of({kind}) = {}
    BY <1>3
  <2> HIDE DEF Of
  <2>2. Cardinality(Of(kinds) \cap Of({kind})) = 0
    BY <2>1, FS_EmptySet
  <2>3. Cardinality(Of(kinds) \cup Of({kind}))
          = Cardinality(Of(kinds)) + Cardinality(Of({kind})) - Cardinality(Of(kinds) \cap Of({kind}))
    BY <1>2, FS_Union
  <2>4. Cardinality(Of(kinds)) \in Nat /\ Cardinality(Of({kind})) \in Nat
    BY <1>2
  <2>5. Cardinality(Of(kinds \cup {kind})) = Cardinality(Of(kinds) \cup Of({kind}))
    BY <2>1
  <2> QED
    BY <2>2, <2>3, <2>4, <2>5
<1>4. Of({"BELOW_RESERVED", "OUT_OF_STOCK", "CRITICAL", "LOW", "HEALTHY", "NOT_CONFIGURED"}) = A
  OBVIOUS
<1> HIDE DEF Of
<1>5. /\ Cardinality(Of({"BELOW_RESERVED", "OUT_OF_STOCK"}))
           = Cardinality(Of({"BELOW_RESERVED"})) + Cardinality(Of({"OUT_OF_STOCK"}))
      /\ Cardinality(Of({"BELOW_RESERVED", "OUT_OF_STOCK", "CRITICAL"}))
           = Cardinality(Of({"BELOW_RESERVED", "OUT_OF_STOCK"})) + Cardinality(Of({"CRITICAL"}))
      /\ Cardinality(Of({"BELOW_RESERVED", "OUT_OF_STOCK", "CRITICAL", "LOW"}))
           = Cardinality(Of({"BELOW_RESERVED", "OUT_OF_STOCK", "CRITICAL"})) + Cardinality(Of({"LOW"}))
  <2>1. /\ {"BELOW_RESERVED"} \cup {"OUT_OF_STOCK"} = {"BELOW_RESERVED", "OUT_OF_STOCK"}
        /\ {"BELOW_RESERVED", "OUT_OF_STOCK"} \cup {"CRITICAL"}
             = {"BELOW_RESERVED", "OUT_OF_STOCK", "CRITICAL"}
        /\ {"BELOW_RESERVED", "OUT_OF_STOCK", "CRITICAL"} \cup {"LOW"}
             = {"BELOW_RESERVED", "OUT_OF_STOCK", "CRITICAL", "LOW"}
    OBVIOUS
  <2>2. "OUT_OF_STOCK" \notin {"BELOW_RESERVED"} /\ "CRITICAL" \notin {"BELOW_RESERVED", "OUT_OF_STOCK"}
        /\ "LOW" \notin {"BELOW_RESERVED", "OUT_OF_STOCK", "CRITICAL"}
    OBVIOUS
  <2> QED
    BY <1>3, <2>1, <2>2
<1>6. /\ Cardinality(Of({"BELOW_RESERVED", "OUT_OF_STOCK", "CRITICAL", "LOW", "HEALTHY"}))
           = Cardinality(Of({"BELOW_RESERVED", "OUT_OF_STOCK", "CRITICAL", "LOW"}))
               + Cardinality(Of({"HEALTHY"}))
      /\ Cardinality(A) = Cardinality(Of({"BELOW_RESERVED", "OUT_OF_STOCK", "CRITICAL", "LOW", "HEALTHY"}))
                            + Cardinality(Of({"NOT_CONFIGURED"}))
  <2>1. /\ {"BELOW_RESERVED", "OUT_OF_STOCK", "CRITICAL", "LOW"} \cup {"HEALTHY"}
             = {"BELOW_RESERVED", "OUT_OF_STOCK", "CRITICAL", "LOW", "HEALTHY"}
        /\ {"BELOW_RESERVED", "OUT_OF_STOCK", "CRITICAL", "LOW", "HEALTHY"} \cup {"NOT_CONFIGURED"}
             = {"BELOW_RESERVED", "OUT_OF_STOCK", "CRITICAL", "LOW", "HEALTHY", "NOT_CONFIGURED"}
    OBVIOUS
  <2>2. "HEALTHY" \notin {"BELOW_RESERVED", "OUT_OF_STOCK", "CRITICAL", "LOW"}
        /\ "NOT_CONFIGURED" \notin {"BELOW_RESERVED", "OUT_OF_STOCK", "CRITICAL", "LOW", "HEALTHY"}
    OBVIOUS
  <2> QED
    BY <1>3, <1>4, <2>1, <2>2
<1>7. \A kind : Count(f, kind) \in Nat
  BY <1>1, <1>2
<1>8. /\ Cardinality(Of({"BELOW_RESERVED", "OUT_OF_STOCK"})) \in Nat
      /\ Cardinality(Of({"BELOW_RESERVED", "OUT_OF_STOCK", "CRITICAL"})) \in Nat
      /\ Cardinality(Of({"BELOW_RESERVED", "OUT_OF_STOCK", "CRITICAL", "LOW"})) \in Nat
      /\ Cardinality(Of({"BELOW_RESERVED", "OUT_OF_STOCK", "CRITICAL", "LOW", "HEALTHY"})) \in Nat
  BY <1>2
<1>9. Cardinality(A) = Count(f, "BELOW_RESERVED") + Count(f, "OUT_OF_STOCK") + Count(f, "CRITICAL")
                         + Count(f, "LOW") + Count(f, "HEALTHY") + Count(f, "NOT_CONFIGURED")
  <2> DEFINE c1 == Count(f, "BELOW_RESERVED")
             c2 == Count(f, "OUT_OF_STOCK")
             c3 == Count(f, "CRITICAL")
             c4 == Count(f, "LOW")
             c5 == Count(f, "HEALTHY")
             c6 == Count(f, "NOT_CONFIGURED")
             n2 == Cardinality(Of({"BELOW_RESERVED", "OUT_OF_STOCK"}))
             n3 == Cardinality(Of({"BELOW_RESERVED", "OUT_OF_STOCK", "CRITICAL"}))
             n4 == Cardinality(Of({"BELOW_RESERVED", "OUT_OF_STOCK", "CRITICAL", "LOW"}))
             n5 == Cardinality(Of({"BELOW_RESERVED", "OUT_OF_STOCK", "CRITICAL", "LOW", "HEALTHY"}))
             n6 == Cardinality(A)
  <2>1. n2 = c1 + c2 /\ n3 = n2 + c3 /\ n4 = n3 + c4
    BY <1>1, <1>5
  <2>2. n5 = n4 + c5 /\ n6 = n5 + c6
    BY <1>1, <1>6
  <2>3. /\ c1 \in Nat /\ c2 \in Nat /\ c3 \in Nat /\ c4 \in Nat /\ c5 \in Nat /\ c6 \in Nat
    BY <1>7
  <2> HIDE DEF c1, c2, c3, c4, c5, c6, n2, n3, n4, n5, n6
  <2>4. n6 = c1 + c2 + c3 + c4 + c5 + c6
    BY <2>1, <2>2, <2>3
  <2> QED
    BY <2>4 DEF c1, c2, c3, c4, c5, c6, n6
<1> QED
  BY <1>7, <1>9

\* Every shelf of the branch is on one card, and the dashboard asks for attention
\* exactly when the list has an empty shelf: nothing is ever BELOW_RESERVED.
LEMMA CardsMatchTheList ==
    ASSUME IInv, NEW s \in Stores, NEW t \in ThresholdRows
    PROVE  LET alerts == Alerts(s, [i \in Carried(s) |-> t])
               block  == InventoryBlock(s, [i \in Carried(s) |-> t]) IN
           /\ AllCounted(block) = Cardinality(Listed(alerts, "all"))
           /\ "OUT_OF_STOCK" \in Attention(block) <=> Listed(alerts, "OUT_OF_STOCK") # {}
<1> DEFINE A == Carried(s)
           rows   == [i \in A |-> t]
           alerts == Alerts(s, rows)
           block  == InventoryBlock(s, rows)
<1>1. IsFiniteSet(A) /\ A \subseteq Ingredients
  BY FiniteIds, FS_Subset DEF Carried
<1>2. alerts = [i \in A |-> ThresholdStatus(stock[<<s, i>>].onHand, stock[<<s, i>>].reserved, t)]
  BY DEF Alerts
<1>3. \A i \in A : alerts[i] # "BELOW_RESERVED"
  <2> TAKE i \in A
  <2>1. <<s, i>> \in Shelves
    BY <1>1 DEF Shelves
  <2>2. ThresholdStatus(stock[<<s, i>>].onHand, stock[<<s, i>>].reserved, t) # "BELOW_RESERVED"
    BY <2>1, ShelfFigures, StatusFacts
  <2> QED
    BY <1>2, <2>2
<1>4. alerts \in [A -> {"BELOW_RESERVED", "OUT_OF_STOCK", "CRITICAL",
                        "LOW", "HEALTHY", "NOT_CONFIGURED"}]
  <2>1. \A onHand, reserved : ThresholdStatus(onHand, reserved, t)
          \in {"BELOW_RESERVED", "OUT_OF_STOCK", "CRITICAL", "LOW", "HEALTHY", "NOT_CONFIGURED"}
    BY DEF ThresholdStatus
  <2> QED
    BY <1>2, <2>1
<1>5. /\ block["BELOW_RESERVED"] = Count(alerts, "BELOW_RESERVED")
      /\ block["OUT_OF_STOCK"] = Count(alerts, "OUT_OF_STOCK")
      /\ block["CRITICAL"] = Count(alerts, "CRITICAL")
      /\ block["LOW"] = Count(alerts, "LOW")
      /\ block["HEALTHY"] = Count(alerts, "HEALTHY")
      /\ block["NOT_CONFIGURED"] = Count(alerts, "NOT_CONFIGURED")
  BY DEF InventoryBlock
<1>6. DOMAIN alerts = A /\ Listed(alerts, "all") = A
      /\ Listed(alerts, "OUT_OF_STOCK") = {i \in A : alerts[i] = "OUT_OF_STOCK"}
  BY <1>2 DEF Listed
<1>7. /\ Count(alerts, "BELOW_RESERVED") = 0
      /\ Count(alerts, "OUT_OF_STOCK") = Cardinality(Listed(alerts, "OUT_OF_STOCK"))
  <2>1. {i \in DOMAIN alerts : alerts[i] = "BELOW_RESERVED"} = {}
    BY <1>3, <1>6
  <2> QED
    BY <1>6, <2>1, FS_EmptySet DEF Count
<1>8. Cardinality(Listed(alerts, "OUT_OF_STOCK")) > 0 <=> Listed(alerts, "OUT_OF_STOCK") # {}
  <2>1. IsFiniteSet(Listed(alerts, "OUT_OF_STOCK"))
    BY <1>1, <1>6, FS_Subset
  <2> QED
    BY <2>1, FS_EmptySet, FS_CardinalityType
<1> HIDE DEF A, alerts, block
<1>9. AllCounted(block) = Cardinality(Listed(alerts, "all"))
  BY <1>1, <1>4, <1>5, <1>6, CardsAddUp DEF AllCounted
<1>10. "OUT_OF_STOCK" \in Attention(block) <=> block["OUT_OF_STOCK"] + block["BELOW_RESERVED"] > 0
  BY DEF Attention
<1>11. "OUT_OF_STOCK" \in Attention(block) <=> Listed(alerts, "OUT_OF_STOCK") # {}
  <2>1. Count(alerts, "OUT_OF_STOCK") \in Nat
    BY <1>1, <1>4, CardsAddUp
  <2> QED
    BY <1>5, <1>7, <1>8, <1>10, <2>1
<1> QED
  BY <1>9, <1>11 DEF A, alerts, block

\* However orders, cancellations, counts and shipments come between, the screens
\* that read a shelf tell one story about it, for any branches, ingredients, levels
\* and figures (list_threshold_alerts, get_stock_status, _inventory_block,
\* load_store_stocks, reconcile).
THEOREM OneStoryOnEveryScreen == Spec => []ScreensAgree
<1>1. ASSUME IInv PROVE ScreensAgree
  <2>1. Mismatches = {}
    BY <1>1, NothingToReconcile
  <2>2. \A t \in ThresholdRows : Coherent(t) <=> ThresholdIssues(t) = {}
    BY AuditMatchesSave
  <2>3. \A s \in UngatedStores : stocked \subseteq {s} \X Ingredients
    BY <1>1, UngatedMenuIsOfOneBranch
  <2>4. ASSUME NEW s \in Stores, NEW i \in Ingredients, NEW reorder \in Reorders
        PROVE  /\ i \in Carried(s) => \A t \in SavedThresholds : OneStory(s, i, t, reorder)
               /\ \A o \in Orders : \A l \in OrderLines(o) : l[3] = i =>
                     LET one == [m \in OrderLines(o) |-> IF m = l THEN 1 ELSE 0] IN
                     MenuStatus(s, i, reorder) = "out_of_stock" <=> ~Satisfiable(one, o, s)
    BY <1>1, NobodyIsToldTwoStories, MenuMatchesCheckout
  <2>5. ASSUME NEW s \in Stores, NEW t \in SavedThresholds
        PROVE  LET alerts == Alerts(s, [i \in Carried(s) |-> t])
                   block  == InventoryBlock(s, [i \in Carried(s) |-> t]) IN
               /\ AllCounted(block) = Cardinality(Listed(alerts, "all"))
               /\ "OUT_OF_STOCK" \in Attention(block) <=> Listed(alerts, "OUT_OF_STOCK") # {}
    BY <1>1, CardsMatchTheList DEF SavedThresholds
  <2> QED
    BY <2>1, <2>2, <2>3, <2>4, <2>5 DEF ScreensAgree
<1> QED
  BY <1>1, InventoryInvariant, PTL

=============================================================================
