--------------------- MODULE InventoryTransactionsProofs ---------------------
(***************************************************************************)
(* The transactions of InventoryTransactions implement the one-step calls  *)
(* of OrderInventory and never wait for each other in a circle, for any    *)
(* number of requests, branches, orders and ingredients.                   *)
(***************************************************************************)
EXTENDS InventoryTransactions, OrderInventoryProofs

-----------------------------------------------------------------------------
(* The inductive invariant: what one request may rely on, for every request. *)

Settles(c, from) == Consumes(c, from) \/ Releases(c)

\* A request that has not begun to lock holds nothing and has read nothing.
CallIsSound(r) ==
    /\ pc[r] = "idle" <=> call[r] = NoCall
    /\ pc[r] = "opened" => call[r].kind \in {"kitchen", "issue", "transfer"}
    /\ pc[r] # "locking" => /\ Got(r) = {} /\ want[r] = {} /\ Held(r) = {}
                            /\ \A o \in Orders : orderHolder[o] # r
    /\ call[r].kind = "checkout" => \E x \in DOMAIN call[r].need : call[r].need[x] > 0
    /\ call[r].kind = "transfer" => call[r].store # call[r].to
    /\ OnOrder(call[r]) => status[call[r].order] # "ABSENT"

\* The shelves a call may lock. Only a transfer locks a row that is not there yet.
MayLock(r, k) ==
    LET c == call[r] IN
    CASE c.kind = "checkout" -> k \in stocked /\ k[1] = c.store
      [] c.kind \in {"movement", "count", "threshold"} -> k \in stocked /\ k = <<c.store, c.ing>>
      [] c.kind = "transfer" -> \/ k \in stocked /\ k = <<c.store, c.ing>>
                                \/ k = <<c.to, c.ing>>
      [] OTHER -> k \in stocked /\ k[1] = storeOf[c.order]

\* What has been read is locked, is still so, and lies before what is still wanted. A
\* row that is held without having been read is one this request inserted.
RowsAreSound(r) ==
    /\ Got(r) \subseteq Held(r)
    /\ Held(r) \cap stocked \subseteq Got(r)
    /\ \A k \in Got(r) : seen[r][k] = stock[k]
    /\ \A k \in Got(r), m \in want[r] : Before(k, m)
    /\ \A k \in Got(r) \cup want[r] : MayLock(r, k)
    /\ pc[r] = "locking" /\ call[r].kind = "transfer" =>
          LET there == <<call[r].to, call[r].ing>> IN
          there \in stocked \/ rowHolder[there] = r

\* An order's row is locked by the one call that is about to move it, and what that
\* call read of status and lines is still so.
OrderIsSound(r) ==
    /\ \A o \in Orders : orderHolder[o] = r =>
          pc[r] = "locking" /\ OnOrder(call[r]) /\ call[r].order = o
    /\ IF pc[r] = "locking" /\ OnOrder(call[r])
       THEN LET o == call[r].order IN
            /\ orderHolder[o] = r
            /\ MoveAllowed(call[r], status[o])
            /\ \A l \in Lines : pending[r][l] =
                  IF l[1] = o /\ Settles(call[r], status[o]) /\ Outstanding(l) > 0
                  THEN Outstanding(l) ELSE 0
       ELSE pending[r] = NoPending

LadderIsFresh(r) ==
    call[r].kind = "threshold" => \A k \in Got(r) : seenLadder[r] = ladder[k]

RequestIsSound(r) == CallIsSound(r) /\ RowsAreSound(r) /\ OrderIsSound(r) /\ LadderIsFresh(r)

Change == [old : Ladders \cup {NoLadder}, new : Ladders]

TxInv ==
    /\ TxTypeOK
    /\ DOMAIN seen = Requests
    /\ changes \in [Shelves -> Seq(Change)]
    /\ IInv
    /\ \A r \in Requests : RequestIsSound(r)
    /\ BookedOnce
    /\ ChangesAreAChain

-----------------------------------------------------------------------------
(* Calls *)

AnyCall == {NoCall} \cup Checkouts \cup Moves \cup Refunds \cup Movements
               \cup Counts \cup Transfers \cup Thresholds

\* The kind of a call says which fields it has.
LEMMA KindsOfCalls ==
    ASSUME NEW c \in AnyCall
    PROVE  /\ c.kind \in {"none", "checkout", "kitchen", "issue", "movement", "count",
                          "transfer", "threshold"}
           /\ c.kind = "none" <=> c = NoCall
           /\ c.kind = "checkout" => c \in Checkouts
           /\ c.kind = "kitchen" => c \in Moves
           /\ c.kind = "issue" => c \in Refunds
           /\ c.kind = "movement" => c \in Movements
           /\ c.kind = "count" => c \in Counts
           /\ c.kind = "transfer" => c \in Transfers
           /\ c.kind = "threshold" => c \in Thresholds
<1>1. CASE c = NoCall
  BY <1>1 DEF NoCall
<1>2. CASE c \in Checkouts
  BY <1>2 DEF Checkouts, NoCall
<1>3. CASE c \in Moves
  BY <1>3 DEF Moves, NoCall
<1>4. CASE c \in Refunds
  BY <1>4 DEF Refunds, NoCall
<1>5. CASE c \in Movements
  BY <1>5 DEF Movements, NoCall
<1>6. CASE c \in Counts
  BY <1>6 DEF Counts, NoCall
<1>7. CASE c \in Transfers
  BY <1>7 DEF Transfers, NoCall
<1>8. CASE c \in Thresholds
  BY <1>8 DEF Thresholds, NoCall
<1> QED
  BY <1>1, <1>2, <1>3, <1>4, <1>5, <1>6, <1>7, <1>8 DEF AnyCall

\* What the fields hold.
LEMMA FieldsOfCalls ==
    ASSUME NEW c \in AnyCall
    PROVE  /\ c.kind = "checkout" => c.store \in Stores /\ c.need \in [Items \X Ingredients -> Needs]
           /\ OnOrder(c) => c.order \in Orders
           /\ c.kind = "kitchen" => c.to \in Statuses
           /\ c.kind \in {"movement", "count", "transfer", "threshold"} =>
                 /\ c.store \in Stores /\ c.ing \in Ingredients /\ c.key \in Keys
                 /\ <<c.store, c.ing>> \in Shelves /\ BookKey(c) \in BookKeys
           /\ c.kind = "movement" => c.delta \in Quantities \cup {-q : q \in Quantities}
           /\ c.kind = "count" => c.counted \in Quantities
           /\ c.kind = "transfer" => /\ c.to \in Stores /\ c.qty \in Quantities
                                     /\ <<c.to, c.ing>> \in Shelves
           /\ c.kind = "threshold" => c.ladder \in Ladders
<1>1. CASE c.kind = "checkout"
  BY <1>1, KindsOfCalls DEF Checkouts, OnOrder
<1>2. CASE c.kind \in {"kitchen", "issue"}
  BY <1>2, KindsOfCalls DEF Moves, Refunds, OnOrder
<1>3. CASE c.kind = "movement"
  BY <1>3, KindsOfCalls DEF Movements, OnOrder, Shelves, BookKey, BookKeys, KeyTables
<1>4. CASE c.kind = "count"
  BY <1>4, KindsOfCalls DEF Counts, OnOrder, Shelves, BookKey, BookKeys, KeyTables
<1>5. CASE c.kind = "transfer"
  BY <1>5, KindsOfCalls DEF Transfers, OnOrder, Shelves, BookKey, BookKeys, KeyTables
<1>6. CASE c.kind = "threshold"
  BY <1>6, KindsOfCalls DEF Thresholds, OnOrder, Shelves, BookKey, BookKeys, KeyTables
<1>7. CASE c.kind = "none"
  BY <1>7 DEF OnOrder
<1> QED
  BY <1>1, <1>2, <1>3, <1>4, <1>5, <1>6, <1>7, KindsOfCalls

\* Types, per request.
LEMMA TypesOfRequests ==
    ASSUME TxTypeOK, NEW r \in Requests
    PROVE  /\ call[r] \in AnyCall /\ pc[r] \in {"idle", "opened", "locking"}
           /\ want[r] \subseteq Shelves /\ Got(r) \subseteq Shelves
           /\ pending[r] \in [Lines -> 0..Capacity]
           /\ r # NoRequest /\ Held(r) \subseteq Shelves
BY NoRequestIsNone DEF TxTypeOK, AnyCall, Held

-----------------------------------------------------------------------------
(* What the others do not notice *)

\* A request keeps what it relies on when a step of another one leaves its variables,
\* its locks, the rows it holds and its order alone, and takes no row or order away.
LEMMA OthersKeep ==
    ASSUME TxInv, NEW q \in Requests,
           /\ call'[q] = call[q] /\ pc'[q] = pc[q] /\ want'[q] = want[q] /\ seen'[q] = seen[q]
           /\ pending'[q] = pending[q] /\ seenLadder'[q] = seenLadder[q],
           \A k \in Shelves : rowHolder'[k] = q <=> rowHolder[k] = q,
           \A o \in Orders : orderHolder'[o] = q <=> orderHolder[o] = q,
           stocked \subseteq stocked',
           \A k \in stocked' \ stocked : rowHolder[k] # q,
           \A k \in Shelves : rowHolder[k] = q => stock'[k] = stock[k] /\ ladder'[k] = ladder[k],
           \A o \in Orders : status[o] # "ABSENT" =>
               status'[o] # "ABSENT" /\ storeOf'[o] = storeOf[o],
           \A o \in Orders : orderHolder[o] = q =>
               status'[o] = status[o] /\ \A l \in OrderLines(o) : line'[l] = line[l]
    PROVE  RequestIsSound(q)'
<1>1. /\ CallIsSound(q) /\ RowsAreSound(q) /\ OrderIsSound(q) /\ LadderIsFresh(q)
      /\ call[q] \in AnyCall /\ Got(q) \subseteq Shelves /\ want[q] \subseteq Shelves
  BY TypesOfRequests DEF TxInv, RequestIsSound
<1>2. OnOrder(call[q]) => call[q].order \in Orders
  BY <1>1, FieldsOfCalls
<1>3. Got(q)' = Got(q) /\ Held(q)' = Held(q)
  BY DEF Got, Held
<1>4. CallIsSound(q)'
  BY <1>1, <1>2, <1>3 DEF CallIsSound, OnOrder
<1>5. RowsAreSound(q)'
  <2>1. /\ \A k \in Got(q) : rowHolder[k] = q
        /\ \A k \in Got(q) : seen'[q][k] = stock'[k]
    BY <1>1, <1>3 DEF RowsAreSound, Held
  <2>2. Held(q) \cap stocked' \subseteq Got(q)
    BY <1>1 DEF RowsAreSound, Held
  <2>3. ASSUME NEW k \in Got(q) \cup want[q]
        PROVE  MayLock(q, k)'
    <3>1. MayLock(q, k) /\ call[q].kind # "none"
      BY <1>1, KindsOfCalls DEF RowsAreSound, CallIsSound
    <3>2. OnOrder(call[q]) => storeOf'[call[q].order] = storeOf[call[q].order]
      BY <1>1, <1>2 DEF CallIsSound
    <3>3. call[q].kind \in {"checkout", "kitchen", "issue", "movement", "count", "transfer",
                            "threshold"}
      BY <1>1, <3>1, KindsOfCalls
    <3> QED
      BY <3>1, <3>2, <3>3 DEF MayLock, OnOrder
  <2>4. pc[q] = "locking" /\ call[q].kind = "transfer" =>
          LET there == <<call[q].to, call[q].ing>> IN
          there \in stocked' \/ rowHolder'[there] = q
    BY <1>1, FieldsOfCalls DEF RowsAreSound
  <2> QED
    BY <1>1, <1>3, <2>1, <2>2, <2>3, <2>4 DEF RowsAreSound
<1>6. OrderIsSound(q)'
  <2>1. CASE pc[q] = "locking" /\ OnOrder(call[q])
    <3> DEFINE o == call[q].order
    <3>1. /\ o \in Orders /\ orderHolder[o] = q /\ status'[o] = status[o]
          /\ MoveAllowed(call[q], status[o])
          /\ \A l \in Lines : pending[q][l] =
                IF l[1] = o /\ Settles(call[q], status[o]) /\ Outstanding(l) > 0
                THEN Outstanding(l) ELSE 0
          /\ \A p \in Orders : orderHolder[p] = q => call[q].order = p
      BY <1>1, <1>2, <2>1 DEF OrderIsSound
    <3>2. \A l \in Lines : l[1] = o => Outstanding(l)' = Outstanding(l)
      BY <3>1 DEF Outstanding, OrderLines
    <3>3. \A l \in Lines : pending'[q][l] =
                IF l[1] = o /\ Settles(call[q], status[o]) /\ Outstanding(l)' > 0
                THEN Outstanding(l)' ELSE 0
      BY <3>1, <3>2
    <3>4. call'[q] = call[q] /\ Settles(call[q], status[o])' = Settles(call[q], status[o])
      BY <3>1 DEF Settles, Consumes, Releases
    <3>5. MoveAllowed(call[q], status[o])' = MoveAllowed(call[q], status[o])
      BY <3>1 DEF MoveAllowed
    <3> QED
      BY <2>1, <3>1, <3>3, <3>4, <3>5 DEF OrderIsSound, OnOrder
  <2>2. CASE ~(pc[q] = "locking" /\ OnOrder(call[q]))
    BY <1>1, <2>2 DEF OrderIsSound, OnOrder
  <2> QED
    BY <2>1, <2>2
<1>7. LadderIsFresh(q)'
  BY <1>1, <1>3 DEF LadderIsFresh, RowsAreSound, Held
<1> QED
  BY <1>4, <1>5, <1>6, <1>7 DEF RequestIsSound

\* The end of a call, whatever it wrote: rows only where it had read them, orders only
\* where nobody else holds them.
LEMMA FinishKeeps ==
    ASSUME TxInv, NEW r \in Requests, pc[r] # "idle", Finish(r),
           IInv', BookedOnce', ChangesAreAChain',
           booked' \in [BookKeys -> Nat],
           ladder' \in [Shelves -> Ladders \cup {NoLadder}],
           changes' \in [Shelves -> Seq(Change)],
           stocked \subseteq stocked', stocked' \ stocked \subseteq Got(r),
           \A k \in Shelves \ Got(r) : stock'[k] = stock[k] /\ ladder'[k] = ladder[k],
           \A o \in Orders : status[o] # "ABSENT" =>
               status'[o] # "ABSENT" /\ storeOf'[o] = storeOf[o],
           \A o \in Orders : orderHolder[o] \in Requests \ {r} =>
               status'[o] = status[o] /\ \A l \in OrderLines(o) : line'[l] = line[l]
    PROVE  TxInv'
<1>1. TxTypeOK /\ DOMAIN seen = Requests
  BY DEF TxInv
<1>2. /\ pc' = [pc EXCEPT ![r] = "idle"] /\ call' = [call EXCEPT ![r] = NoCall]
      /\ want' = [want EXCEPT ![r] = {}] /\ seen' = [seen EXCEPT ![r] = NoRows]
      /\ seenLadder' = [seenLadder EXCEPT ![r] = NoLadder]
      /\ pending' = [pending EXCEPT ![r] = NoPending]
      /\ rowHolder' = [k \in Shelves |-> IF rowHolder[k] = r THEN NoRequest ELSE rowHolder[k]]
      /\ orderHolder' = [o \in Orders |-> IF orderHolder[o] = r THEN NoRequest ELSE orderHolder[o]]
      /\ begun' = begun
  BY DEF Finish
<1>3. /\ pc'[r] = "idle" /\ call'[r] = NoCall /\ want'[r] = {} /\ seen'[r] = NoRows
      /\ pending'[r] = NoPending /\ seenLadder'[r] = NoLadder /\ r # NoRequest
      /\ DOMAIN seen' = Requests
  BY <1>1, <1>2, NoRequestIsNone DEF TxTypeOK
<1>4. \A q \in Requests : q # r =>
          /\ call'[q] = call[q] /\ pc'[q] = pc[q] /\ want'[q] = want[q] /\ seen'[q] = seen[q]
          /\ pending'[q] = pending[q] /\ seenLadder'[q] = seenLadder[q]
          /\ \A k \in Shelves : rowHolder'[k] = q <=> rowHolder[k] = q
          /\ \A o \in Orders : orderHolder'[o] = q <=> orderHolder[o] = q
  BY <1>1, <1>2, NoRequestIsNone DEF TxTypeOK
<1>5. Got(r)' = {} /\ Held(r)' = {} /\ \A o \in Orders : orderHolder'[o] # r
  BY <1>2, <1>3 DEF Got, Held, NoRows
<1>6. RequestIsSound(r)'
  <2>1. CallIsSound(r)'
    BY <1>3, <1>5 DEF CallIsSound, NoCall, OnOrder
  <2>2. RowsAreSound(r)'
    BY <1>3, <1>5 DEF RowsAreSound
  <2>3. OrderIsSound(r)'
    BY <1>3, <1>5 DEF OrderIsSound
  <2>4. LadderIsFresh(r)'
    BY <1>5 DEF LadderIsFresh
  <2> QED
    BY <2>1, <2>2, <2>3, <2>4 DEF RequestIsSound
<1>7. ASSUME NEW q \in Requests, q # r
      PROVE  RequestIsSound(q)'
  <2>1. \A k \in Got(r) : rowHolder[k] = r /\ k \in Shelves
    BY <1>1, TypesOfRequests DEF TxInv, RequestIsSound, RowsAreSound, Held
  <2>2. \A k \in stocked' \ stocked : rowHolder[k] # q
    BY <1>7, <2>1
  <2>3. \A k \in Shelves : rowHolder[k] = q => stock'[k] = stock[k] /\ ladder'[k] = ladder[k]
    BY <1>7, <2>1
  <2>4. \A o \in Orders : orderHolder[o] = q =>
            status'[o] = status[o] /\ \A l \in OrderLines(o) : line'[l] = line[l]
    BY <1>7
  <2> QED
    BY <1>4, <1>7, <2>2, <2>3, <2>4, OthersKeep
<1>8. TxTypeOK'
  <2>1. /\ pc' \in [Requests -> {"idle", "opened", "locking"}]
        /\ call' \in [Requests -> AnyCall]
        /\ want' \in [Requests -> SUBSET Shelves]
        /\ rowHolder' \in [Shelves -> Requests \cup {NoRequest}]
        /\ orderHolder' \in [Orders -> Requests \cup {NoRequest}]
        /\ begun' \in 0..MaxCalls
        /\ seenLadder' \in [Requests -> Ladders \cup {NoLadder}]
    BY <1>1, <1>2 DEF TxTypeOK, AnyCall
  <2>2. pending' \in [Requests -> [Lines -> 0..Capacity]]
    BY <1>1, <1>2, CapacityIsNat DEF TxTypeOK, NoPending
  <2>3. ASSUME NEW q \in Requests
        PROVE  Got(q)' \subseteq Shelves /\ \A k \in Got(q)' : seen'[q][k] \in StockRow
    <3>1. CASE q = r
      BY <1>5, <3>1
    <3>2. CASE q # r
      <4>1. Got(q)' = Got(q) /\ seen'[q] = seen[q]
        BY <1>4, <3>2 DEF Got
      <4> QED
        BY <1>1, <4>1 DEF TxTypeOK
    <3> QED
      BY <3>1, <3>2
  <2>4. \A q \in Requests : pc'[q] = "idle" => Held(q)' = {} /\ \A o \in Orders : orderHolder'[o] # q
    BY <1>6, <1>7 DEF RequestIsSound, CallIsSound
  <2> QED
    BY <2>1, <2>2, <2>3, <2>4 DEF TxTypeOK, AnyCall
<1> QED
  BY <1>3, <1>6, <1>7, <1>8 DEF TxInv

\* A call that gives up leaves nothing behind.
LEMMA RollbackKeeps ==
    ASSUME TxInv, NEW r \in Requests, Rollback(r)
    PROVE  TxInv' /\ UNCHANGED vars
<1>1. UNCHANGED <<status, storeOf, line, stocked, stock, ledger, booked, ladder, changes>>
  BY DEF Rollback, tables, alerts
<1>2. UNCHANGED vars
  BY <1>1 DEF vars
<1>3. IInv'
  BY <1>2, NextKeeps DEF TxInv
<1>4. BookedOnce' /\ ChangesAreAChain'
  BY <1>1 DEF TxInv, BookedOnce, ChangesAreAChain
<1>5. /\ booked' \in [BookKeys -> Nat] /\ ladder' \in [Shelves -> Ladders \cup {NoLadder}]
      /\ changes' \in [Shelves -> Seq(Change)]
  BY <1>1 DEF TxInv, TxTypeOK
<1> QED
  BY <1>1, <1>2, <1>3, <1>4, <1>5, FinishKeeps DEF Rollback

-----------------------------------------------------------------------------
(* The first statements of a call *)

\* Steps that write no table keep what is said of tables only.
LEMMA TablesStay ==
    ASSUME TxInv, UNCHANGED <<status, storeOf, line, stocked, stock, ledger, booked, ladder, changes>>
    PROVE  /\ UNCHANGED vars /\ IInv' /\ BookedOnce' /\ ChangesAreAChain'
           /\ changes' \in [Shelves -> Seq(Change)]
           /\ booked' \in [BookKeys -> Nat] /\ ladder' \in [Shelves -> Ladders \cup {NoLadder}]
<1>1. UNCHANGED vars
  BY DEF vars
<1>2. IInv'
  BY <1>1, NextKeeps DEF TxInv
<1> QED
  BY <1>1, <1>2 DEF TxInv, TxTypeOK, BookedOnce, ChangesAreAChain

LEMMA BeginKeeps ==
    ASSUME TxInv, NEW r \in Requests, NEW c \in AnyCall, Start(r, c), NEW stage, NEW rows,
           pc' = [pc EXCEPT ![r] = stage], want' = [want EXCEPT ![r] = rows],
           \/ stage = "opened" /\ rows = {} /\ c.kind \in {"kitchen", "issue", "transfer"}
           \/ /\ stage = "locking" /\ rows = RowsOf(c)
              /\ c.kind \in {"checkout", "movement", "count", "threshold"},
           c.kind = "checkout" => \E x \in DOMAIN c.need : c.need[x] > 0,
           c.kind = "transfer" => c.store # c.to,
           OnOrder(c) => status[c.order] # "ABSENT"
    PROVE  TxInv' /\ UNCHANGED vars
<1>1. TxTypeOK /\ DOMAIN seen = Requests /\ RequestIsSound(r)
  BY DEF TxInv
<1>2. /\ pc[r] = "idle" /\ call' = [call EXCEPT ![r] = c] /\ begun < MaxCalls /\ begun' = begun + 1
      /\ UNCHANGED <<status, storeOf, line, stocked, stock, ledger, rowHolder, orderHolder, seen,
                     pending, booked, seenLadder, ladder, changes>>
  BY DEF Start, tables, locks, alerts
<1>3. rows \subseteq Shelves
  BY <1>1 DEF RowsOf, TxInv, IInv, TypeOK
<1>4. /\ call'[r] = c /\ pc'[r] = stage /\ want'[r] = rows
      /\ \A q \in Requests : q # r =>
            call'[q] = call[q] /\ pc'[q] = pc[q] /\ want'[q] = want[q]
  BY <1>1, <1>2 DEF TxTypeOK
<1>5. /\ Got(r)' = {} /\ Held(r)' = {} /\ pending'[r] = NoPending
      /\ \A o \in Orders : orderHolder'[o] # r
  BY <1>1, <1>2 DEF RequestIsSound, CallIsSound, OrderIsSound, Got, Held
<1>6. RequestIsSound(r)'
  <2>1. CallIsSound(r)'
    BY <1>2, <1>4, <1>5, KindsOfCalls DEF CallIsSound, OnOrder
  <2>2. RowsAreSound(r)'
    <3>1. ASSUME NEW k \in rows PROVE MayLock(r, k)'
      BY <1>2, <1>4 DEF MayLock, RowsOf
    <3> QED
      BY <1>4, <1>5, <3>1 DEF RowsAreSound
  <2>3. OrderIsSound(r)'
    BY <1>4, <1>5 DEF OrderIsSound, OnOrder
  <2>4. LadderIsFresh(r)'
    BY <1>5 DEF LadderIsFresh
  <2> QED
    BY <2>1, <2>2, <2>3, <2>4 DEF RequestIsSound
<1>7. ASSUME NEW q \in Requests, q # r PROVE RequestIsSound(q)'
  BY <1>2, <1>4, <1>7, OthersKeep
<1>8. TxTypeOK'
  <2>1. /\ pc' \in [Requests -> {"idle", "opened", "locking"}]
        /\ call' \in [Requests -> AnyCall]
        /\ want' \in [Requests -> SUBSET Shelves]
        /\ begun' \in 0..MaxCalls
    BY <1>1, <1>2, <1>3, MaxCallsIsNat DEF TxTypeOK, AnyCall
  <2>2. \A q \in Requests : Got(q)' = Got(q) /\ Held(q)' = Held(q)
    BY <1>2 DEF Got, Held
  <2>3. \A q \in Requests : pc'[q] = "idle" => q # r
    BY <1>4
  <2> QED
    BY <1>1, <1>2, <1>4, <2>1, <2>2, <2>3 DEF TxTypeOK, AnyCall
<1> QED
  BY <1>1, <1>2, <1>6, <1>7, <1>8, TablesStay DEF TxInv

LEMMA BeginsKeep ==
    ASSUME TxInv, NEW r \in Requests, Begin(r)
    PROVE  TxInv' /\ UNCHANGED vars
<1>1. ASSUME pc[r] = "idle", UNCHANGED want PROVE want' = [want EXCEPT ![r] = {}]
  BY <1>1 DEF TxInv, TxTypeOK, RequestIsSound, CallIsSound
<1>2. ASSUME NEW c \in Checkouts, BeginCheckout(r, c) PROVE TxInv' /\ UNCHANGED vars
  <2>1. c \in AnyCall /\ c.kind = "checkout" /\ ~OnOrder(c)
    BY DEF AnyCall, Checkouts, OnOrder
  <2> QED
    BY <1>2, <2>1, BeginKeeps DEF BeginCheckout
<1>3. ASSUME NEW c \in Moves \cup Refunds, BeginOnOrder(r, c) PROVE TxInv' /\ UNCHANGED vars
  <2>1. c \in AnyCall /\ c.kind \in {"kitchen", "issue"}
    BY DEF AnyCall, Moves, Refunds
  <2>2. Start(r, c) /\ pc[r] = "idle"
    BY <1>3 DEF BeginOnOrder, Start
  <2> QED
    BY <1>1, <1>3, <2>1, <2>2, BeginKeeps DEF BeginOnOrder
<1>4. ASSUME NEW c \in Movements \cup Counts \cup Thresholds, BeginOnShelf(r, c)
      PROVE  TxInv' /\ UNCHANGED vars
  <2>1. c \in AnyCall /\ c.kind \in {"movement", "count", "threshold"} /\ ~OnOrder(c)
    BY DEF AnyCall, Movements, Counts, Thresholds, OnOrder
  <2> QED
    BY <1>4, <2>1, BeginKeeps DEF BeginOnShelf
<1>5. ASSUME NEW c \in Transfers, BeginTransfer(r, c) PROVE TxInv' /\ UNCHANGED vars
  <2>1. c \in AnyCall /\ c.kind = "transfer" /\ ~OnOrder(c)
    BY DEF AnyCall, Transfers, OnOrder
  <2>2. Start(r, c) /\ pc[r] = "idle"
    BY <1>5 DEF BeginTransfer, Start
  <2> QED
    BY <1>1, <1>5, <2>1, <2>2, BeginKeeps DEF BeginTransfer
<1> QED
  BY <1>2, <1>3, <1>4, <1>5 DEF Begin

LEMMA EnsureDestinationKeeps ==
    ASSUME TxInv, NEW r \in Requests, EnsureDestination(r)
    PROVE  TxInv' /\ UNCHANGED vars
<1> DEFINE c == call[r]
           there == <<c.to, c.ing>>
           rows == RowsOf(c) \cup {there}
<1>1. TxTypeOK /\ DOMAIN seen = Requests /\ RequestIsSound(r) /\ c \in AnyCall
  BY TypesOfRequests DEF TxInv
<1>2. /\ pc[r] = "opened" /\ c.kind = "transfer" /\ pc' = [pc EXCEPT ![r] = "locking"]
      /\ \/ there \in stocked /\ UNCHANGED rowHolder
         \/ /\ there \notin stocked /\ rowHolder[there] = NoRequest
            /\ rowHolder' = [rowHolder EXCEPT ![there] = r]
      /\ want' = [want EXCEPT ![r] = rows]
      /\ UNCHANGED <<status, storeOf, line, stocked, stock, ledger, orderHolder, call, seen,
                     pending, booked, begun, seenLadder, ladder, changes>>
  BY DEF EnsureDestination, tables, alerts
<1>3. /\ there \in Shelves /\ rows \subseteq Shelves /\ r # NoRequest
      /\ \A k \in rows : (k \in stocked /\ k = <<c.store, c.ing>>) \/ k = there
  BY <1>1, <1>2, FieldsOfCalls, NoRequestIsNone DEF RowsOf, TxInv, IInv, TypeOK
<1>4. /\ pc'[r] = "locking" /\ want'[r] = rows
      /\ \A q \in Requests : q # r => pc'[q] = pc[q] /\ want'[q] = want[q]
      /\ \A q \in Requests \ {r}, k \in Shelves : rowHolder'[k] = q <=> rowHolder[k] = q
      /\ \A k \in Shelves : rowHolder'[k] = r <=> rowHolder[k] = r \/ (k = there /\ there \notin stocked)
      /\ rowHolder' \in [Shelves -> Requests \cup {NoRequest}]
  <2> HIDE DEF there, rows, c
  <2> QED
    BY <1>1, <1>2, <1>3, NoRequestIsNone DEF TxTypeOK
<1>5. /\ Got(r)' = {} /\ \A k \in Held(r)' : k \notin stocked
      /\ \A o \in Orders : orderHolder'[o] # r
  BY <1>1, <1>2, <1>4 DEF RequestIsSound, CallIsSound, Got, Held
<1>6. RequestIsSound(r)'
  <2>1. CallIsSound(r)'
    BY <1>1, <1>2, <1>4, <1>5, KindsOfCalls DEF RequestIsSound, CallIsSound, OnOrder
  <2>2. RowsAreSound(r)'
    <3>1. ASSUME NEW k \in rows PROVE MayLock(r, k)'
      BY <1>2, <1>3 DEF MayLock
    <3>2. there \in stocked' \/ rowHolder'[there] = r
      BY <1>2, <1>3, <1>4
    <3> QED
      BY <1>2, <1>4, <1>5, <3>1, <3>2 DEF RowsAreSound
  <2>3. OrderIsSound(r)'
    BY <1>1, <1>2, <1>5 DEF RequestIsSound, OrderIsSound, OnOrder
  <2>4. LadderIsFresh(r)'
    BY <1>5 DEF LadderIsFresh
  <2> QED
    BY <2>1, <2>2, <2>3, <2>4 DEF RequestIsSound
<1>7. ASSUME NEW q \in Requests, q # r PROVE RequestIsSound(q)'
  BY <1>2, <1>4, <1>7, OthersKeep
<1>8. TxTypeOK'
  <2>1. /\ pc' \in [Requests -> {"idle", "opened", "locking"}]
        /\ want' \in [Requests -> SUBSET Shelves]
    <3> HIDE DEF rows, there, c
    <3> QED
      BY <1>1, <1>2, <1>3 DEF TxTypeOK
  <2>2. \A q \in Requests : Got(q)' = Got(q)
    BY <1>2 DEF Got
  <2>3. \A q \in Requests : pc'[q] = "idle" => Held(q)' = {} /\ \A o \in Orders : orderHolder'[o] # q
    BY <1>6, <1>7 DEF RequestIsSound, CallIsSound
  <2> QED
    BY <1>1, <1>2, <1>4, <2>1, <2>2, <2>3 DEF TxTypeOK
<1> QED
  BY <1>1, <1>2, <1>6, <1>7, <1>8, TablesStay DEF TxInv

LEMMA LockOrderKeeps ==
    ASSUME TxInv, NEW r \in Requests, LockOrder(r)
    PROVE  TxInv' /\ UNCHANGED vars
<1> DEFINE c == call[r]
           o == c.order
           due == {l \in OrderLines(o) : Settles(c, status[o]) /\ Outstanding(l) > 0}
           mine == [l \in Lines |-> IF l \in due THEN Outstanding(l) ELSE 0]
           rows == stocked \cap {<<storeOf[o], l[3]>> : l \in due}
<1>1. TxTypeOK /\ DOMAIN seen = Requests /\ RequestIsSound(r) /\ c \in AnyCall
  BY TypesOfRequests DEF TxInv
<1>2. /\ pc[r] = "opened" /\ OnOrder(c) /\ orderHolder[o] = NoRequest /\ MoveAllowed(c, status[o])
      /\ orderHolder' = [orderHolder EXCEPT ![o] = r]
      /\ pending' = [pending EXCEPT ![r] = mine] /\ want' = [want EXCEPT ![r] = rows]
      /\ pc' = [pc EXCEPT ![r] = "locking"]
      /\ UNCHANGED <<status, storeOf, line, stocked, stock, ledger, rowHolder, call, seen,
                     booked, begun, seenLadder, ladder, changes>>
  BY DEF LockOrder, Settles, tables, alerts
<1>3. /\ o \in Orders /\ status[o] # "ABSENT" /\ rows \subseteq Shelves /\ r # NoRequest
      /\ \A k \in rows : k \in stocked /\ k[1] = storeOf[o]
  <2>1. o \in Orders /\ status[o] # "ABSENT" /\ r # NoRequest
    BY <1>1, <1>2, FieldsOfCalls, NoRequestIsNone DEF RequestIsSound, CallIsSound
  <2>2. stocked \subseteq Shelves
    BY DEF TxInv, IInv, TypeOK
  <2> HIDE DEF due, o
  <2> QED
    BY <2>1, <2>2
<1>4. mine \in [Lines -> 0..Capacity]
  <2>1. ASSUME NEW l \in due PROVE Outstanding(l) \in 0..Capacity
    BY <1>3, LineShape DEF TxInv
  <2> HIDE DEF due
  <2> QED
    BY <2>1, CapacityIsNat
<1>5. /\ pc'[r] = "locking" /\ want'[r] = rows /\ pending'[r] = mine
      /\ \A q \in Requests : q # r =>
            pc'[q] = pc[q] /\ want'[q] = want[q] /\ pending'[q] = pending[q]
      /\ \A q \in Requests \ {r}, p \in Orders : orderHolder'[p] = q <=> orderHolder[p] = q
      /\ \A p \in Orders : orderHolder'[p] = r <=> orderHolder[p] = r \/ p = o
  <2> HIDE DEF mine, rows, o
  <2> QED
    BY <1>1, <1>2, <1>3, NoRequestIsNone DEF TxTypeOK
<1>6. Got(r)' = {} /\ Held(r)' = {} /\ \A p \in Orders : orderHolder'[p] = r <=> p = o
  BY <1>1, <1>2, <1>5 DEF RequestIsSound, CallIsSound, Got, Held
<1>7. RequestIsSound(r)'
  <2>1. CallIsSound(r)'
    BY <1>1, <1>2, <1>5, KindsOfCalls DEF RequestIsSound, CallIsSound, OnOrder
  <2>2. RowsAreSound(r)'
    <3>1. ASSUME NEW k \in rows PROVE MayLock(r, k)'
      BY <1>2, <1>3 DEF MayLock, OnOrder
    <3>2. c.kind # "transfer"
      BY <1>2 DEF OnOrder
    <3> QED
      BY <1>2, <1>5, <1>6, <3>1, <3>2 DEF RowsAreSound
  <2>3. OrderIsSound(r)'
    <3>1. \A l \in Lines : mine[l] = IF l[1] = o /\ Settles(c, status[o]) /\ Outstanding(l) > 0
                                     THEN Outstanding(l) ELSE 0
      BY DEF OrderLines
    <3>2. \A l \in Lines : Outstanding(l)' = Outstanding(l)
      BY <1>2 DEF Outstanding
    <3>3. /\ Settles(c, status[o])' = Settles(c, status[o])
          /\ MoveAllowed(c, status[o])' = MoveAllowed(c, status[o])
      BY <1>2 DEF Settles, MoveAllowed, Consumes, Releases
    <3>4. /\ pc'[r] = "locking" /\ OnOrder(c) /\ call' = call /\ status' = status
          /\ orderHolder'[o] = r /\ MoveAllowed(c, status[o]) /\ pending'[r] = mine
      BY <1>2, <1>3, <1>5, <1>6
    <3>5. \A l \in Lines : pending'[r][l] =
             IF l[1] = o /\ Settles(c, status[o])' /\ Outstanding(l)' > 0
             THEN Outstanding(l)' ELSE 0
      <4> HIDE DEF mine
      <4> QED
        BY <3>1, <3>2, <3>3, <3>4
    <3> QED
      BY <1>6, <3>3, <3>4, <3>5 DEF OrderIsSound, OnOrder
  <2>4. LadderIsFresh(r)'
    BY <1>6 DEF LadderIsFresh
  <2> QED
    BY <2>1, <2>2, <2>3, <2>4 DEF RequestIsSound
<1>8. ASSUME NEW q \in Requests, q # r PROVE RequestIsSound(q)'
  BY <1>2, <1>5, <1>8, OthersKeep
<1>9. TxTypeOK'
  <2>1. /\ pc' \in [Requests -> {"idle", "opened", "locking"}]
        /\ want' \in [Requests -> SUBSET Shelves]
        /\ orderHolder' \in [Orders -> Requests \cup {NoRequest}]
        /\ pending' \in [Requests -> [Lines -> 0..Capacity]]
    <3> HIDE DEF rows, mine, o
    <3> QED
      BY <1>1, <1>2, <1>3, <1>4 DEF TxTypeOK
  <2>2. \A q \in Requests : Got(q)' = Got(q)
    BY <1>2 DEF Got
  <2>3. \A q \in Requests : pc'[q] = "idle" => Held(q)' = {} /\ \A p \in Orders : orderHolder'[p] # q
    BY <1>7, <1>8 DEF RequestIsSound, CallIsSound
  <2> QED
    BY <1>1, <1>2, <2>1, <2>2, <2>3 DEF TxTypeOK
<1> QED
  BY <1>1, <1>2, <1>7, <1>8, <1>9, TablesStay DEF TxInv

-----------------------------------------------------------------------------
(* Rows are locked in order *)

LEMMA LeastNatural ==
    ASSUME NEW S, S \subseteq Nat, S # {}
    PROVE  \E n \in S : \A m \in S : n <= m
<1> DEFINE Less == OpToRel(<, Nat)
<1>1. IsWellFoundedOn(Less, Nat)
  BY NatLessThanWellFounded
<1>2. PICK n \in S : \A m \in S : ~(<<m, n>> \in Less)
  <2> HIDE DEF Less
  <2> QED
    BY <1>1, WFMin
<1>3. ASSUME NEW m \in S PROVE n <= m
  <2>1. m \in Nat /\ n \in Nat
    OBVIOUS
  <2>2. ~(m < n)
    BY <1>2, <2>1 DEF OpToRel
  <2> QED
    BY <2>1, <2>2
<1> QED
  BY <1>3

\* A set of shelves has a first one: the first branch in it, and there the first
\* ingredient.
LEMMA FirstShelf ==
    ASSUME NEW S, S \subseteq Shelves, S # {}
    PROVE  \E k \in S : \A m \in S \ {k} : Before(k, m)
<1>1. ASSUME NEW k \in S PROVE k[1] \in Nat /\ k[2] \in Nat /\ k = <<k[1], k[2]>>
  <2>1. k[1] \in Stores /\ k[2] \in Ingredients
    BY DEF Shelves
  <2>2. k = <<k[1], k[2]>>
    BY DEF Shelves
  <2> QED
    BY <2>1, <2>2, OrderedIds
<1> DEFINE Firsts == {k[1] : k \in S}
<1>2. PICK s \in Firsts : \A t \in Firsts : s <= t
  <2>1. Firsts \subseteq Nat /\ Firsts # {}
    BY <1>1
  <2> HIDE DEF Firsts
  <2> QED
    BY <2>1, LeastNatural
<1> DEFINE Seconds == {k[2] : k \in {m \in S : m[1] = s}}
<1>3. PICK i \in Seconds : \A j \in Seconds : i <= j
  <2>1. Seconds \subseteq Nat /\ Seconds # {}
    BY <1>1
  <2> HIDE DEF Seconds
  <2> QED
    BY <2>1, LeastNatural
<1>4. PICK k \in S : k[1] = s /\ k[2] = i
  OBVIOUS
<1>5. ASSUME NEW m \in S, m # k PROVE Before(k, m)
  <2>1. s <= m[1] /\ m[1] \in Nat /\ s \in Nat
    BY <1>1, <1>2, <1>4
  <2>2. m[1] = s => i <= m[2] /\ m[2] \in Nat /\ i \in Nat /\ m[2] # i
    BY <1>1, <1>3, <1>4, <1>5
  <2> QED
    BY <1>4, <2>1, <2>2 DEF Before
<1> QED
  BY <1>5

LEMMA NextRowIsFirst ==
    ASSUME NEW r, want[r] \subseteq Shelves, want[r] # {}
    PROVE  NextRow(r) \in want[r] /\ \A m \in want[r] \ {NextRow(r)} : Before(NextRow(r), m)
BY FirstShelf DEF NextRow

LEMMA LockRowKeeps ==
    ASSUME TxInv, NEW r \in Requests, LockRow(r)
    PROVE  TxInv' /\ UNCHANGED vars
<1> DEFINE c == call[r]
           k == NextRow(r)
           got == [m \in Got(r) \cup {k} |-> IF m = k THEN stock[k] ELSE seen[r][m]]
<1>1. TxTypeOK /\ DOMAIN seen = Requests /\ RequestIsSound(r) /\ c \in AnyCall
  BY TypesOfRequests DEF TxInv
<1>2. /\ pc[r] = "locking" /\ want[r] # {}
      /\ rowHolder[k] \in {NoRequest, r} /\ rowHolder' = [rowHolder EXCEPT ![k] = r]
      /\ seen' = [seen EXCEPT ![r] = got] /\ seenLadder' = [seenLadder EXCEPT ![r] = ReadLadder(r, k)]
      /\ want' = [want EXCEPT ![r] = want[r] \ {k}]
      /\ UNCHANGED <<status, storeOf, line, stocked, stock, ledger, orderHolder, call, pc,
                     pending, booked, begun, ladder, changes>>
  BY DEF LockRow, tables, alerts
<1>3. /\ k \in want[r] /\ k \in Shelves /\ \A m \in want[r] \ {k} : Before(k, m)
      /\ want[r] \subseteq Shelves /\ Got(r) \subseteq Shelves /\ r # NoRequest
  BY <1>1, <1>2, NextRowIsFirst, TypesOfRequests
<1>4. /\ want'[r] = want[r] \ {k} /\ seen'[r] = got /\ seenLadder'[r] = ReadLadder(r, k)
      /\ \A q \in Requests : q # r =>
            want'[q] = want[q] /\ seen'[q] = seen[q] /\ seenLadder'[q] = seenLadder[q]
      /\ \A q \in Requests \ {r}, m \in Shelves : rowHolder'[m] = q <=> rowHolder[m] = q
      /\ \A m \in Shelves : rowHolder'[m] = r <=> rowHolder[m] = r \/ m = k
  <2> HIDE DEF got, k
  <2> QED
    BY <1>1, <1>2, <1>3, NoRequestIsNone DEF TxTypeOK
<1>5. /\ Got(r)' = Got(r) \cup {k} /\ Held(r)' = Held(r) \cup {k}
      /\ \A m \in Got(r) : m # k => seen'[r][m] = seen[r][m]
      /\ seen'[r][k] = stock[k]
  <2>1. Got(r)' = Got(r) \cup {k}
    BY <1>4 DEF Got
  <2>2. Held(r)' = Held(r) \cup {k}
    <3> HIDE DEF k
    <3> QED
      BY <1>3, <1>4 DEF Held
  <2>3. /\ \A m \in Got(r) : m # k => seen'[r][m] = seen[r][m]
        /\ seen'[r][k] = stock[k]
    <3> HIDE DEF k
    <3> QED
      BY <1>4
  <2> QED
    BY <2>1, <2>2, <2>3
<1> HIDE DEF k, got
<1>6. RequestIsSound(r)'
  <2>1. CallIsSound(r)'
    BY <1>1, <1>2 DEF RequestIsSound, CallIsSound, OnOrder
  <2>2. RowsAreSound(r)'
    <3>1. RowsAreSound(r)
      BY <1>1 DEF RequestIsSound
    <3>2. \A m \in Got(r) \cup want[r] : MayLock(r, m)'
      BY <1>2, <3>1 DEF RowsAreSound, MayLock
    <3>3. \A m \in Got(r)' : seen'[r][m] = stock'[m]
      BY <1>2, <1>5, <3>1 DEF RowsAreSound
    <3>4. \A m \in Got(r)', n \in want'[r] : Before(m, n)
      BY <1>3, <1>4, <1>5, <3>1 DEF RowsAreSound
    <3>5. c.kind = "transfer" => LET there == <<c.to, c.ing>> IN there \in stocked \/ rowHolder'[there] = r
      BY <1>1, <1>2, <1>4, <3>1, FieldsOfCalls DEF RowsAreSound
    <3> QED
      BY <1>2, <1>3, <1>4, <1>5, <3>1, <3>2, <3>3, <3>4, <3>5 DEF RowsAreSound
  <2>3. OrderIsSound(r)'
    <3>1. \A l \in Lines : Outstanding(l)' = Outstanding(l)
      BY <1>2 DEF Outstanding
    <3> QED
      BY <1>1, <1>2, <3>1
         DEF RequestIsSound, OrderIsSound, OnOrder, Settles, MoveAllowed, Consumes, Releases
  <2>4. LadderIsFresh(r)'
    <3>1. ASSUME c.kind = "threshold" PROVE \A m \in Got(r)' : m = k
      BY <1>1, <1>3, <1>5, <3>1 DEF RequestIsSound, RowsAreSound, MayLock
    <3> QED
      BY <1>2, <1>4, <3>1 DEF LadderIsFresh, ReadLadder
  <2> QED
    BY <2>1, <2>2, <2>3, <2>4 DEF RequestIsSound
<1>7. ASSUME NEW q \in Requests, q # r PROVE RequestIsSound(q)'
  BY <1>2, <1>4, <1>7, OthersKeep
<1>8. TxTypeOK'
  <2>1. /\ want' \in [Requests -> SUBSET Shelves]
        /\ rowHolder' \in [Shelves -> Requests \cup {NoRequest}]
    BY <1>1, <1>2, <1>3 DEF TxTypeOK
  <2>2. seenLadder' \in [Requests -> Ladders \cup {NoLadder}]
    BY <1>1, <1>2, <1>3 DEF TxTypeOK, ReadLadder
  <2>3. ASSUME NEW q \in Requests
        PROVE  Got(q)' \subseteq Shelves /\ \A m \in Got(q)' : seen'[q][m] \in StockRow
    <3>1. CASE q = r
      <4>1. stock[k] \in StockRow
        BY <1>3 DEF TxInv, IInv, TypeOK
      <4>2. \A m \in Got(r) : seen[r][m] \in StockRow
        BY <1>1 DEF TxTypeOK
      <4> QED
        BY <1>3, <1>5, <3>1, <4>1, <4>2
    <3>2. CASE q # r
      <4>1. Got(q)' = Got(q) /\ seen'[q] = seen[q]
        BY <1>4, <3>2 DEF Got
      <4> QED
        BY <1>1, <4>1 DEF TxTypeOK
    <3> QED
      BY <3>1, <3>2
  <2>4. \A q \in Requests : pc'[q] = "idle" => Held(q)' = {} /\ \A o \in Orders : orderHolder'[o] # q
    BY <1>6, <1>7 DEF RequestIsSound, CallIsSound
  <2> QED
    BY <1>1, <1>2, <2>1, <2>2, <2>3, <2>4 DEF TxTypeOK
<1> QED
  BY <1>1, <1>2, <1>6, <1>7, <1>8, TablesStay DEF TxInv

-----------------------------------------------------------------------------
(* Commits: each one is the call of OrderInventory it stands for, because what was *)
(* read under the locks is still so. *)

\* What a call that is about to commit has read.
LEMMA CommitReads ==
    ASSUME TxInv, NEW r \in Requests, pc[r] = "locking"
    PROVE  /\ call[r] \in AnyCall /\ CallIsSound(r) /\ OrderIsSound(r) /\ LadderIsFresh(r)
           /\ Got(r) \subseteq Shelves
           /\ \A k \in Got(r) : seen[r][k] = stock[k] /\ MayLock(r, k) /\ rowHolder[k] = r
           /\ \A k \in Shelves : stock[k] \in StockRow /\ ledger[k] \in LedgerSums
           /\ \A o \in Orders : orderHolder[o] \in Requests => status[o] # "ABSENT"
<1>1. RequestIsSound(r) /\ TxTypeOK /\ call[r] \in AnyCall /\ Got(r) \subseteq Shelves
  BY TypesOfRequests DEF TxInv
<1>2. \A k \in Got(r) : seen[r][k] = stock[k] /\ MayLock(r, k) /\ rowHolder[k] = r
  BY <1>1 DEF RequestIsSound, RowsAreSound, Held
<1>3. \A o \in Orders : orderHolder[o] \in Requests => status[o] # "ABSENT"
  <2> SUFFICES ASSUME NEW o \in Orders, orderHolder[o] \in Requests PROVE status[o] # "ABSENT"
    OBVIOUS
  <2>1. RequestIsSound(orderHolder[o])
    BY DEF TxInv
  <2> QED
    BY <2>1 DEF RequestIsSound, CallIsSound, OrderIsSound
<1> QED
  BY <1>1, <1>2, <1>3 DEF RequestIsSound, TxInv, IInv, TypeOK

\* Nothing is booked on a shelf when nothing is due there.
LEMMA ZeroRows ==
    ASSUME NEW row \in StockRow, NEW sums \in LedgerSums
    PROVE  /\ ReservedRow(row, 0) = row /\ ConsumedRow(row, 0) = row /\ ReleasedRow(row, 0) = row
           /\ PostReserved(sums, 0) = sums /\ PostConsumed(sums, 0) = sums
           /\ PostReleased(sums, 0) = sums
BY DEF StockRow, LedgerSums, ReservedRow, ConsumedRow, ReleasedRow, PostReserved, PostConsumed,
   PostReleased

LEMMA CommitCheckoutKeeps ==
    ASSUME TxInv, NEW r \in Requests, NEW o \in Orders, CommitCheckout(r, o)
    PROVE  TxInv' /\ Next
<1> DEFINE c == call[r]
           s == c.store
           need == NeedOf(c, o)
<1>1. /\ pc[r] = "locking" /\ c.kind = "checkout" /\ status[o] = "ABSENT" /\ Finish(r)
      /\ UNCHANGED <<stocked, booked, ladder, changes>>
  BY DEF CommitCheckout, Ready, alerts
<1>2. /\ c \in AnyCall /\ s \in Stores /\ c.need \in [Items \X Ingredients -> Needs]
      /\ \E x \in Items \X Ingredients : c.need[x] > 0
      /\ \A k \in Got(r) : k \in Shelves /\ seen[r][k] = stock[k] /\ k \in stocked /\ k[1] = s
  <2>1. /\ c \in AnyCall /\ CallIsSound(r) /\ Got(r) \subseteq Shelves
        /\ \A k \in Got(r) : seen[r][k] = stock[k] /\ MayLock(r, k)
    BY <1>1, CommitReads
  <2>2. s \in Stores /\ c.need \in [Items \X Ingredients -> Needs]
    BY <1>1, <2>1, FieldsOfCalls
  <2>3. \E x \in DOMAIN c.need : c.need[x] > 0
    BY <1>1, <2>1 DEF CallIsSound
  <2>4. \A k \in Got(r) : k \in stocked /\ k[1] = s
    BY <1>1, <2>1 DEF MayLock
  <2>5. DOMAIN c.need = Items \X Ingredients
    BY <2>2
  <2> QED
    BY <2>1, <2>2, <2>3, <2>4, <2>5
<1>3. need \in [OrderLines(o) -> Needs] /\ \E l \in OrderLines(o) : need[l] > 0
  <2>1. \A l \in OrderLines(o) : <<l[2], l[3]>> \in Items \X Ingredients
    BY DEF OrderLines, Lines
  <2>2. PICK x \in Items \X Ingredients : c.need[x] > 0
    BY <1>2
  <2>3. <<o, x[1], x[2]>> \in OrderLines(o) /\ x = <<x[1], x[2]>>
    BY DEF OrderLines, Lines
  <2> DEFINE l == <<o, x[1], x[2]>>
  <2>4. need[l] = c.need[<<l[2], l[3]>>] /\ <<l[2], l[3]>> = x
    BY <2>3 DEF NeedOf
  <2> QED
    BY <1>2, <2>1, <2>2, <2>3, <2>4 DEF NeedOf
<1>4. \A i \in Ingredients :
          Required(need, o, i) > 0 =>
              /\ <<s, i>> \in Got(r)
              /\ seen[r][<<s, i>>].onHand - seen[r][<<s, i>>].reserved >= Required(need, o, i)
  BY DEF CommitCheckout, SeenAvailable
<1> HIDE DEF need, s, c
<1>5. \A i : Required(need, o, i) \in Nat
  BY LinesOfFinite, TotalType DEF Required
<1>6. Satisfiable(need, o, s)
  BY <1>2, <1>4 DEF Satisfiable, Available
<1>7. \A k \in Shelves : k[1] = s /\ k \notin Got(r) => Required(need, o, k[2]) = 0
  <2>1. \A k \in Shelves : k[2] \in Ingredients /\ k = <<k[1], k[2]>>
    BY DEF Shelves
  <2> QED
    BY <1>4, <1>5, <2>1
<1>8. \A k \in Shelves : stock[k] \in StockRow /\ ledger[k] \in LedgerSums
  BY <1>1, CommitReads
<1>9. CreateOrder(o, s, need)
  <2>1. /\ status' = [status EXCEPT ![o] = "NEW"] /\ storeOf' = [storeOf EXCEPT ![o] = s]
        /\ line' = [l \in Lines |-> IF l[1] = o THEN NewLine(need[l]) ELSE line[l]]
        /\ stock' = [k \in Shelves |->
                        IF k \in Got(r)
                        THEN ReservedRow(seen[r][k], Required(need, o, k[2])) ELSE stock[k]]
        /\ ledger' = [k \in Shelves |->
                        IF k \in Got(r)
                        THEN PostReserved(ledger[k], Required(need, o, k[2])) ELSE ledger[k]]
    BY DEF CommitCheckout, need, s, c
  <2>2. stock' = [k \in Shelves |->
                    IF k[1] = s THEN ReservedRow(stock[k], Required(need, o, k[2])) ELSE stock[k]]
    BY <1>2, <1>7, <1>8, <2>1, ZeroRows
  <2>3. ledger' = [k \in Shelves |->
                     IF k[1] = s THEN PostReserved(ledger[k], Required(need, o, k[2])) ELSE ledger[k]]
    BY <1>2, <1>7, <1>8, <2>1, ZeroRows
  <2> QED
    BY <1>1, <1>3, <1>6, <2>1, <2>2, <2>3 DEF CreateOrder
<1>10. Next
  BY <1>2, <1>3, <1>9 DEF Next, s
<1>11. TxInv'
  <2>1. IInv'
    BY <1>10, NextKeeps DEF TxInv
  <2>2. /\ BookedOnce' /\ ChangesAreAChain' /\ changes' \in [Shelves -> Seq(Change)]
        /\ booked' \in [BookKeys -> Nat] /\ ladder' \in [Shelves -> Ladders \cup {NoLadder}]
    BY <1>1 DEF TxInv, TxTypeOK, BookedOnce, ChangesAreAChain
  <2>3. \A k \in Shelves \ Got(r) : stock'[k] = stock[k] /\ ladder'[k] = ladder[k]
    BY <1>1 DEF CommitCheckout
  <2>4. \A p \in Orders : status[p] # "ABSENT" =>
            /\ status'[p] # "ABSENT" /\ storeOf'[p] = storeOf[p]
            /\ status'[p] = status[p] /\ \A l \in OrderLines(p) : line'[l] = line[l]
    BY <1>1 DEF CommitCheckout, TxInv, IInv, TypeOK, OrderLines
  <2>5. \A p \in Orders : orderHolder[p] \in Requests => status[p] # "ABSENT"
    BY <1>1, CommitReads
  <2> QED
    BY <1>1, <2>1, <2>2, <2>3, <2>4, <2>5, FinishKeeps
<1> QED
  BY <1>10, <1>11

\* Booking a key that was new leaves at most one row per key.
LEMMA BookKeeps ==
    ASSUME TxInv, NEW c \in AnyCall,
           c.kind \in {"movement", "count", "transfer", "threshold"}, Book(c)
    PROVE  BookedOnce' /\ booked' \in [BookKeys -> Nat]
<1>1. BookKey(c) \in BookKeys
  BY FieldsOfCalls
<1>2. booked \in [BookKeys -> Nat] /\ \A b \in BookKeys : booked[b] <= 1
  BY DEF TxInv, TxTypeOK, BookedOnce
<1>3. booked[BookKey(c)] = 0 /\ booked' = [booked EXCEPT ![BookKey(c)] = booked[BookKey(c)] + 1]
  BY DEF Book, KeyIsNew
<1> QED
  BY <1>1, <1>2, <1>3 DEF BookedOnce

\* The commit of a stock-room command that moves stock: the orders are not touched, and
\* the figures only on the rows it has read.
LEMMA StockRoomCommitKeeps ==
    ASSUME TxInv, NEW r \in Requests, pc[r] = "locking",
           call[r].kind \in {"movement", "count", "transfer"}, Book(call[r]), Finish(r), Next,
           UNCHANGED <<status, storeOf, line, ladder, changes>>,
           stocked \subseteq stocked', stocked' \ stocked \subseteq Got(r),
           \A k \in Shelves \ Got(r) : stock'[k] = stock[k]
    PROVE  TxInv'
<1>1. IInv'
  BY NextKeeps DEF TxInv
<1>2. BookedOnce' /\ booked' \in [BookKeys -> Nat]
  BY CommitReads, BookKeeps
<1>3. /\ ChangesAreAChain' /\ changes' \in [Shelves -> Seq(Change)]
      /\ ladder' \in [Shelves -> Ladders \cup {NoLadder}]
  BY DEF TxInv, TxTypeOK, ChangesAreAChain
<1> QED
  BY <1>1, <1>2, <1>3, FinishKeeps

LEMMA CommitMovementKeeps ==
    ASSUME TxInv, NEW r \in Requests, CommitMovement(r)
    PROVE  TxInv' /\ Next
<1> DEFINE c == call[r]
           k == <<c.store, c.ing>>
<1>1. /\ pc[r] = "locking" /\ c.kind = "movement" /\ k \in Got(r) /\ Book(c) /\ Finish(r)
      /\ UNCHANGED <<status, storeOf, line, stocked, ladder, changes>>
  BY DEF CommitMovement, Ready, alerts
<1>2. c \in AnyCall /\ k \in Shelves /\ seen[r][k] = stock[k] /\ MayLock(r, k)
  BY <1>1, CommitReads
<1>3. /\ c.store \in Stores /\ c.ing \in Ingredients
      /\ c.delta \in Quantities \cup {-q : q \in Quantities}
  BY <1>1, <1>2, FieldsOfCalls
<1>4. k \in stocked
  BY <1>1, <1>2 DEF MayLock
<1>5. ManualMovement(c.store, c.ing, c.delta)
  <2>1. /\ c.delta # 0 /\ stock[k].onHand + c.delta >= 0
        /\ stock[k].onHand + c.delta >= stock[k].reserved /\ stock[k].onHand + c.delta <= Capacity
        /\ stock' = [stock EXCEPT ![k] = MovedRow(stock[k], c.delta)]
        /\ ledger' = [ledger EXCEPT ![k] = PostMoved(ledger[k], c.delta)]
    BY <1>2 DEF CommitMovement
  <2> QED
    BY <1>1, <1>4, <2>1 DEF ManualMovement, MovementAllowed
<1>6. \E q \in Quantities : ManualAdjustment(c.store, c.ing, q)
  <2>1. CASE c.delta \in Quantities
    BY <1>5, <2>1 DEF ManualAdjustment
  <2>2. CASE c.delta \notin Quantities
    <3>1. PICK q \in Quantities : c.delta = -q
      BY <1>3, <2>2
    <3> QED
      BY <1>5, <3>1 DEF ManualAdjustment
  <2> QED
    BY <2>1, <2>2
<1>7. Next
  BY <1>3, <1>6 DEF Next, StockRoom
<1>8. \A m \in Shelves \ Got(r) : stock'[m] = stock[m]
  BY <1>1, <1>5 DEF ManualMovement, TxInv, IInv, TypeOK
<1> QED
  BY <1>1, <1>7, <1>8, StockRoomCommitKeeps

LEMMA CommitCountKeeps ==
    ASSUME TxInv, NEW r \in Requests, CommitCount(r)
    PROVE  TxInv' /\ Next
<1> DEFINE c == call[r]
           k == <<c.store, c.ing>>
<1>1. /\ pc[r] = "locking" /\ c.kind = "count" /\ k \in Got(r) /\ Book(c) /\ Finish(r)
      /\ UNCHANGED <<status, storeOf, line, stocked, ladder, changes>>
  BY DEF CommitCount, Ready, alerts
<1>2. c \in AnyCall /\ k \in Shelves /\ seen[r][k] = stock[k] /\ MayLock(r, k)
  BY <1>1, CommitReads
<1>3. c.store \in Stores /\ c.ing \in Ingredients /\ c.counted \in Quantities
  BY <1>1, <1>2, FieldsOfCalls
<1>4. k \in stocked
  BY <1>1, <1>2 DEF MayLock
<1>5. StockCount(c.store, c.ing, c.counted)
  <2>1. /\ c.counted >= stock[k].reserved
        /\ stock' = [stock EXCEPT ![k] = MovedRow(stock[k], c.counted - stock[k].onHand)]
        /\ ledger' = [ledger EXCEPT ![k] = PostMoved(ledger[k], c.counted - stock[k].onHand)]
    BY <1>2 DEF CommitCount
  <2> QED
    BY <1>1, <1>4, <2>1 DEF StockCount, CountAllowed
<1>6. Next
  BY <1>3, <1>5 DEF Next, StockRoom
<1>7. \A m \in Shelves \ Got(r) : stock'[m] = stock[m]
  BY <1>1, <1>5 DEF StockCount, TxInv, IInv, TypeOK
<1> QED
  BY <1>1, <1>6, <1>7, StockRoomCommitKeeps

LEMMA CommitTransferKeeps ==
    ASSUME TxInv, NEW r \in Requests, CommitTransfer(r)
    PROVE  TxInv' /\ Next
<1> DEFINE c == call[r]
           here == <<c.store, c.ing>>
           there == <<c.to, c.ing>>
<1>1. /\ pc[r] = "locking" /\ c.kind = "transfer" /\ here \in Got(r) /\ there \in Got(r)
      /\ Book(c) /\ Finish(r) /\ UNCHANGED <<status, storeOf, line, ladder, changes>>
      /\ stocked' = stocked \cup {there}
  BY DEF CommitTransfer, Ready, alerts
<1>2. /\ c \in AnyCall /\ CallIsSound(r) /\ here \in Shelves /\ there \in Shelves
      /\ seen[r][here] = stock[here] /\ seen[r][there] = stock[there] /\ MayLock(r, here)
  BY <1>1, CommitReads
<1>3. /\ c.store \in Stores /\ c.to \in Stores /\ c.ing \in Ingredients /\ c.qty \in Quantities
      /\ c.store # c.to
  BY <1>1, <1>2, FieldsOfCalls DEF CallIsSound
<1>4. here \in stocked /\ here # there
  <2>1. here # there
    BY <1>3
  <2> QED
    BY <1>1, <1>2, <2>1 DEF MayLock
<1>5. TransferStock(c.store, c.to, c.ing, c.qty)
  <2>1. /\ c.qty > 0 /\ stock[here].onHand - stock[here].reserved >= c.qty
        /\ stock[there].onHand + c.qty <= Capacity
    BY <1>2 DEF CommitTransfer, SeenAvailable
  <2>2. stock' = [stock EXCEPT ![here] = MovedRow(seen[r][here], -c.qty),
                               ![there] = MovedRow(seen[r][there], c.qty)]
    BY DEF CommitTransfer
  <2>3. ledger' = [ledger EXCEPT ![here] = PostMoved(@, -c.qty), ![there] = PostMoved(@, c.qty)]
    BY DEF CommitTransfer
  <2>4. stock' = [stock EXCEPT ![here] = MovedRow(@, -c.qty), ![there] = MovedRow(@, c.qty)]
    BY <1>2, <1>4, <2>2 DEF TxInv, IInv, TypeOK
  <2> QED
    BY <1>1, <1>3, <1>4, <2>1, <2>3, <2>4 DEF TransferStock, TransferAllowed, Available
<1>6. Next
  BY <1>3, <1>5 DEF Next, StockRoom
<1>7. \A m \in Shelves \ Got(r) : stock'[m] = stock[m]
  BY <1>1, <1>5 DEF TransferStock, TxInv, IInv, TypeOK
<1>8. stocked \subseteq stocked' /\ stocked' \ stocked \subseteq Got(r)
  BY <1>1
<1> QED
  BY <1>1, <1>6, <1>7, <1>8, StockRoomCommitKeeps

LEMMA AppendFacts ==
    ASSUME NEW S, NEW log \in Seq(S), NEW e \in S
    PROVE  /\ Append(log, e) \in Seq(S) /\ Append(log, e) # <<>>
           /\ Len(log) \in Nat /\ Len(Append(log, e)) = Len(log) + 1
           /\ DOMAIN log = 1..Len(log) /\ DOMAIN Append(log, e) = 1..(Len(log) + 1)
           /\ Append(log, e)[Len(log) + 1] = e
           /\ \A n \in 1..Len(log) : Append(log, e)[n] = log[n]
<1>1. Append(log, e) \in Seq(S) /\ Len(log) \in Nat /\ DOMAIN log = 1..Len(log)
  OBVIOUS
<1>2. Len(Append(log, e)) = Len(log) + 1
  OBVIOUS
<1>3. DOMAIN Append(log, e) = 1..(Len(log) + 1)
  BY <1>1, <1>2
<1>4. Append(log, e) # <<>>
  BY <1>1, <1>2
<1>5. Append(log, e)[Len(log) + 1] = e
  BY <1>1
<1>6. \A n \in 1..Len(log) : Append(log, e)[n] = log[n]
  BY <1>1
<1> QED
  BY <1>1, <1>2, <1>3, <1>4, <1>5, <1>6

\* A change of thresholds is a step of the tables' owner that moves nothing.
LEMMA CommitThresholdKeeps ==
    ASSUME TxInv, NEW r \in Requests, CommitThreshold(r)
    PROVE  TxInv' /\ UNCHANGED vars
<1> DEFINE c == call[r]
           k == <<c.store, c.ing>>
           change == [old |-> seenLadder[r], new |-> c.ladder]
<1>1. /\ pc[r] = "locking" /\ c.kind = "threshold" /\ k \in Got(r) /\ Book(c) /\ Finish(r)
      /\ ladder' = [ladder EXCEPT ![k] = c.ladder]
      /\ changes' = [changes EXCEPT ![k] = Append(changes[k], change)]
      /\ UNCHANGED <<status, storeOf, line, stocked, stock, ledger>>
  BY DEF CommitThreshold, Ready, tables
<1>2. UNCHANGED vars
  BY <1>1 DEF vars
<1>3. IInv'
  BY <1>2, NextKeeps DEF TxInv
<1>4. c \in AnyCall /\ k \in Shelves /\ Got(r) \subseteq Shelves /\ seenLadder[r] = ladder[k]
  BY <1>1, CommitReads DEF LadderIsFresh
<1>5. c.ladder \in Ladders /\ BookedOnce' /\ booked' \in [BookKeys -> Nat]
  BY <1>1, <1>4, FieldsOfCalls, BookKeeps
<1>6. /\ ladder \in [Shelves -> Ladders \cup {NoLadder}] /\ changes \in [Shelves -> Seq(Change)]
      /\ change \in Change /\ changes[k] \in Seq(Change)
  BY <1>4, <1>5 DEF TxInv, TxTypeOK, Change
<1>7. /\ ladder' \in [Shelves -> Ladders \cup {NoLadder}]
      /\ changes' \in [Shelves -> Seq(Change)]
  <2>1. Append(changes[k], change) \in Seq(Change)
    BY <1>6, AppendFacts
  <2> HIDE DEF change
  <2> QED
    BY <1>1, <1>5, <1>6, <2>1
<1>8. ChangesAreAChain'
  <2> SUFFICES ASSUME NEW m \in Shelves
               PROVE  LET log == changes'[m] IN
                      /\ \A n \in DOMAIN log : log[n].old = IF n = 1 THEN NoLadder ELSE log[n - 1].new
                      /\ ladder'[m] = IF log = <<>> THEN NoLadder ELSE log[Len(log)].new
    BY DEF ChangesAreAChain
  <2> DEFINE log == changes[m]
  <2>1. /\ log \in Seq(Change)
        /\ \A n \in DOMAIN log : log[n].old = IF n = 1 THEN NoLadder ELSE log[n - 1].new
        /\ ladder[m] = IF log = <<>> THEN NoLadder ELSE log[Len(log)].new
    BY <1>6 DEF TxInv, ChangesAreAChain
  <2>2. CASE m # k
    BY <1>1, <1>4, <1>6, <2>1, <2>2
  <2>3. CASE m = k
    <3>1. changes'[m] = Append(log, change) /\ ladder'[m] = c.ladder
      BY <1>1, <1>4, <1>6, <2>3
    <3>2. change.old = ladder[m] /\ change.new = c.ladder
      BY <1>4, <2>3
    <3> HIDE DEF log, change
    <3> DEFINE new == Append(log, change)
    <3>3. /\ Len(new) = Len(log) + 1 /\ DOMAIN new = 1..(Len(log) + 1) /\ Len(log) \in Nat
          /\ new[Len(log) + 1] = change /\ \A n \in 1..Len(log) : new[n] = log[n]
          /\ DOMAIN log = 1..Len(log) /\ new # <<>>
      <4>1. log \in Seq(Change) /\ change \in Change
        BY <1>6, <2>1
      <4> HIDE DEF Change
      <4> QED
        BY <4>1, AppendFacts
    <3>4. log = <<>> <=> Len(log) = 0
      BY <2>1
    <3> HIDE DEF new
    <3>5. ASSUME NEW n \in DOMAIN new
          PROVE  new[n].old = IF n = 1 THEN NoLadder ELSE new[n - 1].new
      <4>1. CASE n = Len(log) + 1
        BY <2>1, <3>2, <3>3, <3>4, <4>1
      <4>2. CASE n # Len(log) + 1
        <5>1. n \in 1..Len(log) /\ (n # 1 => n - 1 \in 1..Len(log))
          BY <3>3, <3>5, <4>2
        <5> QED
          BY <2>1, <3>3, <5>1
      <4> QED
        BY <4>1, <4>2
    <3>6. ladder'[m] = IF new = <<>> THEN NoLadder ELSE new[Len(new)].new
      BY <3>1, <3>2, <3>3
    <3>7. changes'[m] = new
      BY <3>1 DEF new
    <3> QED
      BY <3>5, <3>6, <3>7
  <2> QED
    BY <2>2, <2>3
<1>9. \A m \in Shelves \ Got(r) : stock'[m] = stock[m] /\ ladder'[m] = ladder[m]
  BY <1>1, <1>4, <1>6
<1>10. TxInv'
  BY <1>1, <1>3, <1>5, <1>7, <1>8, <1>9, FinishKeeps
<1> QED
  BY <1>2, <1>10

\* The commit of a call that moves an order: the kitchen's, or a full refund. What it
\* settles is what the order still owes, on the rows it holds and on no other.
LEMMA CommitMoveKeeps ==
    ASSUME TxInv, NEW r \in Requests, CommitMove(r)
    PROVE  TxInv' /\ Next
<1> DEFINE c == call[r]
           o == c.order
           to == IF c.kind = "issue" THEN "CANCELLED" ELSE c.to
<1>1. /\ pc[r] = "locking" /\ OnOrder(c) /\ Finish(r)
      /\ status' = [status EXCEPT ![o] = to]
      /\ line' = [l \in Lines |-> IF l[1] = o THEN SettleLine(r, l) ELSE line[l]]
      /\ \A l \in OrderLines(o) : pending[r][l] > 0 => <<storeOf[o], l[3]>> \in Got(r)
      /\ UNCHANGED <<storeOf, stocked, booked, ladder, changes>>
  BY DEF CommitMove, Ready, alerts, OnOrder
<1>2. /\ stock' = [k \in Shelves |->
                    IF k \notin Got(r) THEN stock[k]
                    ELSE IF Releases(c) THEN ReleasedRow(seen[r][k], Due(r, k))
                                        ELSE ConsumedRow(seen[r][k], Due(r, k))]
      /\ ledger' = [k \in Shelves |->
                    IF k \notin Got(r) THEN ledger[k]
                    ELSE IF Releases(c) THEN PostReleased(ledger[k], Due(r, k))
                                        ELSE PostConsumed(ledger[k], Due(r, k))]
  BY DEF CommitMove
<1>3. /\ c \in AnyCall /\ CallIsSound(r) /\ OrderIsSound(r)
      /\ \A k \in Got(r) : k \in Shelves /\ seen[r][k] = stock[k] /\ MayLock(r, k)
      /\ \A k \in Shelves : stock[k] \in StockRow /\ ledger[k] \in LedgerSums
  BY <1>1, CommitReads
<1>4. /\ o \in Orders /\ status[o] # "ABSENT" /\ orderHolder[o] = r
      /\ MoveAllowed(c, status[o])
      /\ \A l \in Lines : pending[r][l] =
            IF l[1] = o /\ Settles(c, status[o]) /\ Outstanding(l) > 0 THEN Outstanding(l) ELSE 0
  BY <1>1, <1>3, FieldsOfCalls DEF CallIsSound, OrderIsSound
<1>5. \A k \in Got(r) : k[1] = storeOf[o]
  BY <1>1, <1>3 DEF MayLock, OnOrder
<1>6. IInv /\ \A l \in OrderLines(o) : /\ l \in Lines /\ l[1] = o /\ line[l] \in LineRow
                                       /\ Outstanding(l) \in 0..Capacity
  BY <1>4, LineShape DEF TxInv
<1>7. \A k \in Shelves : LinesOf(o, k[2]) \subseteq OrderLines(o)
  BY DEF LinesOf, OrderLines
<1>8. ASSUME Settles(c, status[o])
      PROVE  /\ \A l \in OrderLines(o) : pending[r][l] = Outstanding(l)
             /\ \A k \in Shelves : Due(r, k) = Owed(o, k[2])
             /\ \A k \in Shelves \ Got(r) : k[1] = storeOf[o] => Owed(o, k[2]) = 0
  <2>1. \A l \in OrderLines(o) : pending[r][l] = Outstanding(l)
    <3> TAKE l \in OrderLines(o)
    <3>1. Outstanding(l) \in Nat
      BY <1>6, CapacityIsNat
    <3> QED
      BY <1>4, <1>6, <1>8, <3>1
  <2>2. ASSUME NEW k \in Shelves PROVE Due(r, k) = Owed(o, k[2])
    <3>1. \A l \in LinesOf(o, k[2]) : pending[r][l] = OutstandingOf[l]
      BY <1>6, <1>7, <2>1 DEF OutstandingOf
    <3> QED
      BY <3>1, TotalCongruence DEF Due, Owed
  <2>3. ASSUME NEW k \in Shelves \ Got(r), k[1] = storeOf[o] PROVE Owed(o, k[2]) = 0
    <3>1. ASSUME NEW l \in LinesOf(o, k[2]) PROVE OutstandingOf[l] = 0
      <4>1. l \in OrderLines(o) /\ l \in Lines /\ l[3] = k[2]
        BY <1>6, <1>7 DEF LinesOf
      <4>2. k = <<storeOf[o], l[3]>>
        BY <2>3, <4>1 DEF Shelves
      <4>3. ~(pending[r][l] > 0)
        BY <1>1, <4>1, <4>2
      <4>4. Outstanding(l) \in Nat
        BY <1>6, <4>1, CapacityIsNat
      <4> QED
        BY <2>1, <4>1, <4>3, <4>4 DEF OutstandingOf
    <3> QED
      BY <3>1, TotalOfZeros DEF Owed
  <2> QED
    BY <2>1, <2>2, <2>3
<1> HIDE DEF o, c, to
<1>9. ASSUME Settles(c, status[o]), Releases(c) PROVE ReleaseReservation(o)
  <2>1. line' = [l \in Lines |-> IF l[1] = o THEN ReleasedLine(l) ELSE line[l]]
    <3>1. \A l \in Lines : l[1] = o => SettleLine(r, l) = ReleasedLine(l)
      BY <1>8, <1>9 DEF SettleLine, ReleasedLine, OrderLines, c
    <3> QED
      BY <1>1, <3>1
  <2>2. stock' = [k \in Shelves |->
                    IF k[1] = storeOf[o] THEN ReleasedRow(stock[k], Owed(o, k[2])) ELSE stock[k]]
    BY <1>2, <1>3, <1>5, <1>8, <1>9, ZeroRows
  <2>3. ledger' = [k \in Shelves |->
                    IF k[1] = storeOf[o] THEN PostReleased(ledger[k], Owed(o, k[2])) ELSE ledger[k]]
    BY <1>2, <1>3, <1>5, <1>8, <1>9, ZeroRows
  <2> QED
    BY <2>1, <2>2, <2>3 DEF ReleaseReservation
<1>10. ASSUME Settles(c, status[o]), ~Releases(c) PROVE ConsumeOrder(o)
  <2>1. line' = [l \in Lines |-> IF l[1] = o THEN ConsumedLine(l) ELSE line[l]]
    <3>1. \A l \in Lines : l[1] = o => SettleLine(r, l) = ConsumedLine(l)
      BY <1>8, <1>10 DEF SettleLine, ConsumedLine, OrderLines, c
    <3> QED
      BY <1>1, <3>1
  <2>2. stock' = [k \in Shelves |->
                    IF k[1] = storeOf[o] THEN ConsumedRow(stock[k], Owed(o, k[2])) ELSE stock[k]]
    BY <1>2, <1>3, <1>5, <1>8, <1>10, ZeroRows
  <2>3. ledger' = [k \in Shelves |->
                    IF k[1] = storeOf[o] THEN PostConsumed(ledger[k], Owed(o, k[2])) ELSE ledger[k]]
    BY <1>2, <1>3, <1>5, <1>8, <1>10, ZeroRows
  <2> QED
    BY <2>1, <2>2, <2>3 DEF ConsumeOrder
<1>11. ASSUME ~Settles(c, status[o]) PROVE UNCHANGED <<line, stock, ledger>>
  <2>1. \A l \in Lines : pending[r][l] = 0
    BY <1>4, <1>11
  <2>2. ~Releases(c) /\ line \in [Lines -> LineRow] /\ stock \in [Shelves -> StockRow]
        /\ ledger \in [Shelves -> LedgerSums]
    BY <1>11 DEF Settles, TxInv, IInv, TypeOK
  <2>3. \A l \in Lines : SettleLine(r, l) = line[l]
    <3> TAKE l \in Lines
    <3>1. line[l] \in LineRow /\ SettleLine(r, l) = [line[l] EXCEPT !.consumed = line[l].consumed + 0]
      BY <2>1, <2>2 DEF SettleLine, c
    <3> QED
      BY <3>1, CapacityIsNat DEF LineRow
  <2>4. \A k \in Shelves : Due(r, k) = 0
    <3> TAKE k \in Shelves
    <3>1. \A l \in LinesOf(o, k[2]) : pending[r][l] = 0
      BY <2>1 DEF LinesOf
    <3> QED
      BY <3>1, TotalOfZeros DEF Due, o, c
  <2>5. line' = line
    BY <1>1, <2>2, <2>3
  <2>6. stock' = stock
    BY <1>2, <1>3, <2>2, <2>4, ZeroRows
  <2>7. ledger' = ledger
    BY <1>2, <1>3, <2>2, <2>4, ZeroRows
  <2> QED
    BY <2>5, <2>6, <2>7
<1>12. Kitchen(o)
  <2>1. CASE c.kind = "issue"
    <3>1. Releases(c) /\ Settles(c, status[o]) /\ status[o] # "CANCELLED" /\ to = "CANCELLED"
      BY <1>4, <2>1 DEF Releases, Settles, MoveAllowed, to
    <3>2. status[o] \in Statuses \ {"CANCELLED"}
      BY <1>4, <1>6, <3>1 DEF IInv, TypeOK
    <3>3. CancelByIssue(o)
      BY <1>1, <1>9, <3>1, <3>2 DEF CancelByIssue, MoveTo
    <3> QED
      BY <3>3 DEF Kitchen
  <2>2. CASE c.kind # "issue"
    <3>1. c.kind = "kitchen" /\ to = c.to /\ <<status[o], to>> \in VALID_TRANSITIONS \cup UNDO_TRANSITIONS
      BY <1>1, <1>4, <2>2 DEF OnOrder, MoveAllowed, to
    <3>2. /\ Releases(c) <=> to = "CANCELLED"
          /\ Settles(c, status[o]) <=> to = "CANCELLED" \/ (status[o] = "NEW" /\ to = "IN_PREP")
      BY <3>1 DEF Releases, Settles, Consumes
    <3>3. CASE to = "CANCELLED"
      <4>1. status[o] \in {"NEW", "IN_PREP"}
        BY <3>1, <3>3 DEF VALID_TRANSITIONS, UNDO_TRANSITIONS
      <4>2. Cancel(o)
        BY <1>1, <1>9, <3>2, <3>3, <4>1 DEF Cancel, MoveTo
      <4> QED
        BY <4>2 DEF Kitchen
    <3>4. CASE status[o] = "NEW" /\ to = "IN_PREP"
      BY <1>1, <1>10, <3>2, <3>4 DEF StartPrep, MoveTo, Kitchen
    <3>5. CASE to # "CANCELLED" /\ ~(status[o] = "NEW" /\ to = "IN_PREP")
      <4>1. UNCHANGED <<line, stock, ledger>>
        BY <1>11, <3>2, <3>5
      <4>2. <<status[o], to>> \in {<<"IN_PREP", "READY">>, <<"READY", "DELIVERED">>,
                                   <<"IN_PREP", "NEW">>, <<"READY", "IN_PREP">>}
        BY <3>1, <3>5 DEF VALID_TRANSITIONS, UNDO_TRANSITIONS
      <4> QED
        BY <1>1, <4>1, <4>2 DEF MarkReady, Deliver, UndoStart, UndoReady, MoveTo, Kitchen
    <3> QED
      BY <3>3, <3>4, <3>5
  <2> QED
    BY <2>1, <2>2
<1>13. Next
  BY <1>4, <1>12 DEF Next
<1>14. TxInv'
  <2>1. IInv'
    BY <1>6, <1>13, NextKeeps
  <2>2. /\ BookedOnce' /\ ChangesAreAChain' /\ changes' \in [Shelves -> Seq(Change)]
        /\ booked' \in [BookKeys -> Nat] /\ ladder' \in [Shelves -> Ladders \cup {NoLadder}]
    BY <1>1 DEF TxInv, TxTypeOK, BookedOnce, ChangesAreAChain
  <2>3. \A k \in Shelves \ Got(r) : stock'[k] = stock[k] /\ ladder'[k] = ladder[k]
    BY <1>1, <1>2
  <2>4. to # "ABSENT"
    <3>1. c.kind = "kitchen" => c.to \in Statuses
      BY <1>3, FieldsOfCalls
    <3> QED
      BY <1>1, <3>1 DEF Statuses, OnOrder, to
  <2>5. \A p \in Orders : /\ p # o => status'[p] = status[p]
                          /\ status'[o] = to
                          /\ p # o => \A l \in OrderLines(p) : line'[l] = line[l]
    BY <1>1, <1>4 DEF TxInv, IInv, TypeOK, OrderLines
  <2>6. \A p \in Orders : status[p] # "ABSENT" => status'[p] # "ABSENT" /\ storeOf'[p] = storeOf[p]
    BY <1>1, <2>4, <2>5
  <2>7. \A p \in Orders : orderHolder[p] \in Requests \ {r} =>
            status'[p] = status[p] /\ \A l \in OrderLines(p) : line'[l] = line[l]
    BY <1>4, <2>5
  <2> QED
    BY <1>1, <2>1, <2>2, <2>3, <2>6, <2>7, FinishKeeps
<1> QED
  BY <1>13, <1>14

-----------------------------------------------------------------------------
(* Every step, and the theorems *)

LEMMA TxInitIsGood == TxInit => TxInv
<1> SUFFICES ASSUME TxInit PROVE TxInv
  OBVIOUS
<1>1. IInv
  BY InitIsGood DEF TxInit
<1>2. /\ call = [r \in Requests |-> NoCall] /\ pc = [r \in Requests |-> "idle"]
      /\ want = [r \in Requests |-> {}] /\ seen = [r \in Requests |-> NoRows]
      /\ pending = [r \in Requests |-> NoPending] /\ rowHolder = [k \in Shelves |-> NoRequest]
      /\ orderHolder = [o \in Orders |-> NoRequest] /\ booked = [b \in BookKeys |-> 0]
      /\ begun = 0 /\ ladder = [k \in Shelves |-> NoLadder]
      /\ seenLadder = [r \in Requests |-> NoLadder] /\ changes = [k \in Shelves |-> <<>>]
  BY DEF TxInit
<1>3. \A r \in Requests : Got(r) = {} /\ Held(r) = {} /\ \A o \in Orders : orderHolder[o] # r
  BY <1>2, NoRequestIsNone DEF Got, Held, NoRows
<1>4. TxTypeOK
  <2>1. pending \in [Requests -> [Lines -> 0..Capacity]]
    BY <1>2, CapacityIsNat DEF NoPending
  <2>2. begun \in 0..MaxCalls
    BY <1>2, MaxCallsIsNat
  <2> QED
    BY <1>2, <1>3, <2>1, <2>2 DEF TxTypeOK
<1>5. ASSUME NEW r \in Requests PROVE RequestIsSound(r)
  <2>1. CallIsSound(r)
    BY <1>2, <1>3 DEF CallIsSound, OnOrder, NoCall
  <2>2. RowsAreSound(r)
    BY <1>2, <1>3 DEF RowsAreSound
  <2>3. OrderIsSound(r)
    BY <1>2, <1>3 DEF OrderIsSound
  <2>4. LadderIsFresh(r)
    BY <1>3 DEF LadderIsFresh
  <2> QED
    BY <2>1, <2>2, <2>3, <2>4 DEF RequestIsSound
<1>6. BookedOnce
  BY <1>2 DEF BookedOnce
<1>7. ChangesAreAChain /\ changes \in [Shelves -> Seq(Change)]
  BY <1>2 DEF ChangesAreAChain
<1>8. DOMAIN seen = Requests
  BY <1>2
<1> QED
  BY <1>1, <1>4, <1>5, <1>6, <1>7, <1>8 DEF TxInv

LEMMA TxNextKeeps ==
    ASSUME TxInv, [TxNext]_txVars
    PROVE  TxInv' /\ [Next]_vars
<1>1. ASSUME NEW r \in Requests, Begin(r) PROVE TxInv' /\ [Next]_vars
  BY <1>1, BeginsKeep
<1>2. ASSUME NEW r \in Requests, EnsureDestination(r) PROVE TxInv' /\ [Next]_vars
  BY <1>2, EnsureDestinationKeeps
<1>3. ASSUME NEW r \in Requests, LockOrder(r) PROVE TxInv' /\ [Next]_vars
  BY <1>3, LockOrderKeeps
<1>4. ASSUME NEW r \in Requests, LockRow(r) PROVE TxInv' /\ [Next]_vars
  BY <1>4, LockRowKeeps
<1>5. ASSUME NEW r \in Requests, Rollback(r) PROVE TxInv' /\ [Next]_vars
  BY <1>5, RollbackKeeps
<1>6. ASSUME NEW r \in Requests, Commit(r) PROVE TxInv' /\ [Next]_vars
  BY <1>6, CommitCheckoutKeeps, CommitMoveKeeps, CommitMovementKeeps, CommitCountKeeps,
     CommitTransferKeeps, CommitThresholdKeeps DEF Commit
<1>7. CASE UNCHANGED txVars
  <2>1. UNCHANGED <<status, storeOf, line, stocked, stock, ledger, booked, ladder, changes>>
    BY <1>7 DEF txVars, tables, alerts
  <2>2. UNCHANGED <<rowHolder, orderHolder, call, pc, want, seen, pending, seenLadder, begun>>
    BY <1>7 DEF txVars, locks, locals
  <2>3. /\ UNCHANGED vars /\ IInv' /\ BookedOnce' /\ ChangesAreAChain'
        /\ changes' \in [Shelves -> Seq(Change)]
    BY <2>1, TablesStay
  <2>4. \A q \in Requests : RequestIsSound(q)'
    BY <2>1, <2>2, OthersKeep
  <2>5. TxTypeOK'
    BY <2>1, <2>2 DEF TxInv, TxTypeOK, Got, Held
  <2> QED
    BY <2>2, <2>3, <2>4, <2>5 DEF TxInv
<1> QED
  BY <1>1, <1>2, <1>3, <1>4, <1>5, <1>6, <1>7 DEF TxNext

\* Whatever number of calls overlap: what each one has read, locked and still wants is
\* what the tables say, and the tables are in order.
THEOREM TransactionsAreInOrder == TxSpec => []TxInv
<1>1. TxInv /\ [TxNext]_txVars => TxInv'
  BY TxNextKeeps
<1> QED
  BY <1>1, TxInitIsGood, PTL DEF TxSpec

\* Any interleaving of locks, waits, commits and rollbacks is a run of one-step calls:
\* the transactions implement the specification of the calls, step by step.
THEOREM TransactionsAreCalls == TxSpec => CallsAreAtomic
<1>1. TxInit => Init
  BY DEF TxInit
<1>2. TxInv /\ [TxNext]_txVars => [Next]_vars
  BY TxNextKeeps
<1> QED
  BY <1>1, <1>2, TransactionsAreInOrder, PTL DEF TxSpec, CallsAreAtomic, Spec

\* No update is lost between a read and its write, a reused key books once and every
\* change of thresholds can be followed back.
THEOREM CommitsStaySound == TxSpec => []CommitsAreSound
<1>1. TxInv => CommitsAreSound
  <2> SUFFICES ASSUME TxInv PROVE CommitsAreSound
    OBVIOUS
  <2>1. ASSUME NEW r \in Requests, NEW k \in Got(r) PROVE seen[r][k] = stock[k]
    BY DEF TxInv, RequestIsSound, RowsAreSound
  <2>2. ASSUME NEW r \in Requests, NEW l \in Lines, pending[r][l] > 0
        PROVE  pending[r][l] = Outstanding(l)
    <3>1. OrderIsSound(r)
      BY DEF TxInv, RequestIsSound
    <3> QED
      BY <2>2, <3>1 DEF OrderIsSound, NoPending
  <2> QED
    BY <2>1, <2>2 DEF TxInv, CommitsAreSound, ReadsStayFresh
<1> QED
  BY <1>1, TransactionsAreInOrder, PTL

\* So the promises of the stock room hold under every interleaving too: no reservation
\* leaks, no branch promises more than it has, the ledger explains the stock, the lines
\* follow the order's status and an accepted order can be cooked.
THEOREM PromisesSurviveConcurrency ==
    TxSpec => [](/\ ReservationsMatchLines /\ NeverOverPromised /\ StockMatchesLedger
                 /\ LinesFollowStatus /\ AcceptedOrderCanBeCooked)
BY TransactionsAreCalls, ReservationsNeverLeak, NeverOversold, LedgerExplainsStock,
   LinesAlwaysFollowStatus, AcceptedOrdersStayCookable, PTL DEF CallsAreAtomic

-----------------------------------------------------------------------------
(* Waiting. The lock order is total on the shelves, so of all the rows that a circle *)
(* of requests waits for one comes last, and who holds that row waits for a later one. *)

LEMMA ShelvesAreOrdered ==
    /\ \A k \in Shelves : ~Before(k, k)
    /\ \A k, m \in Shelves : k # m => Before(k, m) \/ Before(m, k)
    /\ \A k, m \in Shelves : ~(Before(k, m) /\ Before(m, k))
    /\ \A k, m, n \in Shelves : Before(k, m) /\ Before(m, n) => Before(k, n)
<1>1. ASSUME NEW k \in Shelves PROVE k[1] \in Nat /\ k[2] \in Nat
  <2>1. k[1] \in Stores /\ k[2] \in Ingredients
    BY DEF Shelves
  <2> QED
    BY <2>1, OrderedIds
<1>2. ASSUME NEW k \in Shelves PROVE k = <<k[1], k[2]>>
  BY DEF Shelves
<1>3. \A k \in Shelves : ~Before(k, k)
  BY <1>1 DEF Before
<1>4. \A k, m \in Shelves : k # m => Before(k, m) \/ Before(m, k)
  <2> SUFFICES ASSUME NEW k \in Shelves, NEW m \in Shelves, k # m PROVE Before(k, m) \/ Before(m, k)
    OBVIOUS
  <2>1. k[1] # m[1] \/ k[2] # m[2]
    BY <1>2
  <2> QED
    BY <1>1, <2>1 DEF Before
<1>5. \A k, m \in Shelves : ~(Before(k, m) /\ Before(m, k))
  BY <1>1 DEF Before
<1>6. \A k, m, n \in Shelves : Before(k, m) /\ Before(m, n) => Before(k, n)
  BY <1>1 DEF Before
<1> QED
  BY <1>3, <1>4, <1>5, <1>6

LEMMA LastShelf ==
    ASSUME NEW S, IsFiniteSet(S), S \subseteq Shelves, S # {}
    PROVE  \E k \in S : \A m \in S : ~Before(k, m)
<1> DEFINE Good == {T \in SUBSET S : T # {} => \E k \in T : \A m \in T : ~Before(k, m)}
<1>1. {} \in Good
  OBVIOUS
<1>2. ASSUME NEW T \in SUBSET S, NEW x \in S \ T, T \in Good PROVE T \cup {x} \in Good
  <2>1. CASE T = {}
    BY <2>1, ShelvesAreOrdered
  <2>2. CASE T # {}
    <3>1. PICK k \in T : \A m \in T : ~Before(k, m)
      BY <1>2, <2>2
    <3>2. CASE Before(k, x)
      <4>1. \A m \in T \cup {x} : ~Before(x, m)
        BY <3>1, <3>2, ShelvesAreOrdered
      <4> QED
        BY <4>1
    <3>3. CASE ~Before(k, x)
      BY <3>1, <3>3
    <3> QED
      BY <3>2, <3>3
  <2> QED
    BY <2>1, <2>2
<1> HIDE DEF Good
<1>3. S \in Good
  BY <1>1, <1>2, FiniteInduction
<1> QED
  BY <1>3 DEF Good

\* Who makes another one wait has begun to lock.
LEMMA BlockersAreLocking ==
    ASSUME TxInv, NEW q \in Requests, NEW r \in Requests, Blocks(q, r)
    PROVE  pc[q] = "locking"
<1>1. CallIsSound(q) /\ call[r] \in AnyCall /\ want[r] \subseteq Shelves
  BY TypesOfRequests DEF TxInv, RequestIsSound
<1>2. CASE pc[r] = "locking" /\ want[r] # {} /\ rowHolder[NextRow(r)] = q
  <2>1. NextRow(r) \in Held(q)
    BY <1>1, <1>2, NextRowIsFirst DEF Held
  <2> QED
    BY <1>1, <2>1 DEF CallIsSound
<1>3. CASE OnOrder(call[r]) /\ orderHolder[call[r].order] = q
  BY <1>1, <1>3, FieldsOfCalls DEF CallIsSound
<1>4. CASE call[r].kind = "transfer" /\ rowHolder[<<call[r].to, call[r].ing>>] = q
  <2>1. <<call[r].to, call[r].ing>> \in Held(q)
    BY <1>1, <1>4, FieldsOfCalls DEF Held
  <2> QED
    BY <1>1, <2>1 DEF CallIsSound
<1> QED
  BY <1>2, <1>3, <1>4 DEF Blocks

\* Who waits for a stock row waits for the row of a request that has read it, and that
\* wants only later ones.
LEMMA WaitsGoUp ==
    ASSUME TxInv, NEW q \in Requests, NEW r \in Requests, Blocks(q, r), pc[r] = "locking",
           want[q] # {}
    PROVE  /\ NextRow(r) \in Shelves /\ NextRow(q) \in Shelves
           /\ Before(NextRow(r), NextRow(q))
<1> DEFINE k == NextRow(r)
           c == call[r]
<1>1. want[r] # {} /\ rowHolder[k] = q /\ q # r
  BY DEF Blocks
<1>2. /\ RowsAreSound(r) /\ RowsAreSound(q) /\ c \in AnyCall
      /\ want[r] \subseteq Shelves /\ want[q] \subseteq Shelves
  BY TypesOfRequests DEF TxInv, RequestIsSound
<1>3. k \in want[r] /\ NextRow(q) \in want[q]
  BY <1>1, <1>2, NextRowIsFirst
<1> HIDE DEF k
<1>4. k \in stocked
  <2>1. MayLock(r, k)
    BY <1>2, <1>3 DEF RowsAreSound
  <2>2. CASE c.kind = "transfer"
    <3>1. LET there == <<c.to, c.ing>> IN there \in stocked \/ rowHolder[there] = r
      BY <1>2, <2>2 DEF RowsAreSound
    <3> QED
      BY <1>1, <2>1, <2>2, <3>1 DEF MayLock
  <2>3. CASE c.kind # "transfer"
    BY <2>1, <2>3 DEF MayLock
  <2> QED
    BY <2>2, <2>3
<1>5. k \in Got(q)
  BY <1>1, <1>2, <1>3, <1>4 DEF RowsAreSound, Held
<1> QED
  BY <1>2, <1>3, <1>5 DEF RowsAreSound, k

LEMMA NoCircle == TxInv => NoWaitCycle
<1> SUFFICES ASSUME TxInv, NEW R \in (SUBSET Requests) \ {{}},
                    \A r \in R : \E q \in R : Blocks(q, r)
             PROVE  FALSE
  BY DEF NoWaitCycle
<1> DEFINE L == {r \in R : pc[r] = "locking"}
           W == {NextRow(r) : r \in L}
<1>1. \A r \in R : \E q \in L : Blocks(q, r)
  BY BlockersAreLocking
<1>2. \A r \in L : want[r] # {}
  BY <1>1 DEF Blocks
<1>3. ASSUME NEW r \in L PROVE \E q \in L : Before(NextRow(r), NextRow(q)) /\ NextRow(r) \in Shelves
  <2>1. PICK q \in L : Blocks(q, r)
    BY <1>1
  <2> QED
    BY <1>2, <2>1, WaitsGoUp
<1>4. W \subseteq Shelves /\ W # {}
  BY <1>1, <1>3
<1>5. IsFiniteSet(W)
  <2>1. IsFiniteSet(L)
    BY FiniteRequests, FS_Subset
  <2> DEFINE F == [r \in L |-> NextRow(r)]
  <2>2. F \in Surjection(L, W)
    <3> HIDE DEF L
    <3>1. F \in [L -> W] /\ \A k \in W : \E r \in L : F[r] = k
      OBVIOUS
    <3> QED
      BY <3>1 DEF Surjection
  <2> HIDE DEF L, W, F
  <2> QED
    BY <2>1, <2>2, FS_Surjection
<1>6. PICK k \in W : \A m \in W : ~Before(k, m)
  <2> HIDE DEF W
  <2> QED
    BY <1>4, <1>5, LastShelf
<1> QED
  BY <1>3, <1>6

\* Requests never wait for each other in a circle, however many orders, kitchen moves,
\* stock-room commands and transfers overlap: the database never has to break a deadlock.
THEOREM NobodyWaitsInACircle == TxSpec => []NoWaitCycle
BY NoCircle, TransactionsAreInOrder, PTL

=============================================================================
