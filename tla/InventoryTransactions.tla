----------------------- MODULE InventoryTransactions -----------------------
(***************************************************************************)
(* The calls of OrderInventory as the database transactions they are:      *)
(* several requests at once, row locks taken one at a time, rows read when *)
(* they are locked and written back, as absolute figures, at the commit.   *)
(*                                                                         *)
(*   inventory_service.py  lock_stock_rows, _lock_transfer_stock,          *)
(*                         _ensure_destination_stock_row, the idempotency  *)
(*                         checks before and under the lock,               *)
(*                         update_thresholds                               *)
(*   kitchen_service.py    update_order_status (order row, lines, rows)    *)
(*   order_service.py      create_order                                    *)
(*   order_issue_service   resolve_issue (full refund)                     *)
(*                                                                         *)
(* PostgreSQL, READ COMMITTED: a locking SELECT sees the rows committed    *)
(* when the statement starts, waits for each row in turn and returns the   *)
(* version committed when it gets it. A refusal, an exception and a        *)
(* dropped connection are the same thing here: a rollback.                 *)
(*                                                                         *)
(* The committed tables keep the names they have in OrderInventory, whose  *)
(* Spec this specification implements.                                     *)
(***************************************************************************)
EXTENDS OrderInventory, Sequences

CONSTANTS
    Requests,     \* the calls that may be in flight at once
    Keys,         \* Idempotency-Key headers of the stock-room commands
    MaxCalls,     \* bound on the calls a behaviour begins
    Ladders,      \* coherent (critical, minimum, target) thresholds of a shelf
    NoLadder,     \* the thresholds of a shelf nobody configured
    NoRequest

ASSUME OrderedIds == Stores \subseteq Nat /\ Ingredients \subseteq Nat
ASSUME MaxCallsIsNat == MaxCalls \in Nat
ASSUME FiniteRequests == IsFiniteSet(Requests)
ASSUME NoRequestIsNone == NoRequest \notin Requests /\ NoLadder \notin Ladders

VARIABLES
    call,         \* what each request asks for
    pc,           \* "idle", "opened", "locking"
    want,         \* the stock rows its locking SELECT still has to lock
    seen,         \* stock_rows: the rows the SELECT returned so far, as read
    pending,      \* the outstanding quantity of the order's lines, as read
    rowHolder,    \* who holds each stock row's lock
    orderHolder,  \* who holds each order's lock
    booked,       \* rows that carry a given idempotency key
    begun,        \* calls begun so far
    ladder,       \* the thresholds in force on each shelf
    seenLadder,   \* the thresholds a call read with the row it locked
    changes       \* inventory_threshold_updates of each shelf, oldest first

tables == <<status, storeOf, line, stocked, stock, ledger>>
locks  == <<rowHolder, orderHolder>>
locals == <<call, pc, want, seen, pending, seenLadder>>
alerts == <<ladder, changes>>
txVars == <<tables, locks, locals, booked, begun, alerts>>

\* Four tables with a unique index of their own on (store, key).
KeyTables == {"movement", "count", "transfer", "threshold"}
BookKeys  == KeyTables \X Stores \X Keys

Checkouts == [kind : {"checkout"}, store : Stores, need : [Items \X Ingredients -> Needs]]
Moves     == [kind : {"kitchen"}, order : Orders, to : Statuses]
Refunds   == [kind : {"issue"}, order : Orders]
Movements == [kind : {"movement"}, store : Stores, ing : Ingredients, key : Keys,
              delta : Quantities \cup {-q : q \in Quantities}]
Counts    == [kind : {"count"}, store : Stores, ing : Ingredients, key : Keys,
              counted : Quantities]
Transfers == [kind : {"transfer"}, store : Stores, to : Stores, ing : Ingredients, key : Keys,
              qty : Quantities]
Thresholds == [kind : {"threshold"}, store : Stores, ing : Ingredients, key : Keys,
               ladder : Ladders]

OnOrder(c)    == c.kind \in {"kitchen", "issue"}
BookKey(c)    == <<c.kind, c.store, c.key>>
KeyIsNew(c)   == booked[BookKey(c)] = 0

NoRows     == [k \in {} |-> [onHand |-> 0, reserved |-> 0]]
NoPending  == [l \in Lines |-> 0]
NoCall     == [kind |-> "none"]

Got(r)  == DOMAIN seen[r]
Held(r) == {k \in Shelves : rowHolder[k] = r}

-----------------------------------------------------------------------------
(* Locks *)

\* Stock rows are locked in ascending (store, ingredient) order, whoever asks.
Before(k, m) == k[1] < m[1] \/ (k[1] = m[1] /\ k[2] < m[2])
\* Mutant: rows in the order the caller lists them; a cart may list them backwards
\* and a transfer lists its own branch first.
NextRowAsListed(r) ==
    CHOOSE k \in want[r] :
        \A m \in want[r] \ {k} :
            CASE call[r].kind = "checkout" -> Before(m, k)
              [] call[r].kind = "transfer" -> k[1] = call[r].store
              [] OTHER -> Before(k, m)

NextRow(r) == CHOOSE k \in want[r] : \A m \in want[r] \ {k} : Before(k, m)

\* Only a change of thresholds uses the ones it reads.
ReadLadder(r, k) == IF call[r].kind = "threshold" THEN ladder[k] ELSE NoLadder

\* Mutant: the rows are read without FOR UPDATE.
ReadRowUnlocked(r) ==
    /\ pc[r] = "locking"
    /\ want[r] # {}
    /\ LET k == NextRow(r) IN
        /\ seen' = [seen EXCEPT ![r] =
                       [m \in Got(r) \cup {k} |-> IF m = k THEN stock[k] ELSE seen[r][m]]]
        /\ seenLadder' = [seenLadder EXCEPT ![r] = ReadLadder(r, k)]
        /\ want' = [want EXCEPT ![r] = @ \ {k}]
    /\ UNCHANGED <<tables, locks, call, pc, pending, booked, begun, alerts>>

LockRow(r) ==
    /\ pc[r] = "locking"
    /\ want[r] # {}
    /\ LET k == NextRow(r) IN
        /\ rowHolder[k] \in {NoRequest, r}
        /\ rowHolder' = [rowHolder EXCEPT ![k] = r]
        /\ seen' = [seen EXCEPT ![r] =
                       [m \in Got(r) \cup {k} |-> IF m = k THEN stock[k] ELSE seen[r][m]]]
        /\ seenLadder' = [seenLadder EXCEPT ![r] = ReadLadder(r, k)]
        /\ want' = [want EXCEPT ![r] = @ \ {k}]
    /\ UNCHANGED <<tables, orderHolder, call, pc, pending, booked, begun, alerts>>

\* The end of a transaction gives every lock back.
Finish(r) ==
    /\ pc' = [pc EXCEPT ![r] = "idle"]
    /\ call' = [call EXCEPT ![r] = NoCall]
    /\ want' = [want EXCEPT ![r] = {}]
    /\ seen' = [seen EXCEPT ![r] = NoRows]
    /\ seenLadder' = [seenLadder EXCEPT ![r] = NoLadder]
    /\ pending' = [pending EXCEPT ![r] = NoPending]
    /\ rowHolder' = [k \in Shelves |-> IF rowHolder[k] = r THEN NoRequest ELSE rowHolder[k]]
    /\ orderHolder' = [o \in Orders |-> IF orderHolder[o] = r THEN NoRequest ELSE orderHolder[o]]
    /\ UNCHANGED begun

Rollback(r) ==
    /\ pc[r] # "idle"
    /\ Finish(r)
    /\ UNCHANGED <<tables, booked, alerts>>

-----------------------------------------------------------------------------
(* The first statements of a call *)

\* The stock rows a call needs and that its SELECT finds.
NeedOf(c, o) == [l \in OrderLines(o) |-> c.need[<<l[2], l[3]>>]]

RowsOf(c) ==
    CASE c.kind = "checkout" -> {k \in stocked : k[1] = c.store
                                    /\ \E t \in Items : c.need[<<t, k[2]>>] > 0}
      [] c.kind \in {"movement", "count", "threshold"} -> stocked \cap {<<c.store, c.ing>>}
      [] c.kind = "transfer" -> stocked \cap {<<c.store, c.ing>>, <<c.to, c.ing>>}

VALID_TRANSITIONS ==
    {<<"NEW", "IN_PREP">>, <<"NEW", "CANCELLED">>, <<"IN_PREP", "READY">>,
     <<"IN_PREP", "CANCELLED">>, <<"READY", "DELIVERED">>}
UNDO_TRANSITIONS == {<<"IN_PREP", "NEW">>, <<"READY", "IN_PREP">>}

\* A full refund cancels the order wherever it stands.
MoveAllowed(c, from) ==
    \/ c.kind = "kitchen" /\ <<from, c.to>> \in VALID_TRANSITIONS \cup UNDO_TRANSITIONS
    \/ c.kind = "issue" /\ from # "CANCELLED"

Consumes(c, from) == c.kind = "kitchen" /\ from = "NEW" /\ c.to = "IN_PREP"
Releases(c)       == c.kind = "issue" \/ c.to = "CANCELLED"

Start(r, c) ==
    /\ pc[r] = "idle"
    /\ call' = [call EXCEPT ![r] = c]
    /\ begun < MaxCalls
    /\ begun' = begun + 1
    /\ UNCHANGED <<tables, locks, seen, pending, booked, seenLadder, alerts>>

\* An order: its menu is checked and its rows are selected.
BeginCheckout(r, c) ==
    /\ \E x \in DOMAIN c.need : c.need[x] > 0
    /\ Start(r, c)
    /\ pc' = [pc EXCEPT ![r] = "locking"]
    /\ want' = [want EXCEPT ![r] = RowsOf(c)]

\* A stock-room command whose key is already booked is answered from the booking.
BeginOnShelf(r, c) ==
    /\ KeyIsNew(c)
    /\ Start(r, c)
    /\ pc' = [pc EXCEPT ![r] = "locking"]
    /\ want' = [want EXCEPT ![r] = RowsOf(c)]

BeginTransfer(r, c) ==
    /\ c.store # c.to
    /\ KeyIsNew(c)
    /\ Start(r, c)
    /\ pc' = [pc EXCEPT ![r] = "opened"]
    /\ UNCHANGED want

\* The board offers only the moves of the status it shows, which may be stale by the
\* time the order's row is locked.
BeginOnOrder(r, c) ==
    /\ status[c.order] # "ABSENT"
    /\ MoveAllowed(c, status[c.order])
    /\ Start(r, c)
    /\ pc' = [pc EXCEPT ![r] = "opened"]
    /\ UNCHANGED want

\* INSERT ... ON CONFLICT DO NOTHING: waits for a concurrent insert of the same row,
\* owns the row it inserts, and then both branches' rows are selected.
EnsureDestination(r) ==
    LET c == call[r]
        there == <<c.to, c.ing>> IN
    /\ pc[r] = "opened" /\ c.kind = "transfer"
    /\ \/ there \in stocked /\ UNCHANGED rowHolder
       \/ /\ there \notin stocked
          /\ rowHolder[there] = NoRequest
          /\ rowHolder' = [rowHolder EXCEPT ![there] = r]
    /\ pc' = [pc EXCEPT ![r] = "locking"]
    /\ want' = [want EXCEPT ![r] = RowsOf(c) \cup {there}]
    /\ UNCHANGED <<tables, orderHolder, call, seen, pending, booked, begun, seenLadder, alerts>>

\* The order row, its status, then its lines: what they still have outstanding names
\* the stock rows the call goes on to lock.
LockOrder(r) ==
    LET c == call[r]
        o == c.order IN
    /\ pc[r] = "opened" /\ OnOrder(c)
    /\ orderHolder[o] = NoRequest
    /\ MoveAllowed(c, status[o])
    /\ orderHolder' = [orderHolder EXCEPT ![o] = r]
    /\ LET settles == Consumes(c, status[o]) \/ Releases(c)
           due == {l \in OrderLines(o) : settles /\ Outstanding(l) > 0} IN
        /\ pending' = [pending EXCEPT ![r] =
                          [l \in Lines |-> IF l \in due THEN Outstanding(l) ELSE 0]]
        /\ want' = [want EXCEPT ![r] = stocked \cap {<<storeOf[o], l[3]>> : l \in due}]
    /\ pc' = [pc EXCEPT ![r] = "locking"]
    /\ UNCHANGED <<tables, rowHolder, call, seen, booked, begun, seenLadder, alerts>>

-----------------------------------------------------------------------------
(* Commits *)

Ready(r, kind) == pc[r] = "locking" /\ want[r] = {} /\ call[r].kind = kind

SeenAvailable(r, k) == seen[r][k].onHand - seen[r][k].reserved


\* create_order: the availability gate reads the locked rows only.
CommitCheckout(r, o) ==
    LET c == call[r]
        need == NeedOf(c, o) IN
    /\ Ready(r, "checkout")
    /\ status[o] = "ABSENT"
    /\ \A i \in Ingredients :
          LET k == <<c.store, i>> IN
          Required(need, o, i) > 0 =>
              k \in Got(r) /\ SeenAvailable(r, k) >= Required(need, o, i)
    /\ status' = [status EXCEPT ![o] = "NEW"]
    /\ storeOf' = [storeOf EXCEPT ![o] = c.store]
    /\ line' = [l \in Lines |-> IF l[1] = o THEN NewLine(need[l]) ELSE line[l]]
    /\ stock' = [k \in Shelves |->
                    IF k \in Got(r)
                    THEN ReservedRow(seen[r][k], Required(need, o, k[2])) ELSE stock[k]]
    /\ ledger' = [k \in Shelves |->
                    IF k \in Got(r)
                    THEN PostReserved(ledger[k], Required(need, o, k[2])) ELSE ledger[k]]
    /\ Finish(r)
    /\ UNCHANGED <<stocked, booked, alerts>>

\* update_order_status and resolve_issue write the status they decided on and settle
\* what they read of the lines.
Due(r, k) == Total(pending[r], LinesOf(call[r].order, k[2]))

SettleLine(r, l) ==
    IF Releases(call[r]) THEN [line[l] EXCEPT !.released = @ + pending[r][l]]
                         ELSE [line[l] EXCEPT !.consumed = @ + pending[r][l]]

CommitMove(r) ==
    LET c == call[r]
        o == c.order
        to == IF c.kind = "issue" THEN "CANCELLED" ELSE c.to IN
    /\ Ready(r, "kitchen") \/ Ready(r, "issue")
    /\ \A l \in OrderLines(o) : pending[r][l] > 0 => <<storeOf[o], l[3]>> \in Got(r)
    /\ status' = [status EXCEPT ![o] = to]
    /\ line' = [l \in Lines |-> IF l[1] = o THEN SettleLine(r, l) ELSE line[l]]
    /\ stock' = [k \in Shelves |->
                    IF k \notin Got(r) THEN stock[k]
                    ELSE IF Releases(c) THEN ReleasedRow(seen[r][k], Due(r, k))
                                        ELSE ConsumedRow(seen[r][k], Due(r, k))]
    /\ ledger' = [k \in Shelves |->
                    IF k \notin Got(r) THEN ledger[k]
                    ELSE IF Releases(c) THEN PostReleased(ledger[k], Due(r, k))
                                        ELSE PostConsumed(ledger[k], Due(r, k))]
    /\ Finish(r)
    /\ UNCHANGED <<storeOf, stocked, booked, alerts>>

\* Mutant: neither the re-check nor a unique index.
BookAgain(c) == booked' = [booked EXCEPT ![BookKey(c)] = @ + 1]

\* The key is checked again under the lock, and the unique index on (store, key) is
\* the last word when two commands with one key hold different rows.
Book(c) ==
    /\ KeyIsNew(c)
    /\ booked' = [booked EXCEPT ![BookKey(c)] = @ + 1]

CommitMovement(r) ==
    LET c == call[r]
        k == <<c.store, c.ing>>
        left == seen[r][k].onHand + c.delta IN
    /\ Ready(r, "movement")
    /\ k \in Got(r)
    /\ Book(c)
    /\ c.delta # 0
    /\ left >= 0 /\ left >= seen[r][k].reserved /\ left <= Capacity
    /\ stock' = [stock EXCEPT ![k] = MovedRow(seen[r][k], c.delta)]
    /\ ledger' = [ledger EXCEPT ![k] = PostMoved(@, c.delta)]
    /\ Finish(r)
    /\ UNCHANGED <<status, storeOf, line, stocked, alerts>>

CommitCount(r) ==
    LET c == call[r]
        k == <<c.store, c.ing>>
        delta == c.counted - seen[r][k].onHand IN
    /\ Ready(r, "count")
    /\ k \in Got(r)
    /\ Book(c)
    /\ c.counted >= seen[r][k].reserved
    /\ stock' = [stock EXCEPT ![k] = MovedRow(seen[r][k], delta)]
    /\ ledger' = [ledger EXCEPT ![k] = PostMoved(@, delta)]
    /\ Finish(r)
    /\ UNCHANGED <<status, storeOf, line, stocked, alerts>>

CommitTransfer(r) ==
    LET c == call[r]
        here == <<c.store, c.ing>>
        there == <<c.to, c.ing>> IN
    /\ Ready(r, "transfer")
    /\ here \in Got(r) /\ there \in Got(r)
    /\ Book(c)
    /\ c.qty > 0
    /\ SeenAvailable(r, here) >= c.qty
    /\ seen[r][there].onHand + c.qty <= Capacity
    /\ stocked' = stocked \cup {there}
    /\ stock' = [stock EXCEPT ![here] = MovedRow(seen[r][here], -c.qty),
                              ![there] = MovedRow(seen[r][there], c.qty)]
    /\ ledger' = [ledger EXCEPT ![here] = PostMoved(@, -c.qty), ![there] = PostMoved(@, c.qty)]
    /\ Finish(r)
    /\ UNCHANGED <<status, storeOf, line, alerts>>

\* Thresholds are configuration: the row is locked and no figure of it is written.
CommitThreshold(r) ==
    LET c == call[r]
        k == <<c.store, c.ing>> IN
    /\ Ready(r, "threshold")
    /\ k \in Got(r)
    /\ Book(c)
    /\ ladder' = [ladder EXCEPT ![k] = c.ladder]
    /\ changes' = [changes EXCEPT ![k] = Append(@, [old |-> seenLadder[r], new |-> c.ladder])]
    /\ Finish(r)
    /\ UNCHANGED tables

-----------------------------------------------------------------------------
TxInit ==
    /\ Init
    /\ call = [r \in Requests |-> NoCall]
    /\ pc = [r \in Requests |-> "idle"]
    /\ want = [r \in Requests |-> {}]
    /\ seen = [r \in Requests |-> NoRows]
    /\ pending = [r \in Requests |-> NoPending]
    /\ rowHolder = [k \in Shelves |-> NoRequest]
    /\ orderHolder = [o \in Orders |-> NoRequest]
    /\ booked = [b \in BookKeys |-> 0]
    /\ begun = 0
    /\ ladder = [k \in Shelves |-> NoLadder]
    /\ seenLadder = [r \in Requests |-> NoLadder]
    /\ changes = [k \in Shelves |-> <<>>]

Begin(r) ==
    \/ \E c \in Checkouts : BeginCheckout(r, c)
    \/ \E c \in Moves \cup Refunds : BeginOnOrder(r, c)
    \/ \E c \in Movements \cup Counts \cup Thresholds : BeginOnShelf(r, c)
    \/ \E c \in Transfers : BeginTransfer(r, c)

Commit(r) ==
    \/ \E o \in Orders : CommitCheckout(r, o)
    \/ CommitMove(r)
    \/ CommitMovement(r)
    \/ CommitCount(r)
    \/ CommitTransfer(r)
    \/ CommitThreshold(r)

TxNext ==
    \E r \in Requests :
        \/ Begin(r)
        \/ EnsureDestination(r)
        \/ LockOrder(r)
        \/ LockRow(r)
        \/ Commit(r)
        \/ Rollback(r)

TxSpec == TxInit /\ [][TxNext]_txVars

-----------------------------------------------------------------------------
(* Properties *)

\* What requests, locks and keys may look like; the tables are OrderInventory's. A
\* lock never outlives its transaction.
TxTypeOK ==
    /\ pc \in [Requests -> {"idle", "opened", "locking"}]
    /\ call \in [Requests -> {NoCall} \cup Checkouts \cup Moves \cup Refunds \cup Movements
                              \cup Counts \cup Transfers \cup Thresholds]
    /\ want \in [Requests -> SUBSET Shelves]
    /\ \A r \in Requests : Got(r) \subseteq Shelves /\ \A k \in Got(r) : seen[r][k] \in StockRow
    /\ pending \in [Requests -> [Lines -> 0..Capacity]]
    /\ rowHolder \in [Shelves -> Requests \cup {NoRequest}]
    /\ orderHolder \in [Orders -> Requests \cup {NoRequest}]
    /\ booked \in [BookKeys -> Nat]
    /\ begun \in 0..MaxCalls
    /\ ladder \in [Shelves -> Ladders \cup {NoLadder}]
    /\ seenLadder \in [Requests -> Ladders \cup {NoLadder}]
    /\ \A r \in Requests :
          pc[r] = "idle" => Held(r) = {} /\ \A o \in Orders : orderHolder[o] # r

\* Whatever interleaving of locks, waits, commits and rollbacks: the committed tables
\* only ever change as the calls of OrderInventory change them, one call at a time.
CallsAreAtomic == Spec

\* What a call read under its locks is still what the tables say when it decides and
\* writes: no update is lost between the read of a figure and its write.
ReadsStayFresh ==
    /\ \A r \in Requests : \A k \in Got(r) : seen[r][k] = stock[k]
    /\ \A r \in Requests, l \in Lines :
          pending[r][l] > 0 => pending[r][l] = Outstanding(l)

\* A retried stock-room command never moves stock twice, even when the retry overlaps
\* the first attempt or names another shelf.
BookedOnce == \A b \in BookKeys : booked[b] <= 1

\* Whoever moved a threshold and when can be read back: every change names as old
\* what the one before it made, and the last one made what is in force, although
\* two managers may save at once (update_thresholds, inventory_threshold_updates).
ChangesAreAChain ==
    \A k \in Shelves :
        LET log == changes[k] IN
        /\ \A n \in DOMAIN log : log[n].old = IF n = 1 THEN NoLadder ELSE log[n - 1].new
        /\ ladder[k] = IF log = <<>> THEN NoLadder ELSE log[Len(log)].new

\* What the stock room relies on at every moment.
CommitsAreSound == TxTypeOK /\ ReadsStayFresh /\ BookedOnce /\ ChangesAreAChain

\* Requests never wait for each other in a circle: orders before stock rows, and
\* stock rows in one order for orders, the kitchen, the stock room and transfers in
\* both directions.
Blocks(q, r) ==
    \/ /\ pc[r] = "locking" /\ want[r] # {}
       /\ rowHolder[NextRow(r)] = q
       /\ q # r
    \/ pc[r] = "opened" /\ OnOrder(call[r]) /\ orderHolder[call[r].order] = q
    \/ /\ pc[r] = "opened" /\ call[r].kind = "transfer"
       /\ <<call[r].to, call[r].ing>> \notin stocked
       /\ rowHolder[<<call[r].to, call[r].ing>>] = q

NoWaitCycle ==
    \A R \in (SUBSET Requests) \ {{}} :
        \E r \in R : \A q \in R : ~Blocks(q, r)

=============================================================================
