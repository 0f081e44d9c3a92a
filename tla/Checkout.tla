------------------------------ MODULE Checkout ------------------------------
(***************************************************************************)
(* One guest order, from the tap on the phone to the answer: the browser's *)
(* stored attempt, a network that loses answers, and create_order handled  *)
(* by several workers at once.                                             *)
(*                                                                         *)
(*   apps/customer-web/src/lib/order-idempotency.ts                        *)
(*   apps/customer-web/src/components/CustomerMenuPageClient.tsx           *)
(*   apps/api/app/services/order_service.py      create_order              *)
(*                                                                         *)
(* Every cart takes one unit of the same scarce ingredient, so the row     *)
(* locks create_order takes (its QR token's and its stock rows') are one   *)
(* lock here; OrderInventory.tla has the quantities and                    *)
(* InventoryTransactions.tla the locks.                                    *)
(***************************************************************************)
EXTENDS Naturals, FiniteSets

CONSTANTS
    Guests,      \* browser tabs
    Carts,       \* payload fingerprints
    Requests,    \* POST /public/orders/ calls; the bound on how many are made
    MaxStock,    \* bound on the units of the scarce ingredient
    None,        \* no cart, no request, no answer
    Refused      \* the answer 422 out_of_stock

ASSUME FiniteRequests == IsFiniteSet(Requests)
ASSUME MaxStockIsNat  == MaxStock \in Nat
ASSUME NoneIsNothing  == None \notin Guests \cup Carts \cup Requests
ASSUME RefusedIsAlone == Refused \notin Requests \cup {None}

VARIABLES
    cart,        \* the guest's selection on the screen
    attempt,     \* sessionStorage: the pending attempt, its cart and key
    waiting,     \* submittingRef: the request the page waits for
    told,        \* the keys whose order the guest's success page has shown
    request,     \* what every request carries: guest, cart and key
    stage,       \* how far the server is with every request
    reply,       \* its answer: the order, a refusal, or nothing to rely on
    orders,      \* committed orders, named by the request that created them
    available,   \* on hand less reserved
    supplied,    \* all that ever became available
    holder       \* who holds the row locks

browser == <<cart, attempt, waiting, told>>
server  == <<request, stage, reply, orders, available, supplied, holder>>
vars    == <<browser, server>>

\* A key is named by the request that was the first to carry it.
Attempt   == [cart : Carts \cup {None}, key : Requests \cup {None}]
NoAttempt == [cart |-> None, key |-> None]

OrdersOf(key) == {o \in orders : request[o].key = key}

-----------------------------------------------------------------------------
(* The browser *)

\* The selection stays live while an answer is awaited.
Choose(g, c) ==
    /\ cart' = [cart EXCEPT ![g] = c]
    /\ UNCHANGED <<attempt, waiting, told, server>>

\* Mutant: the stored key is reused whatever it was minted for.
AnyStoredKey(g, r) == IF attempt[g] # NoAttempt THEN attempt[g].key ELSE r

\* getOrCreateKey: the stored key if the fingerprint is the stored one.
Key(g, r) == IF attempt[g].cart = cart[g] THEN attempt[g].key ELSE r

Submit(g, r) ==
    /\ waiting[g] = None
    /\ cart[g] # None
    /\ stage[r] = "unused"
    /\ attempt' = [attempt EXCEPT ![g] = [cart |-> cart[g], key |-> Key(g, r)]]
    /\ waiting' = [waiting EXCEPT ![g] = r]
    /\ request' = [request EXCEPT ![r] = [guest |-> g, cart |-> cart[g], key |-> Key(g, r)]]
    /\ stage' = [stage EXCEPT ![r] = "sent"]
    /\ UNCHANGED <<cart, told, reply, orders, available, supplied, holder>>

\* The order is confirmed: the attempt is retired and the cart emptied.
Confirm(g) ==
    LET r == waiting[g] IN
    /\ r # None /\ stage[r] = "answered" /\ reply[r] \in orders
    /\ attempt' = [attempt EXCEPT ![g] = NoAttempt]
    /\ cart' = [cart EXCEPT ![g] = None]
    /\ waiting' = [waiting EXCEPT ![g] = None]
    /\ told' = [told EXCEPT ![g] = @ \cup {request[r].key}]
    /\ UNCHANGED server

\* A refusal, a 5xx or no answer at all: the key and the cart stay. The server may
\* still be at work on the request.
Toast(g) ==
    /\ waiting[g] # None
    /\ waiting' = [waiting EXCEPT ![g] = None]
    /\ UNCHANGED <<cart, attempt, told, server>>

\* A refresh loses the selection, not the stored attempt.
Refresh(g) ==
    /\ cart' = [cart EXCEPT ![g] = None]
    /\ waiting' = [waiting EXCEPT ![g] = None]
    /\ UNCHANGED <<attempt, told, server>>

-----------------------------------------------------------------------------
(* The server: one transaction per request *)

Answer(r, a) ==
    /\ stage' = [stage EXCEPT ![r] = "answered"]
    /\ reply' = [reply EXCEPT ![r] = a]
    /\ holder' = IF holder = r THEN None ELSE holder

\* The key is looked up before any lock is taken.
FindByKey(r) ==
    /\ stage[r] = "sent"
    /\ IF OrdersOf(request[r].key) = {}
       THEN /\ stage' = [stage EXCEPT ![r] = "checked"]
            /\ UNCHANGED <<reply, holder>>
       ELSE \E o \in OrdersOf(request[r].key) : Answer(r, o)
    /\ UNCHANGED <<browser, request, orders, available, supplied>>

LockRows(r) ==
    /\ stage[r] = "checked"
    /\ holder = None
    /\ holder' = r
    /\ stage' = [stage EXCEPT ![r] = "locked"]
    /\ UNCHANGED <<browser, request, reply, orders, available, supplied>>

\* The availability gate comes before the insert that would meet the unique key.
RefuseShortage(r) ==
    /\ stage[r] = "locked"
    /\ available < 1
    /\ Answer(r, Refused)
    /\ UNCHANGED <<browser, request, orders, available, supplied>>

\* Mutant: no unique index on orders.idempotency_key.
InsertAnyway(r) ==
    /\ orders' = orders \cup {r}
    /\ available' = available - 1
    /\ Answer(r, r)

\* Mutant: the loser of the race has already committed its reservation.
InsertAfterReserving(r) ==
    /\ available' = available - 1
    /\ IF OrdersOf(request[r].key) = {}
       THEN orders' = orders \cup {r} /\ Answer(r, r)
       ELSE (\E o \in OrdersOf(request[r].key) : Answer(r, o)) /\ UNCHANGED orders

\* The unique key on orders.idempotency_key: the loser rolls back and is answered
\* with the winner's order.
Insert(r) ==
    IF OrdersOf(request[r].key) = {}
    THEN /\ orders' = orders \cup {r}
         /\ available' = available - 1
         /\ Answer(r, r)
    ELSE /\ \E o \in OrdersOf(request[r].key) : Answer(r, o)
         /\ UNCHANGED <<orders, available>>

PlaceOrder(r) ==
    /\ stage[r] = "locked"
    /\ available >= 1
    /\ Insert(r)
    /\ UNCHANGED <<browser, request, supplied>>

\* A worker dies or the connection does: rollback, and at best a 5xx.
Fail(r) ==
    /\ stage[r] \in {"sent", "checked", "locked"}
    /\ Answer(r, None)
    /\ UNCHANGED <<browser, request, orders, available, supplied>>

\* Goods received, a cancelled order of somebody else: stock comes back.
Restock ==
    /\ supplied < MaxStock
    /\ supplied' = supplied + 1
    /\ available' = available + 1
    /\ UNCHANGED <<browser, request, stage, reply, orders, holder>>

-----------------------------------------------------------------------------
Init ==
    /\ cart = [g \in Guests |-> None]
    /\ attempt = [g \in Guests |-> NoAttempt]
    /\ waiting = [g \in Guests |-> None]
    /\ told = [g \in Guests |-> {}]
    /\ request = [r \in Requests |-> [guest |-> None, cart |-> None, key |-> None]]
    /\ stage = [r \in Requests |-> "unused"]
    /\ reply = [r \in Requests |-> None]
    /\ orders = {}
    /\ supplied \in 0..MaxStock
    /\ available = supplied
    /\ holder = None

Guest(g) ==
    \/ \E c \in Carts : Choose(g, c)
    \/ \E r \in Requests : Submit(g, r)
    \/ Confirm(g)
    \/ Toast(g)
    \/ Refresh(g)

Worker(r) ==
    \/ FindByKey(r)
    \/ LockRows(r)
    \/ RefuseShortage(r)
    \/ PlaceOrder(r)
    \/ Fail(r)

Next ==
    \/ \E g \in Guests : Guest(g)
    \/ \E r \in Requests : Worker(r)
    \/ Restock

Spec == Init /\ [][Next]_vars

-----------------------------------------------------------------------------
(* Properties *)

\* What the browser stores, the requests carry and the server answers.
TypeOK ==
    /\ cart \in [Guests -> Carts \cup {None}]
    /\ attempt \in [Guests -> Attempt]
    /\ waiting \in [Guests -> Requests \cup {None}]
    /\ told \in [Guests -> SUBSET Requests]
    /\ request \in [Requests -> [guest : Guests \cup {None}, cart : Carts \cup {None},
                                 key : Requests \cup {None}]]
    /\ stage \in [Requests -> {"unused", "sent", "checked", "locked", "answered"}]
    /\ reply \in [Requests -> orders \cup {None, Refused}]
    /\ orders \subseteq Requests
    /\ available \in 0..MaxStock
    /\ supplied \in 0..MaxStock
    /\ holder \in Requests \cup {None}
    /\ \A r \in Requests : stage[r] = "locked" <=> holder = r

\* However often a guest taps, refreshes and retries, and however the retries overlap
\* on the server, one key makes one order.
OneOrderPerKey == \A r \in Requests : Cardinality(OrdersOf(r)) <= 1

\* Stock is reserved once per order: a retry that loses the race leaves nothing behind.
ReservedOncePerOrder == available + Cardinality(orders) = supplied

\* The order a guest is shown is an order of what that guest had on the screen when
\* the request was sent.
AnswersNameTheOrder ==
    \A r \in Requests : reply[r] \in orders =>
        /\ request[reply[r]].guest = request[r].guest
        /\ request[reply[r]].cart = request[r].cart

\* create_order's docstring: a concurrent retry that races past the key check is
\* resolved to the same order. So no request is refused while its order exists.
RetryGetsTheOrder ==
    [][\A r \in Requests :
          reply[r] # Refused /\ reply'[r] = Refused => OrdersOf(request[r].key) = {}]_vars

\* docs/CUSTOMER_ORDER_IDEMPOTENCY.md: all submissions of the same fingerprint share
\* one key. So no guest has two orders of one cart before one of them is confirmed.
OneOrderPerCart ==
    \A o, p \in orders :
        (/\ request[o].guest = request[p].guest
         /\ request[o].cart = request[p].cart
         /\ {request[o].key, request[p].key} \cap told[request[o].guest] = {}) => o = p

=============================================================================
