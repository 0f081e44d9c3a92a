--------------------------- MODULE CheckoutProofs ---------------------------
(***************************************************************************)
(* Proofs about Checkout, for every set of guests and carts and any finite *)
(* number of requests.                                                     *)
(***************************************************************************)
EXTENDS Checkout, FiniteSetTheorems, TLAPS

\* How far the server can be with a request.
Stages == {"unused", "sent", "checked", "locked", "answered"}

\* The request has been made.
Used(r) == stage[r] # "unused"

\* A key was minted by a request of the same guest for the same cart.
SameSubmission(r, key) ==
    /\ key \in Requests /\ Used(key)
    /\ request[key].guest = request[r].guest
    /\ request[key].cart = request[r].cart

\* Every key a request carries was minted for what the request carries.
KeysNameSubmissions == \A r \in Requests : Used(r) => SameSubmission(r, request[r].key)

\* So was the key of a stored attempt.
AttemptsNameSubmissions ==
    \A g \in Guests : attempt[g] # NoAttempt =>
        /\ attempt[g].key \in Requests /\ Used(attempt[g].key)
        /\ request[attempt[g].key].guest = g
        /\ request[attempt[g].key].cart = attempt[g].cart

\* orders.idempotency_key is unique.
KeysAreUnique == \A o, p \in orders : request[o].key = request[p].key => o = p

\* An order is committed by the step that answers its request.
OrdersAreAnswered == \A o \in orders : stage[o] = "answered"

\* The order of an answer has the key of the request.
RepliesShareTheKey ==
    \A r \in Requests : reply[r] \in orders =>
        stage[r] = "answered" /\ request[reply[r]].key = request[r].key

\* What every step of the system preserves.
IInv ==
    /\ TypeOK
    /\ KeysNameSubmissions
    /\ AttemptsNameSubmissions
    /\ KeysAreUnique
    /\ OrdersAreAnswered
    /\ RepliesShareTheKey
    /\ ReservedOncePerOrder

\* Orders are requests, so there are finitely many.
LEMMA OrdersCount ==
    ASSUME TypeOK
    PROVE  IsFiniteSet(orders) /\ Cardinality(orders) \in Nat
<1>1. IsFiniteSet(orders) BY FiniteRequests, FS_Subset DEF TypeOK
<1>2. QED BY <1>1, FS_CardinalityType

-----------------------------------------------------------------------------
\* An empty browser and a server without orders satisfy the invariant.
LEMMA InitIInv == Init => IInv
<1>1. ASSUME Init PROVE TypeOK
    BY <1>1, MaxStockIsNat, NoneIsNothing DEF Init, TypeOK, Attempt, NoAttempt
<1>2. ASSUME Init PROVE ReservedOncePerOrder
    BY <1>2, FS_EmptySet, MaxStockIsNat DEF Init, ReservedOncePerOrder
<1>3. ASSUME Init
      PROVE  KeysNameSubmissions /\ AttemptsNameSubmissions /\ KeysAreUnique
                /\ OrdersAreAnswered /\ RepliesShareTheKey
    BY <1>3 DEF Init, KeysNameSubmissions, AttemptsNameSubmissions, KeysAreUnique,
        OrdersAreAnswered, RepliesShareTheKey, Used
<1>4. QED BY <1>1, <1>2, <1>3 DEF IInv

\* A step of the browser that sends nothing leaves the server alone.
LEMMA QuietStep ==
    ASSUME IInv, TypeOK', UNCHANGED server,
           \A g \in Guests : attempt'[g] = attempt[g] \/ attempt'[g] = NoAttempt
    PROVE  IInv'
<1> USE DEF server
<1>1. KeysNameSubmissions' BY DEF IInv, KeysNameSubmissions, SameSubmission, Used
<1>2. AttemptsNameSubmissions' BY DEF IInv, AttemptsNameSubmissions, Used
<1>3. KeysAreUnique' /\ OrdersAreAnswered' /\ RepliesShareTheKey' /\ ReservedOncePerOrder'
    BY DEF IInv, KeysAreUnique, OrdersAreAnswered, RepliesShareTheKey, ReservedOncePerOrder
<1>4. QED BY <1>1, <1>2, <1>3 DEF IInv


\* A step of a worker that commits nothing and answers, if at all, with the order of
\* its key.
LEMMA WorkerStep ==
    ASSUME IInv, TypeOK', NEW r \in Requests, Used(r),
           UNCHANGED <<browser, request, orders, available, supplied>>,
           NEW to \in Stages \ {"unused"}, stage' = [stage EXCEPT ![r] = to],
           stage[r] = "answered" => to = "answered",
           NEW a, reply' = [reply EXCEPT ![r] = a],
           a \in orders => to = "answered" /\ request[a].key = request[r].key,
           a \notin orders => a \in {None, Refused}
    PROVE  IInv'
<1> USE DEF browser
<1>0. /\ stage \in [Requests -> Stages]
      /\ DOMAIN reply = Requests
      /\ orders \subseteq Requests
    BY DEF IInv, TypeOK, Stages
<1>1. \A q \in Requests : Used(q)' <=> Used(q) BY <1>0 DEF Used, Stages
<1>2. KeysNameSubmissions' BY <1>1 DEF IInv, KeysNameSubmissions, SameSubmission
<1>3. AttemptsNameSubmissions' BY <1>1 DEF IInv, AttemptsNameSubmissions
<1>4. KeysAreUnique' /\ ReservedOncePerOrder'
    BY DEF IInv, KeysAreUnique, ReservedOncePerOrder
<1>5. OrdersAreAnswered'
    BY <1>0 DEF IInv, OrdersAreAnswered
<1>6. RepliesShareTheKey'
  <2> SUFFICES ASSUME NEW q \in Requests, reply'[q] \in orders
               PROVE  stage'[q] = "answered" /\ request[reply'[q]].key = request[q].key
      BY DEF RepliesShareTheKey
  <2>1. CASE q = r BY <2>1, <1>0
  <2>2. CASE q # r
    <3>1. reply'[q] = reply[q] /\ stage'[q] = stage[q] BY <2>2, <1>0
    <3>2. QED BY <3>1 DEF IInv, RepliesShareTheKey
  <2>3. QED BY <2>1, <2>2
<1>7. QED BY <1>2, <1>3, <1>4, <1>5, <1>6 DEF IInv

-----------------------------------------------------------------------------
(* The actions of the browser *)

\* The guest picks another cart.
LEMMA ChooseStep ==
    ASSUME IInv, NEW g \in Guests, NEW c \in Carts, Choose(g, c)
    PROVE  IInv'
<1>1. TypeOK' BY DEF IInv, TypeOK, Choose, server
<1>2. QED BY <1>1, QuietStep DEF Choose

\* The page gives up waiting; the attempt stays.
LEMMA ToastStep ==
    ASSUME IInv, NEW g \in Guests, Toast(g)
    PROVE  IInv'
<1>1. TypeOK' BY DEF IInv, TypeOK, Toast, server
<1>2. QED BY <1>1, QuietStep DEF Toast

\* The page is reloaded; the attempt stays.
LEMMA RefreshStep ==
    ASSUME IInv, NEW g \in Guests, Refresh(g)
    PROVE  IInv'
<1>1. TypeOK' BY DEF IInv, TypeOK, Refresh, server
<1>2. QED BY <1>1, QuietStep DEF Refresh

\* The order is confirmed and its key retired.
LEMMA ConfirmStep ==
    ASSUME IInv, NEW g \in Guests, Confirm(g)
    PROVE  IInv'
<1> DEFINE r == waiting[g]
<1>0. r \in Requests BY DEF IInv, TypeOK, Confirm
<1>1. request[r].key \in Requests
  <2>1. Used(r) BY DEF Confirm, Used
  <2>2. QED BY <1>0, <2>1 DEF IInv, KeysNameSubmissions, SameSubmission
<1>2. NoAttempt \in Attempt BY DEF NoAttempt, Attempt
<1>3. told' \in [Guests -> SUBSET Requests] BY <1>1 DEF IInv, TypeOK, Confirm
<1>4. attempt' \in [Guests -> Attempt] BY <1>2 DEF IInv, TypeOK, Confirm
<1>5. TypeOK' BY <1>3, <1>4 DEF IInv, TypeOK, Confirm, server
<1>6. \A h \in Guests : attempt'[h] = attempt[h] \/ attempt'[h] = NoAttempt
    BY DEF IInv, TypeOK, Confirm
<1>7. QED BY <1>5, <1>6, QuietStep DEF Confirm

\* The request carries the key it was minted with, or that of an earlier request of
\* the same guest for the same cart.
LEMMA SubmitStep ==
    ASSUME IInv, NEW g \in Guests, NEW r \in Requests, Submit(g, r)
    PROVE  IInv'
<1> DEFINE k == Key(g, r)
           sub == [guest |-> g, cart |-> cart[g], key |-> k]
<1>0. /\ TypeOK
      /\ cart[g] \in Carts
      /\ stage[r] = "unused" /\ ~Used(r)
      /\ stage' = [stage EXCEPT ![r] = "sent"]
      /\ request' = [request EXCEPT ![r] = sub]
      /\ attempt' = [attempt EXCEPT ![g] = [cart |-> cart[g], key |-> k]]
      /\ UNCHANGED <<cart, told, reply, orders, available, supplied, holder>>
    BY DEF IInv, TypeOK, Submit, Used
<1>1. /\ k \in Requests
      /\ k # r => /\ Used(k)
                  /\ request[k].guest = g
                  /\ request[k].cart = cart[g]
  <2>1. CASE attempt[g].cart = cart[g]
    <3>1. attempt[g] # NoAttempt BY <2>1, <1>0, NoneIsNothing DEF NoAttempt
    <3>2. QED BY <2>1, <3>1 DEF IInv, AttemptsNameSubmissions, Key
  <2>2. CASE attempt[g].cart # cart[g] BY <2>2 DEF Key
  <2>3. QED BY <2>1, <2>2
<1> HIDE DEF k
<1>2. /\ \A q \in Requests : Used(q)' <=> (Used(q) \/ q = r)
      /\ request'[r] = sub
      /\ \A q \in Requests \ {r} : request'[q] = request[q] /\ stage'[q] = stage[q]
    BY <1>0 DEF TypeOK, Used
<1>3. r \notin orders /\ reply[r] \notin orders
    BY <1>0 DEF IInv, OrdersAreAnswered, RepliesShareTheKey
<1>4. TypeOK'
  <2>1. sub \in [guest : Guests \cup {None}, cart : Carts \cup {None},
                 key : Requests \cup {None}]
      BY <1>0, <1>1
  <2>2. [cart |-> cart[g], key |-> k] \in Attempt BY <1>0, <1>1 DEF Attempt
  <2>3. request' \in [Requests -> [guest : Guests \cup {None}, cart : Carts \cup {None},
                                   key : Requests \cup {None}]]
      BY <2>1, <1>0 DEF TypeOK
  <2>4. attempt' \in [Guests -> Attempt] BY <2>2, <1>0 DEF TypeOK
  <2>5. waiting' \in [Guests -> Requests \cup {None}] BY <1>0 DEF TypeOK, Submit
  <2>6. stage' \in [Requests -> {"unused", "sent", "checked", "locked", "answered"}]
      BY <1>0 DEF TypeOK
  <2>7. \A q \in Requests : stage'[q] = "locked" <=> holder' = q BY <1>0 DEF TypeOK
  <2>8. QED BY <2>3, <2>4, <2>5, <2>6, <2>7, <1>0 DEF TypeOK
<1>5. KeysNameSubmissions'
  <2> SUFFICES ASSUME NEW q \in Requests, Used(q)'
               PROVE  SameSubmission(q, request[q].key)'
      BY DEF KeysNameSubmissions
  <2>1. CASE q = r
    <3>1. CASE k = r BY <3>1, <2>1, <1>2 DEF SameSubmission
    <3>2. CASE k # r BY <3>2, <2>1, <1>1, <1>2 DEF SameSubmission
    <3>3. QED BY <3>1, <3>2
  <2>2. CASE q # r
    <3>1. SameSubmission(q, request[q].key)
        BY <2>2, <1>2 DEF IInv, KeysNameSubmissions
    <3>2. request[q].key # r BY <3>1, <1>0 DEF SameSubmission
    <3>3. QED BY <2>2, <3>1, <3>2, <1>2 DEF SameSubmission
  <2>3. QED BY <2>1, <2>2
<1>6. AttemptsNameSubmissions'
  <2> SUFFICES ASSUME NEW h \in Guests, attempt'[h] # NoAttempt
               PROVE  /\ attempt'[h].key \in Requests /\ Used(attempt[h].key)'
                      /\ request'[attempt'[h].key].guest = h
                      /\ request'[attempt'[h].key].cart = attempt'[h].cart
      BY DEF AttemptsNameSubmissions
  <2>1. CASE h = g
    <3>1. attempt'[h] = [cart |-> cart[g], key |-> k] BY <2>1, <1>0 DEF TypeOK
    <3>2. CASE k = r BY <3>1, <3>2, <2>1, <1>2
    <3>3. CASE k # r BY <3>1, <3>3, <2>1, <1>1, <1>2
    <3>4. QED BY <3>2, <3>3
  <2>2. CASE h # g
    <3>1. attempt'[h] = attempt[h] BY <2>2, <1>0 DEF TypeOK
    <3>2. /\ attempt[h].key \in Requests /\ Used(attempt[h].key)
          /\ request[attempt[h].key].guest = h
          /\ request[attempt[h].key].cart = attempt[h].cart
        BY <3>1 DEF IInv, AttemptsNameSubmissions
    <3>3. attempt[h].key # r BY <3>2, <1>0
    <3>4. QED BY <3>1, <3>2, <3>3, <1>2
  <2>3. QED BY <2>1, <2>2
<1>7. KeysAreUnique' BY <1>0, <1>2, <1>3 DEF IInv, TypeOK, KeysAreUnique
<1>8. OrdersAreAnswered' BY <1>0, <1>2, <1>3 DEF IInv, TypeOK, OrdersAreAnswered
<1>9. RepliesShareTheKey'
  <2> SUFFICES ASSUME NEW q \in Requests, reply[q] \in orders
               PROVE  stage'[q] = "answered" /\ request'[reply[q]].key = request'[q].key
      BY <1>0 DEF RepliesShareTheKey
  <2>1. q # r /\ reply[q] # r /\ reply[q] \in Requests BY <1>0, <1>3 DEF TypeOK
  <2>2. QED BY <2>1, <1>2 DEF IInv, RepliesShareTheKey
<1>10. ReservedOncePerOrder' BY <1>0 DEF IInv, ReservedOncePerOrder
<1>11. QED BY <1>4, <1>5, <1>6, <1>7, <1>8, <1>9, <1>10 DEF IInv

-----------------------------------------------------------------------------
(* The actions of a worker *)

\* Answering with an order of the key, a refusal or nothing.
LEMMA AnswerStep ==
    ASSUME IInv, NEW r \in Requests, stage[r] \in {"sent", "checked", "locked"},
           NEW a \in orders \cup {None, Refused},
           a \in orders => request[a].key = request[r].key,
           Answer(r, a),
           UNCHANGED <<browser, request, orders, available, supplied>>
    PROVE  IInv'
<1>0. TypeOK BY DEF IInv
<1>1. TypeOK'
  <2>1. stage' \in [Requests -> {"unused", "sent", "checked", "locked", "answered"}]
      BY <1>0 DEF TypeOK, Answer
  <2>2. reply' \in [Requests -> orders \cup {None, Refused}] BY <1>0 DEF TypeOK, Answer
  <2>3. holder' \in Requests \cup {None} BY <1>0 DEF TypeOK, Answer
  <2>4. \A q \in Requests : stage'[q] = "locked" <=> holder' = q
    <3>1. None \notin Requests BY NoneIsNothing
    <3>2. TAKE q \in Requests
    <3>3. CASE q = r BY <3>1, <3>3, <1>0 DEF TypeOK, Answer
    <3>4. CASE q # r
      <4>1. stage'[q] = stage[q] BY <3>4, <1>0 DEF TypeOK, Answer
      <4>2. holder' = q <=> holder = q BY <3>1, <3>4 DEF Answer
      <4>3. QED BY <4>1, <4>2, <1>0 DEF TypeOK
    <3>5. QED BY <3>3, <3>4
  <2>5. QED BY <2>1, <2>2, <2>3, <2>4, <1>0 DEF TypeOK, browser
<1>2. Used(r) /\ stage[r] # "answered" BY DEF Used
<1>3. QED BY <1>1, <1>2, WorkerStep DEF Answer, Stages

\* The lookup by key, before any lock: no order yet, or the answer.
LEMMA FindByKeyStep ==
    ASSUME IInv, NEW r \in Requests, FindByKey(r)
    PROVE  IInv'
<1>0. TypeOK BY DEF IInv
<1>1. CASE OrdersOf(request[r].key) = {}
  <2>1. /\ stage[r] = "sent"
        /\ stage' = [stage EXCEPT ![r] = "checked"]
        /\ UNCHANGED <<browser, request, reply, orders, available, supplied, holder>>
      BY <1>1 DEF FindByKey
  <2>2. stage' \in [Requests -> {"unused", "sent", "checked", "locked", "answered"}]
      BY <1>0, <2>1 DEF TypeOK
  <2>3. \A q \in Requests : stage'[q] = "locked" <=> holder' = q
      BY <1>0, <2>1 DEF TypeOK
  <2>4. TypeOK' BY <1>0, <2>1, <2>2, <2>3 DEF TypeOK, browser
  <2>5. reply' = [reply EXCEPT ![r] = reply[r]] BY <1>0, <2>1 DEF TypeOK
  <2>6. reply[r] \notin orders /\ reply[r] \in orders \cup {None, Refused}
      BY <1>0, <2>1 DEF TypeOK, IInv, RepliesShareTheKey
  <2>7. Used(r) BY <2>1 DEF Used
  <2>8. QED BY <2>1, <2>4, <2>5, <2>6, <2>7, WorkerStep DEF Stages
<1>2. CASE OrdersOf(request[r].key) # {}
  <2>1. PICK o \in OrdersOf(request[r].key) : Answer(r, o) BY <1>2 DEF FindByKey
  <2>2. QED BY <2>1, AnswerStep DEF FindByKey, OrdersOf
<1>3. QED BY <1>1, <1>2

\* The locks are taken by one request at a time.
LEMMA LockRowsStep ==
    ASSUME IInv, NEW r \in Requests, LockRows(r)
    PROVE  IInv'
<1>0. /\ TypeOK
      /\ stage[r] = "checked" /\ holder = None
      /\ stage' = [stage EXCEPT ![r] = "locked"] /\ holder' = r
      /\ UNCHANGED <<browser, request, reply, orders, available, supplied>>
    BY DEF IInv, LockRows
<1>1. stage' \in [Requests -> {"unused", "sent", "checked", "locked", "answered"}]
    BY <1>0 DEF TypeOK
<1>2. \A q \in Requests : stage'[q] = "locked" <=> holder' = q
    BY <1>0, NoneIsNothing DEF TypeOK
<1>3. TypeOK' BY <1>0, <1>1, <1>2 DEF TypeOK, browser
<1>4. reply' = [reply EXCEPT ![r] = reply[r]] BY <1>0 DEF TypeOK
<1>5. reply[r] \notin orders /\ reply[r] \in orders \cup {None, Refused}
    BY <1>0 DEF TypeOK, IInv, RepliesShareTheKey
<1>6. Used(r) BY <1>0 DEF Used
<1>7. QED BY <1>0, <1>3, <1>4, <1>5, <1>6, WorkerStep DEF Stages

\* The availability gate refuses.
LEMMA RefuseShortageStep ==
    ASSUME IInv, NEW r \in Requests, RefuseShortage(r)
    PROVE  IInv'
<1>1. Refused \notin orders BY RefusedIsAlone DEF IInv, TypeOK
<1>2. QED BY <1>1, AnswerStep DEF RefuseShortage

\* The transaction dies and rolls back.
LEMMA FailStep ==
    ASSUME IInv, NEW r \in Requests, Fail(r)
    PROVE  IInv'
<1>1. None \notin orders BY NoneIsNothing DEF IInv, TypeOK
<1>2. QED BY <1>1, AnswerStep DEF Fail

\* The winner of the race: a new order, one unit reserved, no other order of the key.
LEMMA InsertStep ==
    ASSUME IInv, NEW r \in Requests, PlaceOrder(r), OrdersOf(request[r].key) = {}
    PROVE  IInv'
<1>0. /\ TypeOK
      /\ stage[r] = "locked" /\ available >= 1 /\ Used(r)
      /\ orders' = orders \cup {r} /\ available' = available - 1
      /\ stage' = [stage EXCEPT ![r] = "answered"]
      /\ reply' = [reply EXCEPT ![r] = r]
      /\ holder = r /\ holder' = None
      /\ UNCHANGED <<browser, request, supplied>>
    BY DEF IInv, TypeOK, PlaceOrder, Insert, Answer, Used
<1>1. r \notin orders /\ \A o \in orders : request[o].key # request[r].key
    BY DEF OrdersOf
<1>2. /\ \A q \in Requests : Used(q)' <=> Used(q)
      /\ stage'[r] = "answered" /\ reply'[r] = r
      /\ \A q \in Requests \ {r} : stage'[q] = stage[q] /\ reply'[q] = reply[q]
    BY <1>0 DEF TypeOK, Used
<1>3. TypeOK'
  <2>1. stage' \in [Requests -> {"unused", "sent", "checked", "locked", "answered"}]
      BY <1>0 DEF TypeOK
  <2>2. reply' \in [Requests -> orders' \cup {None, Refused}] BY <1>0 DEF TypeOK
  <2>3. available' \in 0..MaxStock BY <1>0, MaxStockIsNat DEF TypeOK
  <2>4. orders' \subseteq Requests BY <1>0 DEF TypeOK
  <2>5. \A q \in Requests : stage'[q] = "locked" <=> holder' = q
      BY <1>0, <1>2, NoneIsNothing DEF TypeOK
  <2>6. QED BY <2>1, <2>2, <2>3, <2>4, <2>5, <1>0 DEF TypeOK, browser
<1>4. KeysNameSubmissions' BY <1>0, <1>2 DEF IInv, KeysNameSubmissions, SameSubmission
<1>5. AttemptsNameSubmissions'
    BY <1>0, <1>2 DEF IInv, AttemptsNameSubmissions, browser
<1>6. KeysAreUnique' BY <1>0, <1>1 DEF IInv, KeysAreUnique
<1>7. OrdersAreAnswered' BY <1>0, <1>2 DEF IInv, TypeOK, OrdersAreAnswered
<1>8. RepliesShareTheKey'
  <2> SUFFICES ASSUME NEW q \in Requests, reply'[q] \in orders'
               PROVE  stage'[q] = "answered" /\ request[reply'[q]].key = request[q].key
      BY <1>0 DEF RepliesShareTheKey
  <2>1. CASE q = r BY <2>1, <1>2
  <2>2. CASE q # r
    <3>1. reply[q] # r
      <4>1. reply[q] \in orders \cup {None, Refused} BY <1>0 DEF TypeOK
      <4>2. QED BY <4>1, <1>1, NoneIsNothing, RefusedIsAlone
    <3>2. reply[q] \in orders BY <3>1, <2>2, <1>0, <1>2
    <3>3. QED BY <3>2, <2>2, <1>2 DEF IInv, RepliesShareTheKey
  <2>3. QED BY <2>1, <2>2
<1>9. ReservedOncePerOrder'
  <2>1. Cardinality(orders') = Cardinality(orders) + 1
      BY <1>0, <1>1, OrdersCount, FS_AddElement
  <2>2. QED BY <2>1, <1>0, OrdersCount, MaxStockIsNat
            DEF IInv, TypeOK, ReservedOncePerOrder
<1>10. QED BY <1>3, <1>4, <1>5, <1>6, <1>7, <1>8, <1>9 DEF IInv

\* The insert, won or lost.
LEMMA PlaceOrderStep ==
    ASSUME IInv, NEW r \in Requests, PlaceOrder(r)
    PROVE  IInv'
<1>1. CASE OrdersOf(request[r].key) = {} BY <1>1, InsertStep
<1>2. CASE OrdersOf(request[r].key) # {}
  <2>1. PICK o \in OrdersOf(request[r].key) : Answer(r, o) BY <1>2 DEF PlaceOrder, Insert
  <2>2. stage[r] = "locked" /\ UNCHANGED <<browser, request, orders, available, supplied>>
      BY <1>2 DEF PlaceOrder, Insert
  <2>3. QED BY <2>1, <2>2, AnswerStep DEF OrdersOf
<1>3. QED BY <1>1, <1>2

\* Stock comes back: it counts as supplied, not as reserved.
LEMMA RestockStep ==
    ASSUME IInv, Restock
    PROVE  IInv'
<1>0. /\ supplied' = supplied + 1 /\ available' = available + 1 /\ supplied < MaxStock
      /\ UNCHANGED <<browser, request, stage, reply, orders, holder>>
      /\ TypeOK /\ available + Cardinality(orders) = supplied
    BY DEF Restock, IInv, ReservedOncePerOrder
<1>1. available' \in 0..MaxStock /\ supplied' \in 0..MaxStock
    BY <1>0, OrdersCount, MaxStockIsNat DEF TypeOK
<1>2. ReservedOncePerOrder'
    BY <1>0, OrdersCount, MaxStockIsNat DEF TypeOK, ReservedOncePerOrder
<1>3. TypeOK' BY <1>0, <1>1 DEF TypeOK, browser
<1>4. KeysNameSubmissions' /\ AttemptsNameSubmissions' /\ KeysAreUnique'
         /\ OrdersAreAnswered' /\ RepliesShareTheKey'
    BY <1>0 DEF IInv, KeysNameSubmissions, AttemptsNameSubmissions, KeysAreUnique,
        OrdersAreAnswered, RepliesShareTheKey, SameSubmission, Used, browser
<1>5. QED BY <1>2, <1>3, <1>4 DEF IInv

\* A step that changes nothing.
LEMMA StutterStep ==
    ASSUME IInv, UNCHANGED vars
    PROVE  IInv'
<1>1. TypeOK' BY DEF IInv, TypeOK, vars, browser, server
<1>2. QED BY <1>1, QuietStep DEF vars, browser

-----------------------------------------------------------------------------
(* The theorems *)

\* Every step of a guest, a worker or the stock room preserves the invariant.
THEOREM Inductive == Spec => []IInv
<1>1. IInv /\ [Next]_vars => IInv'
  <2> SUFFICES ASSUME IInv, [Next]_vars PROVE IInv' OBVIOUS
  <2>1. ASSUME NEW g \in Guests, Guest(g) PROVE IInv'
      BY <2>1, ChooseStep, SubmitStep, ConfirmStep, ToastStep, RefreshStep DEF Guest
  <2>2. ASSUME NEW r \in Requests, Worker(r) PROVE IInv'
      BY <2>2, FindByKeyStep, LockRowsStep, RefuseShortageStep, PlaceOrderStep, FailStep
         DEF Worker
  <2>3. CASE Restock BY <2>3, RestockStep
  <2>4. CASE UNCHANGED vars BY <2>4, StutterStep
  <2>5. QED BY <2>1, <2>2, <2>3, <2>4 DEF Next
<1>2. QED BY InitIInv, <1>1, PTL DEF Spec

\* What the browser stores, the requests carry and the server answers is well-formed,
\* stock never goes below zero, and only the request at work holds the row locks.
THEOREM TypeCorrect == Spec => []TypeOK
<1>1. IInv => TypeOK BY DEF IInv
<1>2. QED BY Inductive, <1>1, PTL

\* Whatever the guests tap and however the retries overlap, one key makes one order.
THEOREM KeyMakesOneOrder == Spec => []OneOrderPerKey
<1>1. ASSUME IInv PROVE OneOrderPerKey
  <2> SUFFICES ASSUME NEW r \in Requests PROVE Cardinality(OrdersOf(r)) <= 1
      BY DEF OneOrderPerKey
  <2>1. CASE OrdersOf(r) = {} BY <2>1, FS_EmptySet
  <2>2. CASE OrdersOf(r) # {}
    <3>1. PICK o : o \in OrdersOf(r) BY <2>2
    <3>2. OrdersOf(r) = {o} BY <3>1, <1>1 DEF IInv, KeysAreUnique, OrdersOf
    <3>3. QED BY <3>2, FS_Singleton
  <2>3. QED BY <2>1, <2>2
<1>2. QED BY Inductive, <1>1, PTL

\* A retry that loses the race on the unique key reserves nothing.
THEOREM StockReservedOnce == Spec => []ReservedOncePerOrder
<1>1. IInv => ReservedOncePerOrder BY DEF IInv
<1>2. QED BY Inductive, <1>1, PTL

\* The order a guest is shown is that guest's, for what was on the screen.
THEOREM AnswersAreTheGuestsOwn == Spec => []AnswersNameTheOrder
<1>1. ASSUME IInv PROVE AnswersNameTheOrder
  <2> SUFFICES ASSUME NEW r \in Requests, reply[r] \in orders
               PROVE  /\ request[reply[r]].guest = request[r].guest
                      /\ request[reply[r]].cart = request[r].cart
      BY DEF AnswersNameTheOrder
  <2>1. /\ stage[r] = "answered" /\ stage[reply[r]] = "answered" /\ reply[r] \in Requests
        /\ request[reply[r]].key = request[r].key
      BY <1>1 DEF IInv, TypeOK, RepliesShareTheKey, OrdersAreAnswered
  <2>2. SameSubmission(r, request[r].key) BY <2>1, <1>1 DEF IInv, KeysNameSubmissions, Used
  <2>3. SameSubmission(reply[r], request[r].key)
      BY <2>1, <1>1 DEF IInv, KeysNameSubmissions, Used
  <2>4. QED BY <2>2, <2>3 DEF SameSubmission
<1>2. QED BY Inductive, <1>1, PTL

=============================================================================
