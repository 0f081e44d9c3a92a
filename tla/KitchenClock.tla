---------------------------- MODULE KitchenClock ----------------------------
(***************************************************************************)
(* The kitchen's day against the clock: orders, the log of their status    *)
(* changes, the undo window, preparation times and the queue.              *)
(*                                                                         *)
(*   apps/api/app/services/kitchen_service.py          transitions, queue  *)
(*   apps/api/app/services/kitchen_timing_service.py   preparation times   *)
(*   scripts/reconcile_kitchen_timing.py               impossible histories*)
(*                                                                         *)
(* The clock counts tenths of a second, and a time is rounded as the code  *)
(* rounds it. An event carries the time its transaction began (now() in    *)
(* PostgreSQL), which is before the wait for the order's row lock; the     *)
(* undo window is measured against the wall clock. A request may ask for   *)
(* any status: what it asks for is judged under the lock. "seen" is kept   *)
(* for the properties alone: the status a request asked to leave was the   *)
(* one on the board when it began.                                         *)
(***************************************************************************)
EXTENDS KitchenQueue, FiniteSetsExt

CONSTANTS
    Orders,
    Requests,
    Instants,    \* the times of the clock, in tenths of a second
    Slots,       \* the numbers of ingredient slots an order may have
    MaxEvents,   \* the bound on the events in the log
    None

ASSUME TimesAreNat == Instants \subseteq Nat /\ 0 \in Instants /\ Slots \subseteq Nat
ASSUME NoneIsNoTime == None \notin Int

VARIABLES
    now,
    order,       \* orders.status and created_at
    log,         \* order_status_events of each order
    request      \* PATCH /kitchen/orders/{id}/status, from its first statement to its commit

kitchenVars == <<now, order, log, request>>

VALID_TRANSITIONS == {<<"NEW", "IN_PREP">>, <<"NEW", "CANCELLED">>, <<"IN_PREP", "READY">>,
                      <<"IN_PREP", "CANCELLED">>, <<"READY", "DELIVERED">>}

UNDO_TRANSITIONS == {<<"IN_PREP", "NEW">>, <<"READY", "IN_PREP">>}

TERMINAL_STATES == {"DELIVERED", "CANCELLED"}

UNDO_WINDOW == 600

Statuses == {"NEW", "IN_PREP", "READY"} \cup TERMINAL_STATES
NoOrder   == [status |-> "ABSENT", created |-> None]
NoRequest == [order |-> None, to |-> "ABSENT", at |-> None, seen |-> FALSE, stage |-> "idle"]

Placed == {o \in Orders : order[o].status # "ABSENT"}

-----------------------------------------------------------------------------
(* The log of an order *)

Event(from, to, at, seen) == [from |-> from, to |-> to, at |-> at, seen |-> seen]

Times(o, to) == {e.at : e \in {f \in log[o] : f.to = to}}

\* The first time the order entered a status, and the last time.
FirstInto(o, to) == IF Times(o, to) = {} THEN None ELSE Min(Times(o, to))
LastInto(o, to)  == IF Times(o, to) = {} THEN None ELSE Max(Times(o, to))

Logged == MapThenSumSet(LAMBDA o : Cardinality(log[o]), Orders)

-----------------------------------------------------------------------------
(* Steps *)

Wait ==
    /\ now' \in {t \in Instants : t > now}
    /\ UNCHANGED <<order, log, request>>

PlaceOrder(o) ==
    /\ order[o] = NoOrder
    /\ order' = [order EXCEPT ![o] = [status |-> "NEW", created |-> now]]
    /\ log' = [log EXCEPT ![o] = {Event("ABSENT", "NEW", now, TRUE)}]
    /\ UNCHANGED <<now, request>>

\* The authentication query begins the transaction; its time is the event's.
Ask(r) ==
    /\ request[r].stage = "idle"
    /\ \E o \in Placed, to \in Statuses :
          /\ Logged < MaxEvents
          /\ request' = [request EXCEPT ![r] =
                 [order |-> o, to |-> to, at |-> now, stage |-> "asked",
                  seen |-> <<order[o].status, to>> \in VALID_TRANSITIONS \cup UNDO_TRANSITIONS]]
    /\ UNCHANGED <<now, order, log>>

\* Mutant: any move between two open statuses.
LooseTransition(from, to) == from \notin TERMINAL_STATES /\ from # to

ValidTransition(from, to) == <<from, to>> \in VALID_TRANSITIONS

\* Mutant: no window.
UndoAnytime(o) == TRUE

\* The latest event INTO the current status starts the window, whichever way
\* the order came.
UndoInWindow(o) ==
    LET last == LastInto(o, order[o].status) IN last # None /\ now - last <= UNDO_WINDOW

Allowed(o, to) ==
    /\ order[o].status \notin TERMINAL_STATES
    /\ IF <<order[o].status, to>> \in UNDO_TRANSITIONS
       THEN UndoInWindow(o)
       ELSE ValidTransition(order[o].status, to)

\* The row lock is granted, the status is read again, the change commits.
UpdateStatus(r) ==
    LET o == request[r].order  to == request[r].to IN
    /\ request[r].stage = "asked"
    /\ Allowed(o, to)
    /\ order' = [order EXCEPT ![o].status = to]
    /\ log' = [log EXCEPT ![o] = @ \cup {Event(order[o].status, to, request[r].at, request[r].seen)}]
    /\ request' = [request EXCEPT ![r] = NoRequest]
    /\ UNCHANGED now

\* 409, 410, a cancellation of a paid order, or a lost connection.
Refuse(r) ==
    /\ request[r].stage = "asked"
    /\ request' = [request EXCEPT ![r] = NoRequest]
    /\ UNCHANGED <<now, order, log>>

KitchenInit ==
    /\ now = 0
    /\ order = [o \in Orders |-> NoOrder]
    /\ log = [o \in Orders |-> {}]
    /\ request = [r \in Requests |-> NoRequest]

KitchenNext ==
    \/ Wait
    \/ \E o \in Orders : PlaceOrder(o)
    \/ \E r \in Requests : Ask(r) \/ UpdateStatus(r) \/ Refuse(r)

KitchenSpec == KitchenInit /\ [][KitchenNext]_kitchenVars

-----------------------------------------------------------------------------
(* Preparation times *)

\* int(round(...)): the nearest second, the even one of two.
Whole(d) ==
    LET s == d \div 10 IN
    IF d % 10 > 5 \/ (d % 10 = 5 /\ s % 2 = 1) THEN s + 1 ELSE s

\* Whole seconds between two instants, unknown if one is missing or the order
\* of the two is impossible.
NonNegDelta(later, earlier) ==
    IF later = None \/ earlier = None THEN None
    ELSE IF later < earlier THEN None ELSE Whole(later - earlier)

\* prep_active first: it wins over the wait.
DelayState(waiting, cooking) ==
    CASE cooking # None /\ cooking >= 1200 -> "prep_critical"
      [] cooking # None /\ cooking >= 720 /\ cooking < 1200 -> "prep_warning"
      [] (cooking = None \/ cooking < 720) /\ waiting # None /\ waiting >= 900 -> "queue_critical"
      [] (cooking = None \/ cooking < 720) /\ waiting # None /\ waiting >= 600 /\ waiting < 900 ->
             "queue_warning"
      [] OTHER -> "ok"

OrderTiming(o) ==
    LET created == order[o].created
        started == FirstInto(o, "IN_PREP")
        ready   == FirstInto(o, "READY")
        waiting == IF order[o].status = "NEW" THEN NonNegDelta(now, created) ELSE None
        cooking == IF order[o].status = "IN_PREP" THEN NonNegDelta(now, started) ELSE None
    IN  [queued  |-> NonNegDelta(started, created),
         prep    |-> NonNegDelta(ready, started),
         toReady |-> NonNegDelta(ready, created),
         waiting |-> waiting,
         cooking |-> cooking,
         delay   |-> IF order[o].status \in TERMINAL_STATES THEN "ok"
                     ELSE DelayState(waiting, cooking)]

\* The orders whose preparation enters today's averages.
Completed == {o \in Placed : order[o].status \in {"READY", "DELIVERED"}}
PrepTimes == {o \in Completed : OrderTiming(o).prep # None}

\* The live board: every active order, and the ones that are late.
OnBoard == {o \in Placed : order[o].status \in {"NEW", "IN_PREP", "READY"}}
Delayed == {o \in OnBoard : OrderTiming(o).delay # "ok"}

\* What reconcile_kitchen_timing.py reports of an order.
Problems(o) ==
    LET prep == FirstInto(o, "IN_PREP")  ready == FirstInto(o, "READY")
        delivered == FirstInto(o, "DELIVERED")  cancelled == FirstInto(o, "CANCELLED")
    IN  {p \in {"negative_prep", "ready_before_prep", "ready_without_prep",
                "terminal_both", "event_before_create"} :
          CASE p = "negative_prep"      -> ready # None /\ prep # None /\ ready < prep
            [] p = "ready_before_prep"  -> ready # None /\ ready = prep
            [] p = "ready_without_prep" -> (ready # None \/ delivered # None) /\ prep = None
            [] p = "terminal_both"      -> (ready # None \/ delivered # None) /\ cancelled # None
            [] OTHER                    -> \E e \in log[o] : e.at < order[o].created}

-----------------------------------------------------------------------------
(* The queue *)

\* To the nearest tenth of a minute; of a tie, which the float decides, the
\* later one.
Age(o) == (now - order[o].created + 30) \div 60

\* The kitchen dashboard lists what is not ready yet.
Queue == {o \in Placed : order[o].status \in {"NEW", "IN_PREP"}}

-----------------------------------------------------------------------------
(* Properties *)

OrderRow   == [status : Statuses \cup {"ABSENT"}, created : Instants \cup {None}]
EventRow   == [from : Statuses \cup {"ABSENT"}, to : Statuses, at : Instants, seen : BOOLEAN]
RequestRow == [order : Orders \cup {None}, to : Statuses \cup {"ABSENT"},
               at : Instants \cup {None}, seen : BOOLEAN, stage : {"idle", "asked"}]

KitchenTypeOK ==
    /\ now \in Instants
    /\ order \in [Orders -> OrderRow]
    /\ \A o \in Orders : log[o] \subseteq EventRow
    /\ request \in [Requests -> RequestRow]

\* The history of an order adds up, however the requests overlap and whatever
\* they ask for. A finished order was started and served, and its times, each
\* rounded on its own, sum to within a second; its preparation is unknown only
\* if a READY was asked for while the order was not seen cooking. Of what the
\* reconciliation calls impossible, no order is ever ready without preparation
\* or older than its events; a READY beside a CANCELLED was undone in between.
TimingReconciles ==
    /\ KitchenTypeOK
    /\ \A o \in Completed :
          LET t == OrderTiming(o)  unseen == \E e \in log[o] : e.to = "READY" /\ ~e.seen IN
          /\ t.queued # None /\ t.toReady # None
          /\ t.prep = None => unseen
          /\ t.prep # None => t.queued + t.prep - t.toReady \in -1..1
    /\ \A o \in Placed :
          /\ Problems(o) \subseteq {"terminal_both", "ready_before_prep", "negative_prep"}
          /\ "terminal_both" \in Problems(o) =>
                \E e \in log[o] : e.from = "READY" /\ e.to = "IN_PREP"
          /\ "negative_prep" \in Problems(o) =>
                \E e \in log[o] : e.to = "READY" /\ ~e.seen

\* "An order has BOTH a READY/DELIVERED and a CANCELLED event (contradictory
\* terminal history)": the reconciliation calls it impossible.
HistoryNeverContradicts == \A o \in Placed : "terminal_both" \notin Problems(o)

\* "READY recorded before any IN_PREP (impossible ordering ...)".
ReadyNeverBeforePrep == \A o \in Placed : "negative_prep" \notin Problems(o)

Score(o, n) == PriorityScore(Age(o), n, order[o].status)
Starts(o)   == ShouldBeStarted(Age(o), order[o].status)
Hint(o, P)  == ActionHint(Age(o), order[o].status, P)

\* "breached orders always lead the queue": an order that has broken its time
\* leads it whatever its status and its complexity, and one that is close to it
\* comes before the rest.
LateOnesLead ==
    \A o, p \in Queue : \A m, n \in Slots :
        /\ Severity(Age(o)) = "critical" /\ Severity(Age(p)) # "critical"
              => Score(o, m) > Score(p, n)
        /\ Severity(Age(o)) = "warning" /\ Severity(Age(p)) = "ok"
              => Score(o, m) > Score(p, n)

\* The cook is told one thing: what the timing board shows as late is to be
\* started, and an order that is to be started is never told it may wait.
HintsAgree ==
    \A o \in Queue :
        /\ o \in Delayed => Starts(o)
        /\ \A P \in SUBSET (Queue \ {o}) :
              Starts(o) <=> \/ Hint(o, P) \in {"hurry", "soon", "now"}
                            \/ Hint(o, P) = "together" /\ Hint(o, {}) = "now"

\* Four orders over three ingredients, whatever each contains.
BatchesAreTheComponents ==
    \A recipe \in [1..4 -> SUBSET {"flour", "eggs", "jam"}] :
        SuggestsTheComponents(<<1, 2, 3, 4>>, recipe, {"flour", "eggs", "jam"})

\* The queue serves the late first, tells the cook no two things, and groups the
\* orders that share ingredients.
QueueIsSound == LateOnesLead /\ HintsAgree /\ BatchesAreTheComponents

Forward(o) == {e.at : e \in {f \in log[o] : <<f.from, f.to>> \notin UNDO_TRANSITIONS}}

\* An undo reaches back at most two windows behind the last move forward: the
\* undo of READY is itself an event into IN_PREP and opens a second window.
UndoReachesTwoWindows ==
    [][\A o \in Orders :
           /\ order[o].status # order'[o].status
           /\ <<order[o].status, order'[o].status>> \in UNDO_TRANSITIONS
           => now - Max(Forward(o)) <= 2 * UNDO_WINDOW
      ]_kitchenVars

\* "Undo is only permitted within UNDO_WINDOW_SECONDS of the last forward
\* transition into current_status."
UndoWithinTheWindow ==
    [][\A o \in Orders :
           /\ order[o].status # order'[o].status
           /\ <<order[o].status, order'[o].status>> \in UNDO_TRANSITIONS
           => \E e \in log[o] : /\ e.to = order[o].status
                                /\ <<e.from, e.to>> \notin UNDO_TRANSITIONS
                                /\ now - e.at <= UNDO_WINDOW
      ]_kitchenVars

=============================================================================
