# SweetOps: specifications of ordering, kitchen, stock, money and the owner's view

SweetOps runs a chain of waffle shops. A guest scans the code on a table, picks
toppings and orders; the kitchen cooks; the till collects; the stock room receives,
counts, wastes and ships; the owner watches. The program is a FastAPI service over
PostgreSQL (`apps/api`) and four web apps. These modules specify the parts in which a
mistake costs a guest an order, a branch its stock, the till its balance, or makes a screen
say what is not so.

Paths below are relative to the repository; services are in `apps/api/app/services`.

## 1. Inventory of the system

| Component | State it keeps | Operations that change it | Talks to |
|---|---|---|---|
| Order placement (`order_service.py`) | `orders`, items, status events | `create_order` | QR tokens and menu (reads under lock), inventory (reserves), live sync (event after commit) |
| Guest browser (`customer-web`) | selection, stored attempt (cart and key), submit guard | choose, submit, answer, refresh | `POST /public/orders/` over a network that loses answers |
| Kitchen lifecycle (`kitchen_service.py`) | `orders.status`, status events | forward moves, cancel, undo within 60 s | inventory (consume, release), money (cancel guard), live sync |
| Store-scoped inventory (`inventory_service.py`) | `ingredient_stock`, `order_inventory_lines`, the append-only `ingredient_stock_movements` | reserve, consume, release; receipt, adjustment, waste | called in the transactions of orders, kitchen and issues; stock-room commands carry idempotency keys |
| Transfers, counts (`inventory_service.py`) | `inventory_transfers`, `inventory_stock_counts` | `transfer_stock` (locks rows of two branches), `record_stock_count` | the same stock rows |
| Payments and refunds (`payment_service.py`) | settlements, allocations, refunds (append-only), money columns of `orders` | collect a table, collect one order, refund an allocation, refunds of an issue | locks order rows; read by kitchen, issues, shifts |
| Order issues (`order_issue_service.py`) | `order_issues` | create, resolve (four ways) | payments, order status, inventory release, in one transaction |
| Cashier shifts (`cashier_shift_service.py`) | `cashier_shifts` and a frozen snapshot | open, close | sums the payment ledger over a time window |
| QR tokens, tables (`qr_token_service.py`, `scripts/manage_qr_tokens.py`) | `table_qr_tokens` | issue, rotate, rotate by id, revoke, resolve | locks the table, then its tokens; `create_order` locks the token, then references the table |
| Store setup, menu (`store_setup_service.py`, `menu_service.py`) | products, offerings, tables | create, publish, availability, sort, readiness | read by `create_order` and by the guest's menu |
| Guest advice (`conversion_engine.py`) | nothing | ranking, badges, upsell, alternatives, validation | reads stock, sales and the operating mode |
| Live sync (`websocket_manager.py`, `kitchen-web/src/lib/liveSync.ts`) | sockets per branch; the board's snapshot and timers | connect, broadcast, disconnect, coalesced refetch, poll | events after commits |
| Kitchen times and queue (`kitchen_timing_service.py`, `kitchen_service.py`) | nothing | durations, delay states, ranks, hints, batches | reads the status events |
| Owner decisions (`decision_engine.py`) | `owner_decisions` | GET upserts a row per signal; acknowledge, complete, dismiss | reads stock, sales, kitchen and the day's metrics |
| Metrics, mode, dashboards, bills, reconciliations | nothing | read only | read everything |
| Staff sessions (`auth_service.py`) | failed-login counter, lock, sessions | authenticate, resolve, revoke | every staff call |

What is hard here, and what correct means:

* **Concurrency on rows.** Every service call is one database transaction; calls of
  guests, kitchen, stock room and other branches overlap. They must behave as if they ran
  one after the other, must not lose an update and must not wait in a circle.
* **Promises.** An accepted order is a promise: its ingredients stay set aside in its own
  branch until they are poured or given back, once, however the order is started, undone,
  cancelled or refunded, and whatever the stock room does.
* **Mirrors.** `ingredient_stock` mirrors the movement ledger and `orders` mirrors the
  payment ledger. Every call writes both sides.
* **Retries.** Answers get lost. Orders and commands carry keys and a retry must have the
  effect of one call, also when it overlaps the first attempt.
* **Time.** The undo window, shift windows, cooldowns, staleness of a board. A row is stamped
  when its transaction begins and becomes visible when it commits.
* **Screens.** The same figure is computed in several files with limits of their own: what is
  sold out, what is owed, what is late. They have to tell one story.
* **Progress.** A board that missed an event catches up, a decision that was closed comes back
  if its cause stays, whatever fails in between.

`PROJECT.json` lists each of these hazards at its line with the properties that cover it.

## 2. Modules

| Module | Models | Grain |
|---|---|---|
| `BoundedSums` | sums of figures a NUMERIC column holds | operators only |
| `OrderInventory` | orders, kitchen, stock room, transfers, counts | one action per committed call |
| `InventoryTransactions` | the same calls as transactions: locks, reads, commits, rollbacks, keys | one action per statement that locks, or that commits |
| `OrderMoney` | collecting, refunding, issues, cancellations | one action per committed call |
| `Checkout` | guest browser, network, `create_order` under its idempotency key | one action per tap, lookup, lock, decision, answer |
| `CashierShift` | opening and closing a till among payments and refunds in flight | one action per statement that reads, locks or commits |
| `StoreFront` | catalog, menu, tables, stickers, and orders that scan them | one action per committed menu call; one per lock for stickers and orders |
| `KitchenClock` | status requests, the log of events, the undo window, preparation times | one action per statement that begins or commits |
| `KitchenQueue` | severity, rank, hint, load, batches | operators only |
| `LiveBoard` | one kitchen board, its socket, the registry, its refetches | one action per handler, timer, frame and answered request |
| `Mirror` | what a board promises | abstract specification |
| `OwnerFeed` | the rows of the owner's decisions under overlapping GETs and PATCHes | one action per statement that reads, writes or commits |
| `OwnerSignals` | scores of the signals, metrics of a day, the operating mode | operators only |
| `MenuAdvice` | the guest's menu, recommendations, upsell, validation | operators only |
| `ShelfStatus` | how each screen classifies one shelf | operators only |
| `StockReports` | what is read off the stock: alerts, dashboard, menu, reconciliation | operators over the state of `OrderInventory` |
| `MoneyReports` | what is read off the money: bills, summary, dashboard, reconciliation | operators over the state of `OrderMoney` |
| `MC*` | the small instances for TLC | |
| `BoundedSumsProofs` | lemmas on sums, and on induction over finite sets | |
| `OrderInventoryProofs` (with `StockReports`), `InventoryTransactionsProofs`, `OrderMoneyProofs` (with `MoneyReports`), `CheckoutProofs`, `CashierShiftProofs`, `StoreFrontProofs` (`StoreFront`, and `OwnerFeed` with `OwnerSignals`), `KitchenProofs` (`KitchenClock` and `LiveBoard`) | lemmas and theorems | |

`InventoryTransactions` EXTENDS `OrderInventory`: the committed tables are the same
variables, and its property `CallsAreAtomic` is `OrderInventory`'s `Spec`. So
`OrderInventory` is the abstract specification the locking discipline implements. In the same
way `Mirror` is what `LiveBoard` implements (`INSTANCE Mirror WITH shown <- board.orders`, and
once more for the timing), with fairness on both sides. `StockReports` and `MoneyReports` extend
the machine they read, so that a report is checked in every state the calls can lead to.

### OrderInventory

`status`, `storeOf` are columns of `orders`; `line` is `order_inventory_lines`; `stock` is
the summary row and `stocked` the set of (branch, ingredient) pairs that have one;
`ledger` is the movement table summed by kind. Quantities are integers in units of 0.001
(`q3`). Refused calls roll back and are no steps. A `NEW` order is created with any need
per (item, ingredient) that the gate `check_availability` lets through. The kitchen's moves are
`VALID_TRANSITIONS` and `UNDO_TRANSITIONS`, each with its inventory side effect: only a
*forward* move into `IN_PREP` consumes, undoing it restores nothing, a cancellation (by
the kitchen or by an issue) releases what is outstanding.

The CHECK constraints (`ck_stock_reserved_le_on_hand` and others) are deliberately not
guards: the invariants show that the gates in the services suffice and no call ever dies
on a constraint. The one bound in the guards that the code does not state is
`Capacity`, the column's precision.

Left out: order prices (in `OrderMoney`), the payment guard of a cancellation (a kitchen
cancellation may simply not happen), the undo clock (an undo may come at any time, which
allows more than the code does), `waste_quantity` and `returned_quantity` (never written
by the services).

### InventoryTransactions

A request is `idle`, `opened` (it still has to lock its order or to insert a destination
row) or `locking` stock rows, one at a time, in the order `lock_stock_rows` and
`_lock_transfer_stock` ask for. A row is read when its lock is granted
(`populate_existing`, READ COMMITTED) and written as an absolute figure at the commit, so a
missing lock would show as a lost update. Idempotency keys are looked up before and under
the lock and have a unique index per table and branch. A rollback is possible at any time:
it stands for a refusal, an exception or a dead connection.

PostgreSQL is modelled by what the services rely on: exclusive row locks held to the end of
the transaction, a locking read that returns the latest committed version, `INSERT ... ON
CONFLICT DO NOTHING` that waits for a concurrent insert of the same row.

### OrderMoney

`bill` is the money columns of `orders`; `allocated` is `payment_allocations` per
(settlement, order); `given` is `payment_refunds` summed per allocation and by who asked
(the till or an issue); `issue` is `order_issues`. Settlement ids are taken in ascending
order, as the refunds of an issue fill allocations by ascending id. `Summary` is
`recompute_order_summary`. Cancelling exists three times in the code, with different
guards (kitchen: no net paid; `CANCEL_ONLY`: no net paid; `FULL_REFUND`: after refunding
everything) and has three actions. The last-line overpayment check at the end of
`_do_collect` is deliberately not a guard.

### Checkout

A guest's tab has a selection, the attempt in `sessionStorage` and the request it waits
for. `getOrCreateKey` is `Key`. A request goes `sent`, `checked` (its key was not found),
`locked`, `answered`; the answer reaches the page only if it still waits. `Toast` covers a
refusal, a 5xx and no answer; the server may go on with the request afterwards. Each order
takes one unit of one scarce ingredient, and the token and stock row locks are one lock,
since every cart meets every other on the same row. Left out: a browser without
`sessionStorage`, whose memory copy does not survive a refresh.

### CashierShift

`shift` is `cashier_shifts`, `call` and `stage` are the requests at work, `counted` is what a
close has summed so far, `committed` is when a settlement or a refund became visible. Every
timestamp the code compares comes from the database's `now()`, which is the instant the
transaction began: `call[c].at`. A row is stamped with it and is visible only from its
commit on, and the properties are about the difference. The totals of a snapshot are kept as
the sets of ledger entries they add up (`paid`, `refunded`), so that "counted twice" and
"missed" can be said.

An open request looks up its key and the cashier's open shift (`LookUpOpen`, two queries whose
gap nothing can use, since the insert meets both unique indexes anyway) and inserts; whoever
loses on an index rolls back and is answered with the row that is there. A close reads the
shift, locks it and reads it again, sums payments, sums refunds, and commits. The two sums are
two statements and see two states of the ledger. The trigger that refuses to rewrite a closed
shift is deliberately not a guard: `ClosedShiftIsFrozen` shows that the code never runs into
it. Left out: amounts, methods, the cash declared, the wording of answers, other branches.

### StoreFront

`catalog` is `products.is_active`, `offering` is `store_products`, `token` is `table_qr_tokens`; a
sticker has the id of the call that printed it. A call about the menu is one committed step. A
rotation locks the table (`LockTable`, which also reads the active stickers) and then writes them,
for which it waits for an order that holds one; an order locks its sticker (`ResolveToken`), reads
the menu (`CheckMenu`) and inserts, for which it waits for the table (the foreign key's
`FOR KEY SHARE`). The two orders of locking are opposite and PostgreSQL ends such a pair by killing
one of them, which is `Fail`. So the module does not claim that there is no circle; it claims that
whoever dies, a table has one working sticker at most and no order goes through a dead one. The
partial unique index on active stickers is deliberately not a guard.

### KitchenClock and KitchenQueue

`log` is `order_status_events` of each order, `request` a status change from its first statement,
whose time becomes the event's `created_at`, to its commit. `UndoInWindow` is
`_check_undo_window`: the latest event *into* the current status counts, and an undo writes one.
A request may ask for any status, whatever the order's is: as in the code it is judged under the row
lock and nowhere before (`Allowed`). So of two overlapping requests the later one may commit first,
and an event may be stamped before the event it follows. `seen`, in a request and in its event, is
kept for the properties alone: whether the status the request asked to leave was the order's when
the request began, as it is when a cook taps what the board shows.

The clock counts tenths of a second and takes the instants a configuration lists. `OrderTiming`,
`DelayState` and `Problems` are the timing service and its reconciliation over the same log. `Whole`
is `int(round(...))`, to the even second of a tie, and every time is rounded on its own, so
waiting and cooking do not quite sum to the whole: they may be a second apart. `KitchenQueue` ranks and
groups by age, in tenths of a minute. Two events of one order with the same pair of statuses and the
same time are one event here, which none of the readers can tell.

### LiveBoard

`snap` is the controller's snapshot and `badge` what it last *emitted*; a refetch is two requests,
each served at its own moment and settled together (`fetches`); `queued` is `resyncQueued`. Time
goes in units of six seconds, of which the poll interval, the safety poll and the staleness limit
are 2, 5 and 10. `owed` are commits whose broadcast has not begun, `sends` broadcasts that have
this board's socket in their snapshot of the bucket, `frames` what is on the wire. Faults, of
which `MaxFaults` happen: a connection goes without either end noticing, a request fails, the
greeting fails, the server restarts and forgets its sockets and its owed broadcasts. Left out:
`stop()`, other boards (they share nothing but the bucket), the socket's authentication.

### OwnerFeed and OwnerSignals

A GET evaluates the signals (`todo`), reads each row without a lock, writes it, and commits. An
upsert writes only the columns that differ from what was read, onto whatever the row is by then, so
what a request has written is kept as a change (`draft`: an insert, a reset of a closed row, a
refresh of an active one) and `Written` puts it onto the row at the commit.
An insert that meets a row of the same key breaks the session: every later statement fails, each
caught, and the commit saves nothing. A PATCH checks the status of a row it did not lock. `cooling`
is "written less than two hours ago". `OwnerSignals` has the scores and the day's figures as
operators in the units the code rounds to; its properties quantify over grids around every limit.
`FiguresTellTheDay` holds a rounded rate or trend against the exact shares it stands for, cross
multiplied. It says when menus push combinations: when few orders *or* few items of the day have
one, and the kitchen keeps up. And it says which of the five consistency checks of a report
(`ConsistencyErrors`) can fire, and on what days: the rates and the outcomes never disagree, the
order values and the percentile do on days with an outlier. `P90` is `PERCENTILE_CONT(0.9)`.
`ContextMatchesSignals` compares the two files that hold copies of the same limits.

### MenuAdvice, ShelfStatus, StockReports, MoneyReports

Operators that read. A catalog is three ids with price, category and two flags, a shelf says what
is available, a history is what was ordered together. An item is called profitable by its margin where
it has a cost and by its price where it has none, and `BadgesTellProfit` compares only what is judged
alike. The grids have every combination of four
shelf levels over three ids, both partitions in categories, every set of active ids and three
histories, and for the badges every mix of three prices and three costs, among them a margin of exactly
the limit, a loss, a price of zero and no cost. `StockReports` and `MoneyReports` are evaluated in every state of their machine.

## 3. Runs

| Run | Instance | Distinct states | Shows |
|---|---|---|---|
| `inventory` | 2 branches, 1 ingredient, 2 orders of 2 items, needs 0..2, capacity 4, thresholds 1 or 2 | about 42,000 | reservations match lines, ledger matches stock, nothing is promised twice, accepted orders can be cooked, lines follow status through undos, lines settle once, branches are isolated, all screens tell one story of a shelf |
| `branch_transactions` | 1 branch, 2 ingredients, 2 orders, 2 requests at once, 4 calls, 2 keys, 2 sets of thresholds | about 223,000 | atomicity, no stale read, no double booking, an unbroken chain of threshold updates, no circular wait |
| `transfer_transactions` | 2 branches, 1 ingredient, 1 order, 3 requests at once, 4 calls | about 161,000 | the same across branches, with destination rows created on the way |
| `money` | 2 orders of price 2, 2 settlements, 2 issues, amounts of 1 | about 45,000 | bills match ledger, nothing overpaid or over-refunded, cancelled orders hold no money and stay closed, issues match their refunds, every report agrees on what is owed |
| `checkout` | 2 guests, 2 carts, 3 requests, stock up to 2 | about 109,000 | one order per key, stock reserved once, answers name the right order |
| `cashier_shift` | 1 cashier, 1 supervisor, 4 requests, 2 keys, clock up to 2 | about 443,000 | one open shift per cashier, one shift per key, snapshots sound, complete for settled money and frozen |
| `storefront` | 2 branches, 2 tables, 1 product, 4 calls | about 249,000 | one working sticker per table, lineage is a chain, "ready" means that a guest at every table can order, the three queries of the menu agree, a dead sticker orders nothing |
| `kitchen_clock` | 2 orders, 2 requests at once, instants 0, 60, 119.5 and 601 s, 5 events | about 1,438,000 | finished orders have times that add up to within a second, no order is ready without preparation or older than its events and whatever else the reconciliation flags has one of two known causes, the late lead the queue, hints agree with the timing board, batches are exactly the groups that share ingredients, an undo reaches back two windows at most |
| `live_board` | 2 versions, 1 fault | about 404,000 | the board implements `Mirror`, so it shows only what was, never goes back and catches up; with no refetch under way a live badge means data younger than 42 s |
| `owner_feed` | 2 decisions, one with a lasting cause, 2 requests at once | about 274,000 | closed decisions stay closed for the cooldown unless overwritten by a request that had read them before, a lasting cause comes back, rows tell when they were closed; scores, figures and advice over their grids |
| `shift_misses_payment` | `CashierShift` with 3 requests | violation | finding 1 |
| `live_means_fresh` | `LiveBoard` as above | violation | finding 2 |

**Bounds.** Two orders compete for one shelf, which is what over-promising needs; two
items per order make a line differ from an order; needs up to 2 with capacity 4 allow a
shelf to satisfy one order, both or neither. Two requests are enough for a lost update,
three for a circle through two branches. Two ingredients give two rows to lock in two
orders. A price of 2 with typed amounts of 1 allows partial payment, payment by two
settlements and a refund that spills from one allocation to the next; two issues compete
for one order's balance. Three requests give an attempt, its retry and a third with another
key. Amounts, quantities and stock are bounded by `Capacity` (the column; in
`owner_feed` it is the greatest total of the grids) and `MaxStock`;
`MaxCalls` bounds how many calls a behaviour of `InventoryTransactions` begins; `MaxTime`
bounds the clock of `CashierShift`, and three instants tell before, at and after a boundary of
a window apart; four requests give an open, a close, a payment and either its refund, a second
close or a second open; the sets `Orders`, `Settlements`, `Issues`, `Requests`, `Calls` bound how many are ever created. Orders,
branches, items, requests, keys, guests and carts are interchangeable and are declared symmetric,
except where their order matters (branches and ingredients in `InventoryTransactions`,
settlements in `OrderMoney`).
Four sticker calls give a print, two rotations and an order, or a rotation, a revocation and two
orders. The instants of `KitchenClock` are a start, the end of one undo window, almost the end of a second one,
and one at which orders are late, close to late, and waiting past the timing board's first limit (its
limits of cooking lie beyond; `QueueServesTheLate` is proved for any instants); two of them are
59.5 s apart, a tie of the rounding, and with the last they make parts whose rounded sum differs from
their rounded whole. Five events are an order that was undone twice, or one that was undone and then
cancelled, or two shorter ones. Two versions and one
fault are a change that the board must learn of after anything went wrong once; staleness is
reached, since time is not bounded. Two decisions are what a broken session needs, one to break
it and one to lose. The grids of `OwnerSignals`, `MenuAdvice` and `ShelfStatus` take values at,
below and above every limit in the code; the 36 days of `OwnerSignals` mix orders with a combination,
orders of one topping and orders of seven items without a combination, which is what sets the share of
orders apart from the share of items, and the 24 lists of preparation times have one outlier.

**Deadlock.** `inventory`, `live_board` and `owner_feed` check it. The others end when their supply
of calls, settlements, requests, events or time is used up, so the check is off there; waiting in a
circle is the invariant `NoWaitCycle`, which looks at every subset of the requests.

**Fairness.** Two modules have liveness properties.

* `BoardSpec`: weak fairness of `Tick` (time passes), `PollTick` (the browser fires the interval)
  and `Answered` (a request is answered or fails in the end). Nothing is asked of the socket, so
  catching up rests on the interval alone, as the header of `liveSync.ts` claims. A request that
  fails is an answer; `BoardMirrorsKitchen` is about a network that fails `MaxFaults` times.
* `FeedSpec`: weak fairness of the cooldown, of asking again (the panel refetches on an interval)
  and of each request's steps; strong fairness of `WriteRow`, since PostgreSQL grants a row lock to
  whoever waits for it, in turn.

All other properties are safety properties.

**Mutants.** Each property of a passing run is paired with a plausible bug of the code (a
dropped guard, a missing lock, a second booking, a limit of its own) under which TLC finds it
violated. The mutated operators stand before the definitions they replace and are used by nothing.

## 4. Findings

1. *A closed shift can miss a payment of its own window.* A payment that begins before the
   close and commits after the snapshot is stamped inside the window and is in no total, and
   the snapshot is frozen. The comment in `close_shift` says `now()` is strictly after every
   committed payment and before any collected after the close, which leaves out the one in
   flight. `scripts/reconcile_payments.py` then reports a corrupted snapshot.
2. *A hung refetch freezes the badge.* A tick that finds old data calls `sync()`, which returns the
   refetch in flight and emits nothing. While that one hangs the board keeps the badge of its last
   emit, possibly "live", over data of any age. The header of `liveSync.ts` says the state is
   derived from when data last arrived, so that a stale board cannot say so. `BoardIsHonest` is the
   part of the claim that holds.

These configurations are kept for counterexamples TLC finds in the same modules:

| Configuration | Property | What it shows |
|---|---|---|
| `MCCheckoutRetry.cfg` | `RetryGetsTheOrder` | a retry that looked up its key before the first attempt committed meets the availability gate before the unique key, and is refused for lack of the stock its own order took; the docstring of `create_order` says it resolves to the same order |
| `MCCheckoutCarts.cfg` | `OneOrderPerCart` | the browser stores a single attempt, so cart A, cart B, cart A again sends A under two keys, where `docs/CUSTOMER_ORDER_IDEMPOTENCY.md` says all submissions of a fingerprint share one |
| `MCCashierShiftTwice.cfg` | `NeverCountedTwice` | an open request that began before the previous shift's close and inserts after it reaches back into that window; the migration says the index keeps overlapping windows from counting twice |
| `MCStoreFrontRotate.cfg` | `RotateHitsItsToken` | `rotate_by_id` reads the sticker without a lock and may revoke the one that replaced it, where its docstring speaks of one unambiguous token |
| `MCKitchenClockUndo.cfg` | `UndoWithinTheWindow` | the undo of READY is itself an event into IN_PREP and opens a second window, where the code speaks of the last forward transition; `UndoReachesTwoWindows` is what holds |
| `MCKitchenClockTerminal.cfg` | `HistoryNeverContradicts` | READY may be undone within its window and an order in preparation cancelled, all legally; `scripts/reconcile_kitchen_timing.py` asks only whether READY and CANCELLED were ever entered, calls that a "contradictory terminal history", one of its impossible orderings, and exits with 1; `TimingReconciles` says that it takes an undone READY |
| `MCKitchenClockReady.cfg` | `ReadyNeverBeforePrep` | the status is judged under the row lock and the event carries the time its transaction began, so a request for READY that begins before one for IN_PREP and gets the lock after it is accepted and stamped first; the timing service and the script call that an impossible ordering, the script exits with 1, and the preparation time is lost to the averages; `TimingReconciles` says that it takes a request that did not see the order cooking |
| `MCOwnerFeedPercentile.cfg` | `PercentileCoversMean` | ten orders of one minute and one of ninety have a 90th percentile of 1 and a mean of 9.09, which `_run_consistency_checks` reports as "data inconsistency", as p90 >= avg were "always true for a right-skewed distribution"; `FiguresTellTheDay` says what holds: then only the slowest tenth of the orders, to the next whole order, is above the mean |

## 5. Proofs

What TLC finds on the instances of section 3 is proved here for every value of the constants:

| Module | Proved |
|---|---|
| `OrderInventoryProofs` | the type invariant, the five other invariants of `inventory` about orders and stock, `BranchIsolation`, `LineSettlesOnce`, and `ScreensAgree` of `StockReports` |
| `InventoryTransactionsProofs` | `CallsAreAtomic` (the transactions implement `OrderInventory`), `CommitsAreSound`, `NoWaitCycle`, and with the first the invariants of `OrderInventory` under every interleaving |
| `OrderMoneyProofs` | `BillsMatchLedger`, `NeverOverpaid`, `CancelledHoldsNoMoney`, `IssuesMatchRefunds`, `ClosedBooksStayClosed`, and `ReportsAgree` of `MoneyReports` |
| `CheckoutProofs` | the three invariants of `checkout` and the type invariant |
| `CashierShiftProofs` | the four invariants and the action property of `cashier_shift`, and the type invariant |
| `StoreFrontProofs` | `StickersAreSound`, `SetupTellsTruth`, `OldStickerOrdersNothing`; of the owner's panel `RowsTellWhen`, `ClosedStaysClosed` and `PanelIsSound` |
| `KitchenProofs` | `TimingReconciles`, `UndoReachesTwoWindows`, the queue's two properties of orders, `BoardIsHonest`, and the safety part of `Mirror` for tickets and timing |

*Assumptions.* The named ASSUMEs of the modules, which TLC evaluates on every run: finite sets
of ids where something is counted or summed (`FiniteIds`, `FiniteMoneyIds`, `FiniteRows`; a database
holds finitely many rows) and of requests where a queue of them is followed to its end
(`FiniteRequests`: at most as many transactions as connections); needs, amounts and
quantities within the column; finitely many branches, a column that holds more than zero and reorder
figures that are numbers, where screens count shelves (`StoresAreFinite`, `SomethingFits`,
`ReordersAreFigures`); a column that holds the minutes of the slowest order of the grids (`FiguresFit`); placeholders such as `NoStore`, `Till` and `None` are no ids, and `None` of
`OwnerSignals` is no figure and no trend (`NoneIsNoFigure`); ids that order locks are numbers; instants and bounds are natural numbers. No theorem bounds how many there are.

### Sums

Sums over lines are where induction over data would be expected. `BoundedSums` defines
`Total(f, D)` as the cardinality of the set of pairs (d, u) with u at most f[d], which has
the same value for figures within `Capacity`; the lemmas a proof needs (a sum over zeros, splitting a
set in two, replacing one part, congruence, grouping, renaming) then follow from the library's facts
about cardinality. Where a finite set does have to be gone through, `FiniteInduction` states the
induction with a set of good subsets in place of a predicate, which the provers can instantiate;
"a finite set of numbers has a largest" comes from it.

### Stock, call by call

The inductive invariant is the conjunction of the type invariant,
`ReservationsMatchLines`, `NeverOverPromised`, `StockMatchesLedger` and `LinesFollowStatus`.
None of these is inductive alone:

* that a shelf never promises more than it has needs, for a start of preparation, that the
  order's share is part of the reserved figure, which is `ReservationsMatchLines`;
* that a shelf's reserved figure still matches after a kitchen move needs that the lines of
  the order are either all outstanding or all settled, which is `LinesFollowStatus`;
* that an accepted order can be cooked follows from the sum: its part of a sum of
  non-negative figures is at most the whole, and the whole is at most on-hand.

Every screen that reads a shelf starts from the row's on-hand and reserved figures, and by the
inductive invariant these are quantities with reserved at most on-hand, and the sums the ledger gives.
So the reconciliation finds nothing (`NothingToReconcile`). The rest of `ScreensAgree` is about any
such shelf: the audit of thresholds accepts a row exactly when saving accepts it
(`AuditMatchesSave`), the classes in which the alerts sort the shelves exclude each other, so the
cards of the dashboard add up to the list (`CardsAddUp`), and where two files hold limits of their
own, one class implies the other. What the menu calls sold out is what the gate of the checkout refuses
(`MenuMatchesCheckout`), as both ask whether anything is available. A menu without a table is about a
branch only where that branch alone has stock (`UngatedMenuIsOfOneBranch`).

### Stock, transaction by transaction

`TxInv` says for each request what it may rely on: it holds what it has read, what it has
read is what is committed (`RowsAreSound`), the order it has locked has still the status and the lines
it saw (`OrderIsSound`), the thresholds too (`LadderIsFresh`); and what it wants next lies behind all
it has, in the order of the locks. So a commit, which writes figures computed from what was read,
writes what the one-step call would have written: `TransactionsAreCalls` maps each commit to its call
and every other step to a stutter. Everything proved of the calls then holds of the
transactions (`PromisesSurviveConcurrency`). That nobody waits in a circle follows from the same
order: orders are locked before shelves, so no one who holds a shelf waits for an order; whoever
holds a shelf and waits for one wants a shelf behind all it holds (`WaitsGoUp`), so a circle's
awaited shelves, which are finitely many, would have no last one. A transfer whose destination row
is missing inserts it before it holds anything, so nobody waits for it while it waits.

### Money

The inductive invariant adds to the four properties that a bill's status columns follow its figures,
that an order that was never placed has no money, and that an issue nobody has decided approved
nothing. A refund takes from several allocations in one step (`Share`, in ascending order
of the settlements): that it takes from each no more than is left and from all together what was
approved is `FillingGivesAll`, by looking at the smallest set of first settlements on which it would
not. `ReportsAlwaysAgree` is about sums of differences: what is owed summed over bills is
totals minus payments plus refunds summed over the ledger, by splitting the orders that are cancelled
from those that are not.

### Checkout and shifts

The checkout's inductive invariant says where keys come from: every key a request or a stored
attempt carries was minted by a request of the same guest for the same cart
(`KeysNameSubmissions`, `AttemptsNameSubmissions`), and the order in an answer carries the key of
the request (`RepliesShareTheKey`). Together they give `AnswersNameTheOrder`, which says
nothing of keys and is not inductive; `KeysAreUnique` is pairwise uniqueness, from which the
count in `OneOrderPerKey` follows, and `ReservedOncePerOrder` is what keeps a restock within
`MaxStock`. Its assumption is that finitely many requests are made.

The shifts' inductive invariant adds to the properties what they rest on. `NothingIsAhead`:
no stamp lies after the clock, so a transaction that begins now is stamped no earlier than
anything committed, and a closed shift closed when its closing transaction began. `RowsAreFinal`:
a settlement, a refund or a shift belongs to a request that is over. `RequestsAreSound`: a close names a shift that
exists, a refund names a committed settlement. `OneHolder`: at most one close holds a row, and
by the type invariant that row is open, which is why nobody can close it twice. `CountIsRight`:
what a close has counted is in the window and contains every payment committed before the close
began; `CloseShift` copies it into the snapshot. Its assumptions are that supervisors are staff
and that `None` is no id.

### Stickers

One working sticker per table is not inductive. It holds because whoever holds a table's lock holds it
alone and because the stickers it has read as working are still all there are
(`LockHoldersKnowTheTable`): others may have been revoked meanwhile by their id, but none can
have been printed. An order holds its sticker's row from the scan to the insert
(`OrdersHoldTheirSticker`), so it is still active when the order commits. "Ready" is a statement about
the menu's operators alone, given that a table that exists has a branch.

### The panel

That a closed decision stays closed for the cooldown, unless someone who had read it before
overwrites it, is a statement about three moments: a request reads a row, another closes it, the first
commits. `FeedInv` says for each request under way that what it has read of a row, and what it has
drafted for it, still fits the row as it is now (`CopyFits`, `DraftFits`: a row that cools down was
not read as one to reset, a row that is closed was not read as one to refresh), or that the request is
overtaken there. It needs `DraftsAreAlone`: a row is drafted by one request, since the others wait
for its lock, so whoever commits changes no row under another's draft. And it needs that an
overtaken row still cools down, as no request outlasts the cooldown. `RowsTellWhen` then follows,
because a refresh never lands on a row that was closed and then reset.

The panel's figures are operators, and the lemmas about them are stated for any inputs, of which the
grids are instances. Each severity has a band of scores that no urgency and no bonus leaves
(`InBand`, one lemma per signal), so the order of the signals is that of their severities. That a
rate rounded to a ten-thousandth exceeds a limit or another rate is turned into a linear question
about the two counts (`RoundedBound`, `RateAtLeast`); a greater rate is a greater share
(`RatesCompare`), whatever the days. A trend goes the way of its figure (`TrendFacts`), outcomes
add up to the risks that were resolved (`ProtectionFacts`). `ContextMatchesSignals` compares limits
of two files and follows by looking at when each mode and each signal is given (`ModeFacts`,
`WhatFires`). The facts about a report need what a mean says of a sum (`MeanBound`, `HalfTheMean`), what
a mode says of the two rates and the kitchen (`BoostIsForFew`, `KitchenFacts`), and that at least k of
n orders are no slower than the k-th (`RankFacts`, `NinetiethRank`), so that a percentile below the
mean leaves at most a tenth of them above it (`PercentileFacts`); they too are of any day and any list
of times.

### The kitchen

Events carry the time their transaction began and requests ask for what they like, so a log is in the
order neither of its times nor of what its statuses need. What is inductive is `HistoryIsSound`:
whatever is cooking, was made ready or served was started by now; a READY that was asked for in sight
of the cooking has a start stamped no later than itself (`PrepBefore`); an event into a terminal
status is the last word; and an order that was made ready and is neither ready nor delivered has an
undo of READY in its log. `RequestIsSound` says of every request under way what its event will need.
So the times of a finished order follow (`TimesAreOrdered`, `FinishedTimesAdd`): that three
rounded times are a second apart at most comes from `WholeIsNear`, that a rounded time is within half a
second of the exact one.
`UndoneInWindow` remembers of each undone READY that it lay within a window of a move
forward; one more window is what the next undo can add. The queue's part needs no more than that ages
are natural numbers: each severity has a band of scores that no other reaches, whatever the
status and the slots.

### The board

`BoardInv` has four parts: frames under way, broadcasts owed and the greeting are never more than the
versions there were (`FramesAreFew`); there is at most one refetch, and what it was served is not older
than what is shown (`FetchesAreSound`); nothing is queued without a refetch; and the age of the
screen and the time to the next poll together stay below the safety poll and one interval while the
badge says live (`LiveIsPolled`). From the second follows that every step of the board is a step of
`Mirror` or a stutter (`BoardNeverGoesBack`): without it an answer that was overtaken would put
an older board on the screen.

### What is only model-checked

* Liveness needs fairness: `RecurringIssueReturns`, and of `BoardMirrorsKitchen` that a board which is
  behind is brought forward.
* `BatchesAreTheComponents`, the third part of `QueueIsSound`, is a fold over data on four orders.
* `AdviceCanBeFollowed` is about lists that are sorted and cut to a length, over catalogs of three ids:
  what a sort returns for every input is induction over its length.
* The findings are counterexamples, not theorems.

## 6. Not modelled, and why

Roles are a static table. Audit rows are written and never read to decide. Web screens format what
the services return. Migrations and seeds run once; the opening balances they book are the initial
states of `OrderInventory`. Hourly charts, top lists, the percentiles of the timing screen and insight texts sum or word what
the modelled figures already say. Staff sessions are planned below.

Simplifications worth knowing: idempotency keys and row locks of the money calls are not modelled
(`OrderMoney` is at call grain, so `CancelledHoldsNoMoney` and `ClosedBooksStayClosed` are about the order
of calls; a payment and a cancellation that overlap for want of a lock would not be seen); a day of the metrics is a set of orders and not a business date;
opening hours and the cutoff of a day are left out; menu calls do not overlap each other; a board
is alone; prices are whole numbers.

What the modelling also showed, without a property of its own: reopening a decision erases its
`completed_at`, so a day's count of completed decisions can shrink; a signal that gets worse during
the cooldown of a completed one stays suppressed; an ingredient taken off the catalog is reported as
`not_found` by the validation, and a low one is kept without an alternative; the list of a menu shows
what has a known category only.

## 7. Plan

1. `OrderInventory`, `Checkout` and `CashierShift` with proofs, `InventoryTransactions`, `OrderMoney`,
   `StoreFront`, `KitchenClock`, `LiveBoard`, `OwnerFeed` and the modules of reports: done.
2. `MoneyTransactions`: order-row locks, idempotency keys, two tills and two supervisors at once,
   shown to implement `OrderMoney`; a composition of stock and money in which a cancellation's
   payment guard and its release are one step.
3. `StaffSessions`: lockout counter, sessions, revocation.

Every safety property a run checks is proved, but for the two that section 5 leaves to TLC. Theorems
to come are those of the modules to come: that `MoneyTransactions` implements `OrderMoney`, from what a
request knows of the orders it has locked, as in `InventoryTransactionsProofs`; and that a lock on an
account holds for its time whatever logins overlap.
