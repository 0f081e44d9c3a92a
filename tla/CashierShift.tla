---------------------------- MODULE CashierShift ----------------------------
(***************************************************************************)
(* Opening and closing a till while money moves.                           *)
(*                                                                         *)
(*   apps/api/app/services/cashier_shift_service.py  open_shift,           *)
(*       close_shift, compute_shift_totals                                 *)
(*   apps/api/app/services/payment_service.py        when a settlement or  *)
(*       a refund is stamped and when it becomes visible                   *)
(*   scripts/reconcile_payments.py                   reconcile_shifts      *)
(*                                                                         *)
(* Every call is a READ COMMITTED transaction. PostgreSQL's now() is the   *)
(* instant the transaction began, so a row is stamped with the beginning   *)
(* of the call that writes it and becomes visible when it commits.         *)
(*                                                                         *)
(* One branch. A sum over the ledger is the set of the entries it adds up: *)
(* amounts and payment methods do not decide anything here.                *)
(***************************************************************************)
EXTENDS Naturals

CONSTANTS
    Staff,         \* who may collect
    Supervisors,   \* holders of owner:read, who may also refund
    Calls,         \* the bound on the requests made; rows have the id of their call
    Keys,          \* idempotency keys of open requests
    MaxTime,       \* the bound on the clock
    None

ASSUME MaxTimeIsNat      == MaxTime \in Nat
ASSUME SupervisorsCollect == Supervisors \subseteq Staff
ASSUME NoneIsNoCall      == None \notin Calls \cup Staff \cup Keys \cup (0..MaxTime)

VARIABLES
    clock,       \* the database server's clock
    call,        \* what every request asks and when its transaction began
    stage,       \* how far it is
    counted,     \* the payments a close has counted
    committed,   \* when a settlement or refund became visible
    shift        \* cashier_shifts; began is when the closing transaction did

shiftVars == <<clock, call, stage, counted, committed, shift>>

Times    == 0..MaxTime
Idle     == [op |-> "none", who |-> None, of |-> None, key |-> None, at |-> 0]
NoShift  == [status |-> "ABSENT", cashier |-> None, key |-> None, opened |-> 0,
             closed |-> 0, began |-> 0, paid |-> {}, refunded |-> {}]

Ledger(op)  == {c \in Calls : call[c].op = op /\ committed[c] # None}
Settlements == Ledger("collect")
Refunds     == Ledger("refund")

Holding(s) == {c \in Calls : call[c].op = "close" /\ call[c].of = s
                               /\ stage[c] \in {"locked", "counted"}}

Advance(c, to) == stage' = [stage EXCEPT ![c] = to]

\* The transaction is over and leaves no ledger entry of its own.
Leave(c) ==
    /\ Advance(c, "done")
    /\ call' = [call EXCEPT ![c] = Idle]
    /\ counted' = [counted EXCEPT ![c] = {}]

-----------------------------------------------------------------------------
(* Requests *)

Begin(c, op, who, of, key) ==
    /\ stage[c] = "idle"
    /\ call' = [call EXCEPT ![c] = [op |-> op, who |-> who, of |-> of, key |-> key, at |-> clock]]
    /\ Advance(c, "begun")
    /\ UNCHANGED <<clock, counted, committed, shift>>

BeginOpen(c) == \E w \in Staff, k \in Keys : Begin(c, "open", w, None, k)

\* _authorize_close: one's own shift, or anybody's for a supervisor.
BeginClose(c) ==
    \E w \in Staff, s \in Calls :
        /\ shift[s].status # "ABSENT"
        /\ shift[s].cashier = w \/ w \in Supervisors
        /\ Begin(c, "close", w, s, None)

BeginCollect(c) == \E w \in Staff : Begin(c, "collect", w, None, None)

BeginRefund(c) == \E w \in Supervisors, p \in Settlements : Begin(c, "refund", w, p, None)

\* The settlement or refund commits, stamped with the beginning of its transaction.
CommitMoney(c) ==
    /\ call[c].op \in {"collect", "refund"}
    /\ stage[c] = "begun"
    /\ Advance(c, "done")
    /\ committed' = [committed EXCEPT ![c] = clock]
    /\ UNCHANGED <<clock, call, counted, shift>>

-----------------------------------------------------------------------------
(* Opening *)

OpenedWith(k) == {s \in Calls : shift[s].status # "ABSENT" /\ shift[s].key = k}
OpenShifts(w) == {s \in Calls : shift[s].status = "OPEN" /\ shift[s].cashier = w}

\* A known key or an open shift is answered with the shift that is there.
LookUpOpen(c) ==
    /\ call[c].op = "open" /\ stage[c] = "begun"
    /\ IF OpenedWith(call[c].key) \cup OpenShifts(call[c].who) = {}
       THEN Advance(c, "clear") /\ UNCHANGED <<call, counted>>
       ELSE Leave(c)
    /\ UNCHANGED <<clock, committed, shift>>

\* Mutant: no partial unique index on open shifts.
KeyIsFree(c) == OpenedWith(call[c].key) = {}

\* Mutant: no unique index on the opening key.
TillIsFree(c) == OpenShifts(call[c].who) = {}

\* The unique indexes uq_cashier_shift_store_open_idem and uq_cashier_shift_one_open.
IndexesAllow(c) == OpenedWith(call[c].key) \cup OpenShifts(call[c].who) = {}

NewShift(c) == [status |-> "OPEN", cashier |-> call[c].who, key |-> call[c].key,
                opened |-> call[c].at, closed |-> 0, began |-> 0,
                paid |-> {}, refunded |-> {}]

InsertShift(c) ==
    /\ call[c].op = "open" /\ stage[c] = "clear"
    /\ Leave(c)
    /\ shift' = IF IndexesAllow(c)
                THEN [shift EXCEPT ![c] = NewShift(c)]
                ELSE shift
    /\ UNCHANGED <<clock, committed>>

-----------------------------------------------------------------------------
(* Closing *)

FindShift(c) ==
    /\ call[c].op = "close" /\ stage[c] = "begun"
    /\ IF shift[call[c].of].status = "CLOSED"
       THEN Leave(c)
       ELSE Advance(c, "found") /\ UNCHANGED <<call, counted>>
    /\ UNCHANGED <<clock, committed, shift>>

\* Mutant: SELECT without FOR UPDATE.
RereadShift(c) ==
    /\ call[c].op = "close" /\ stage[c] = "found"
    /\ IF shift[call[c].of].status = "CLOSED"
       THEN Leave(c)
       ELSE Advance(c, "locked") /\ UNCHANGED <<call, counted>>
    /\ UNCHANGED <<clock, committed, shift>>

LockShift(c) ==
    /\ call[c].op = "close" /\ stage[c] = "found"
    /\ Holding(call[c].of) = {}
    /\ IF shift[call[c].of].status = "CLOSED"
       THEN Leave(c)
       ELSE Advance(c, "locked") /\ UNCHANGED <<call, counted>>
    /\ UNCHANGED <<clock, committed, shift>>

\* Mutant: the application's clock, which runs behind.
AppClock(c) == IF call[c].at = 0 THEN 0 ELSE call[c].at - 1

ClosedAt(c) == call[c].at

PaymentsIn(w, from, to) ==
    {p \in Settlements : call[p].who = w /\ call[p].at >= from /\ call[p].at < to}

\* Mutant: attributed to whoever pressed the button.
RefundsPressedIn(w, from, to) ==
    {r \in Refunds : call[r].who = w /\ call[r].at >= from /\ call[r].at < to}

\* A refund counts against the cashier who took the money.
RefundsIn(w, from, to) ==
    {r \in Refunds : call[call[r].of].who = w /\ call[r].at >= from /\ call[r].at < to}

\* The first of the two sums of compute_shift_totals.
CountPayments(c) ==
    LET s == shift[call[c].of] IN
    /\ call[c].op = "close" /\ stage[c] = "locked"
    /\ counted' = [counted EXCEPT ![c] = PaymentsIn(s.cashier, s.opened, ClosedAt(c))]
    /\ Advance(c, "counted")
    /\ UNCHANGED <<clock, call, committed, shift>>

\* The second sum, and the commit.
CloseShift(c) ==
    LET s == shift[call[c].of] IN
    /\ call[c].op = "close" /\ stage[c] = "counted"
    /\ shift' = [shift EXCEPT ![call[c].of] = [s EXCEPT
                    !.status = "CLOSED", !.closed = ClosedAt(c), !.began = call[c].at,
                    !.paid = counted[c],
                    !.refunded = RefundsIn(s.cashier, s.opened, ClosedAt(c))]]
    /\ Leave(c)
    /\ UNCHANGED <<clock, committed>>

-----------------------------------------------------------------------------
\* A refusal, an exception or a lost connection: rollback.
Fail(c) ==
    /\ stage[c] \notin {"idle", "done"}
    /\ Leave(c)
    /\ UNCHANGED <<clock, committed, shift>>

Tick ==
    /\ clock < MaxTime
    /\ clock' = clock + 1
    /\ UNCHANGED <<call, stage, counted, committed, shift>>

ShiftInit ==
    /\ clock = 0
    /\ call = [c \in Calls |-> Idle]
    /\ stage = [c \in Calls |-> "idle"]
    /\ counted = [c \in Calls |-> {}]
    /\ committed = [c \in Calls |-> None]
    /\ shift = [c \in Calls |-> NoShift]

Till(c) ==
    \/ BeginOpen(c) \/ LookUpOpen(c) \/ InsertShift(c)
    \/ BeginClose(c) \/ FindShift(c) \/ LockShift(c) \/ CountPayments(c) \/ CloseShift(c)
    \/ BeginCollect(c) \/ BeginRefund(c) \/ CommitMoney(c)
    \/ Fail(c)

ShiftNext == Tick \/ \E c \in Calls : Till(c)

ShiftSpec == ShiftInit /\ [][ShiftNext]_shiftVars

-----------------------------------------------------------------------------
(* Properties *)

Closed == {s \in Calls : shift[s].status = "CLOSED"}

\* The rows and the requests at work; a close at work has an open shift to itself.
ShiftTypeOK ==
    /\ clock \in Times
    /\ call \in [Calls -> [op : {"none", "open", "close", "collect", "refund"},
                           who : Staff \cup {None}, of : Calls \cup {None},
                           key : Keys \cup {None}, at : Times]]
    /\ stage \in [Calls -> {"idle", "begun", "clear", "found", "locked", "counted", "done"}]
    /\ counted \in [Calls -> SUBSET Calls]
    /\ committed \in [Calls -> Times \cup {None}]
    /\ shift \in [Calls -> [status : {"ABSENT", "OPEN", "CLOSED"},
                            cashier : Staff \cup {None}, key : Keys \cup {None},
                            opened : Times, closed : Times, began : Times,
                            paid : SUBSET Calls, refunded : SUBSET Calls]]
    /\ \A s \in Calls : Holding(s) # {} => shift[s].status = "OPEN"

\* However the open requests of a cashier overlap, at most one shift is open.
OneOpenShift == \A s, t \in Calls :
    shift[s].status = "OPEN" /\ shift[t].status = "OPEN" /\ shift[s].cashier = shift[t].cashier
        => s = t

\* A key opens one shift, also when the retry comes after that shift was closed.
OneShiftPerKey == \A s, t \in Calls :
    shift[s].status # "ABSENT" /\ shift[t].status # "ABSENT" /\ shift[s].key = shift[t].key
        => s = t

\* Overlapping closes freeze one snapshot: what a closed shift reports never changes.
ClosedShiftIsFrozen == [][\A s \in Closed : shift'[s] = shift[s]]_shiftVars

\* reconcile_shifts: the ledger of a closed shift's window.
WindowPayments(s) ==
    {p \in Settlements : /\ call[p].who = shift[s].cashier
                         /\ shift[s].opened <= call[p].at /\ call[p].at < shift[s].closed}

WindowRefunds(s) ==
    {r \in Refunds : /\ call[call[r].of].who = shift[s].cashier
                     /\ shift[s].opened <= call[r].at /\ call[r].at < shift[s].closed}

\* A snapshot counts nothing that the reconciliation would not find: every entry is in
\* the ledger, is the cashier's own money and lies in the window.
SnapshotInWindow ==
    \A s \in Closed : shift[s].paid \subseteq WindowPayments(s)
                        /\ shift[s].refunded \subseteq WindowRefunds(s)

\* The comment in close_shift: what was committed before the close began is counted.
SettledMoneyIsCounted ==
    \A s \in Closed : \A p \in Settlements :
        (/\ call[p].who = shift[s].cashier /\ call[p].at >= shift[s].opened
         /\ committed[p] < shift[s].began) => p \in shift[s].paid

\* reconcile_payments.py: every closed shift's snapshot matches its window.
SnapshotMatchesLedger ==
    \A s \in Closed : shift[s].paid = WindowPayments(s)
                        /\ shift[s].refunded = WindowRefunds(s)

\* The migration's note on uq_cashier_shift_one_open: two windows never double-count.
NeverCountedTwice ==
    \A s, t \in Closed : s # t => shift[s].paid \cap shift[t].paid = {}

=============================================================================
