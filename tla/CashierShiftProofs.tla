------------------------- MODULE CashierShiftProofs -------------------------
(***************************************************************************)
(* Proofs about CashierShift, for any staff, any requests and any length   *)
(* of time.                                                                *)
(***************************************************************************)
EXTENDS CashierShift, TLAPS

\* The types of a request, of how far it is and of a row.
CallRow  == [op : {"none", "open", "close", "collect", "refund"},
             who : Staff \cup {None}, of : Calls \cup {None},
             key : Keys \cup {None}, at : Times]
Stages   == {"idle", "begun", "clear", "found", "locked", "counted", "done"}
ShiftRow == [status : {"ABSENT", "OPEN", "CLOSED"},
             cashier : Staff \cup {None}, key : Keys \cup {None},
             opened : Times, closed : Times, began : Times,
             paid : SUBSET Calls, refunded : SUBSET Calls]

\* Nothing is stamped with a time to come, and nothing commits before it began.
NothingIsAhead ==
    \A c \in Calls :
        /\ call[c].at <= clock
        /\ committed[c] # None => call[c].at <= committed[c] /\ committed[c] <= clock
        /\ shift[c].status = "CLOSED" => shift[c].began <= clock
                                           /\ shift[c].closed = shift[c].began

\* A request that is over does nothing more, and only then has it left a row.
RowsAreFinal ==
    \A c \in Calls :
        /\ committed[c] # None => stage[c] = "done"
        /\ shift[c].status # "ABSENT" => stage[c] = "done"

\* Requests name rows that are there.
RequestsAreSound ==
    \A c \in Calls :
        /\ call[c].op = "close" =>
              call[c].of \in Calls /\ shift[call[c].of].status # "ABSENT"
        /\ call[c].op = "refund" => call[c].of \in Settlements
        /\ stage[c] \in {"found", "locked", "counted"} => call[c].op = "close"

\* The row lock of a shift is held by one close at a time.
OneHolder == \A s \in Calls : \A c, d \in Holding(s) : c = d

\* What a close has counted is what its snapshot may hold and must hold.
CountIsRight ==
    \A c \in Calls : stage[c] = "counted" =>
        /\ counted[c] \subseteq
              PaymentsIn(shift[call[c].of].cashier, shift[call[c].of].opened, call[c].at)
        /\ \A p \in Settlements :
              (/\ call[p].who = shift[call[c].of].cashier
               /\ call[p].at >= shift[call[c].of].opened
               /\ committed[p] < call[c].at) => p \in counted[c]

\* What every step of the till preserves.
IInv ==
    /\ ShiftTypeOK
    /\ NothingIsAhead
    /\ RowsAreFinal
    /\ RequestsAreSound
    /\ OneHolder
    /\ CountIsRight
    /\ OneOpenShift
    /\ OneShiftPerKey
    /\ SnapshotInWindow
    /\ SettledMoneyIsCounted

\* No request, no row: the branch opens.
LEMMA InitIInv == ShiftInit => IInv
<1> SUFFICES ASSUME ShiftInit PROVE IInv OBVIOUS
<1>0. \A c \in Calls :
         /\ call[c] = Idle /\ stage[c] = "idle" /\ counted[c] = {}
         /\ committed[c] = None /\ shift[c] = NoShift
    BY DEF ShiftInit
<1>1. ShiftTypeOK
    BY MaxTimeIsNat DEF ShiftInit, ShiftTypeOK, Times, Idle, NoShift, Holding
<1>2. NothingIsAhead BY <1>0 DEF ShiftInit, NothingIsAhead, Idle, NoShift
<1>3. RowsAreFinal /\ OneOpenShift /\ OneShiftPerKey /\ CountIsRight
    BY <1>0 DEF RowsAreFinal, OneOpenShift, OneShiftPerKey, CountIsRight, NoShift
<1>4. RequestsAreSound /\ OneHolder
    BY <1>0 DEF RequestsAreSound, OneHolder, Holding, Idle
<1>5. SnapshotInWindow /\ SettledMoneyIsCounted
    BY <1>0 DEF SnapshotInWindow, SettledMoneyIsCounted, Closed, NoShift
<1>6. QED BY <1>1, <1>2, <1>3, <1>4, <1>5 DEF IInv

-----------------------------------------------------------------------------
\* A request that is over without a ledger entry, as far as it had come.
LEMMA LeaveStep ==
    ASSUME IInv, NEW c \in Calls, stage[c] # "done", Leave(c),
           UNCHANGED <<clock, committed, shift>>
    PROVE  IInv'
<1>0. /\ call \in [Calls -> CallRow] /\ stage \in [Calls -> Stages]
      /\ counted \in [Calls -> SUBSET Calls] /\ committed[c] = None
      /\ committed \in [Calls -> Times \cup {None}] /\ shift \in [Calls -> ShiftRow]
      /\ clock \in Times
    BY DEF IInv, ShiftTypeOK, RowsAreFinal, CallRow, Stages, ShiftRow
<1>1. /\ call'[c] = Idle /\ stage'[c] = "done" /\ counted'[c] = {}
      /\ \A d \in Calls \ {c} :
            call'[d] = call[d] /\ stage'[d] = stage[d] /\ counted'[d] = counted[d]
    BY <1>0 DEF Leave, Advance
<1>2. /\ Settlements' = Settlements /\ Refunds' = Refunds
      /\ c \notin Settlements /\ c \notin Refunds
      /\ Settlements \subseteq Calls /\ Refunds \subseteq Calls
    BY <1>0, <1>1 DEF Settlements, Refunds, Ledger
<1>3. \A s \in Calls : Holding(s)' \subseteq Holding(s)
    BY <1>0, <1>1 DEF Holding
<1>4. ShiftTypeOK'
  <2>1. Idle \in CallRow BY MaxTimeIsNat DEF Idle, CallRow, Times
  <2>2. call' \in [Calls -> CallRow] BY <2>1, <1>0 DEF Leave
  <2>3. stage' \in [Calls -> Stages] BY <1>0 DEF Leave, Advance, Stages
  <2>4. counted' \in [Calls -> SUBSET Calls] BY <1>0 DEF Leave
  <2>5. \A s \in Calls : Holding(s)' # {} => shift'[s].status = "OPEN"
      BY <1>3 DEF IInv, ShiftTypeOK
  <2>6. QED BY <1>0, <2>2, <2>3, <2>4, <2>5 DEF ShiftTypeOK, CallRow, Stages, ShiftRow
<1>5. NothingIsAhead'
    BY <1>0, <1>1, MaxTimeIsNat DEF IInv, NothingIsAhead, Idle, Times
<1>6. RowsAreFinal' BY <1>1 DEF IInv, RowsAreFinal
<1>7. RequestsAreSound' BY <1>1, <1>2 DEF IInv, RequestsAreSound, Idle
<1>8. OneHolder' BY <1>3 DEF IInv, OneHolder
<1>9. CountIsRight'
  <2> SUFFICES ASSUME NEW d \in Calls, stage'[d] = "counted"
               PROVE  /\ counted'[d] \subseteq PaymentsIn(shift[call[d].of].cashier,
                                                  shift[call[d].of].opened, call[d].at)'
                      /\ \A p \in Settlements' :
                            (/\ call'[p].who = shift'[call'[d].of].cashier
                             /\ call'[p].at >= shift'[call'[d].of].opened
                             /\ committed'[p] < call'[d].at) => p \in counted'[d]
      BY DEF CountIsRight
  <2>1. d # c BY <1>1
  <2>2. \A p \in Settlements : call'[p] = call[p] BY <1>1, <1>2
  <2>3. QED BY <1>1, <1>2, <2>1, <2>2 DEF IInv, CountIsRight, PaymentsIn
<1>10. OneOpenShift' /\ OneShiftPerKey' BY DEF IInv, OneOpenShift, OneShiftPerKey
<1>11. SnapshotInWindow' /\ SettledMoneyIsCounted'
  <2>1. \A p \in Settlements \cup Refunds : call'[p] = call[p] BY <1>1, <1>2
  <2>2. \A r \in Refunds : call[r].of \in Settlements
      BY <1>2 DEF IInv, RequestsAreSound, Refunds, Ledger
  <2>3. \A s \in Calls : WindowPayments(s)' = WindowPayments(s)
                           /\ WindowRefunds(s)' = WindowRefunds(s)
      BY <1>2, <2>1, <2>2 DEF WindowPayments, WindowRefunds
  <2>4. QED BY <1>2, <2>1, <2>3 DEF IInv, SnapshotInWindow, SettledMoneyIsCounted, Closed
<1>12. QED BY <1>4, <1>5, <1>6, <1>7, <1>8, <1>9, <1>10, <1>11 DEF IInv

\* A request that goes on with what it read: to the insert, to the lock, or into it.
LEMMA AdvanceStep ==
    ASSUME IInv, NEW c \in Calls, stage[c] \in {"begun", "found"},
           NEW to \in {"clear", "found", "locked"}, Advance(c, to),
           to # "clear" => call[c].op = "close",
           to = "locked" => Holding(call[c].of) = {} /\ shift[call[c].of].status = "OPEN",
           UNCHANGED <<clock, call, counted, committed, shift>>
    PROVE  IInv'
<1>0. /\ stage \in [Calls -> Stages] /\ stage' \in [Calls -> Stages]
      /\ stage'[c] = to /\ \A d \in Calls \ {c} : stage'[d] = stage[d]
    BY DEF IInv, ShiftTypeOK, Stages, Advance
<1>1. \A s \in Calls :
         /\ Holding(s)' \subseteq Holding(s) \cup {c}
         /\ c \in Holding(s)' => to = "locked" /\ s = call[c].of
    BY <1>0 DEF Holding
<1>2. ShiftTypeOK'
  <2>1. \A s \in Calls : Holding(s)' # {} => shift'[s].status = "OPEN"
      BY <1>1 DEF IInv, ShiftTypeOK
  <2>2. QED BY <1>0, <2>1 DEF IInv, ShiftTypeOK, Stages
<1>3. NothingIsAhead' BY DEF IInv, NothingIsAhead
<1>4. RowsAreFinal' BY <1>0 DEF IInv, RowsAreFinal
<1>5. RequestsAreSound' BY <1>0 DEF IInv, RequestsAreSound, Settlements, Ledger
<1>6. OneHolder'
  <2> SUFFICES ASSUME NEW s \in Calls, NEW d \in Holding(s)', NEW e \in Holding(s)'
               PROVE  d = e
      BY DEF OneHolder
  <2>1. CASE c \in Holding(s)' BY <2>1, <1>1
  <2>2. CASE c \notin Holding(s)' BY <2>2, <1>1 DEF IInv, OneHolder
  <2>3. QED BY <2>1, <2>2
<1>7. CountIsRight'
  <2>1. \A d \in Calls : stage'[d] = "counted" => stage[d] = "counted" BY <1>0
  <2>2. QED BY <2>1 DEF IInv, CountIsRight, PaymentsIn, Settlements, Ledger
<1>8. OneOpenShift' /\ OneShiftPerKey' BY DEF IInv, OneOpenShift, OneShiftPerKey
<1>9. SnapshotInWindow' /\ SettledMoneyIsCounted'
    BY DEF IInv, SnapshotInWindow, SettledMoneyIsCounted, Closed, WindowPayments,
           WindowRefunds, Settlements, Refunds, Ledger
<1>10. QED BY <1>2, <1>3, <1>4, <1>5, <1>6, <1>7, <1>8, <1>9 DEF IInv

\* A new request: nothing it says is in a row yet.
LEMMA BeginStep ==
    ASSUME IInv, NEW c \in Calls,
           NEW op \in {"open", "close", "collect", "refund"}, NEW who \in Staff,
           NEW of \in Calls \cup {None}, NEW key \in Keys \cup {None},
           op = "close" => of \in Calls /\ shift[of].status # "ABSENT",
           op = "refund" => of \in Settlements,
           Begin(c, op, who, of, key)
    PROVE  IInv'
<1> DEFINE row == [op |-> op, who |-> who, of |-> of, key |-> key, at |-> clock]
<1>0. /\ call \in [Calls -> CallRow] /\ stage \in [Calls -> Stages] /\ clock \in Times
      /\ committed[c] = None /\ shift[c].status = "ABSENT" /\ stage[c] = "idle"
      /\ call' = [call EXCEPT ![c] = row] /\ stage' = [stage EXCEPT ![c] = "begun"]
      /\ UNCHANGED <<clock, counted, committed, shift>>
    BY DEF IInv, ShiftTypeOK, RowsAreFinal, CallRow, Stages, Begin, Advance
<1>1. /\ call'[c] = row /\ stage'[c] = "begun"
      /\ \A d \in Calls \ {c} : call'[d] = call[d] /\ stage'[d] = stage[d]
    BY <1>0
<1>2. /\ Settlements' = Settlements /\ Refunds' = Refunds
      /\ c \notin Settlements /\ c \notin Refunds
      /\ Settlements \subseteq Calls /\ Refunds \subseteq Calls
    BY <1>0, <1>1 DEF Settlements, Refunds, Ledger
<1>3. \A s \in Calls : Holding(s)' = Holding(s) BY <1>0, <1>1 DEF Holding
<1>4. ShiftTypeOK'
  <2>1. call' \in [Calls -> CallRow]
    <3>1. row \in CallRow BY <1>0 DEF CallRow
    <3>2. QED BY <3>1, <1>0
  <2>2. stage' \in [Calls -> Stages] BY <1>0 DEF Stages
  <2>3. \A s \in Calls : Holding(s)' # {} => shift'[s].status = "OPEN"
      BY <1>0, <1>3 DEF IInv, ShiftTypeOK
  <2>4. QED BY <1>0, <2>1, <2>2, <2>3 DEF IInv, ShiftTypeOK, CallRow, Stages
<1>5. NothingIsAhead'
    BY <1>0, <1>1, MaxTimeIsNat DEF IInv, NothingIsAhead, Times
<1>6. RowsAreFinal' BY <1>0, <1>1 DEF IInv, RowsAreFinal
<1>7. RequestsAreSound'
  <2> SUFFICES ASSUME NEW d \in Calls
               PROVE  /\ call'[d].op = "close" =>
                            call'[d].of \in Calls /\ shift'[call'[d].of].status # "ABSENT"
                      /\ call'[d].op = "refund" => call'[d].of \in Settlements'
                      /\ stage'[d] \in {"found", "locked", "counted"}
                            => call'[d].op = "close"
      BY DEF RequestsAreSound
  <2>1. CASE d = c BY <2>1, <1>0, <1>1, <1>2
  <2>2. CASE d # c BY <2>2, <1>0, <1>1, <1>2 DEF IInv, RequestsAreSound
  <2>3. QED BY <2>1, <2>2
<1>8. OneHolder' BY <1>3 DEF IInv, OneHolder
<1>9. CountIsRight'
  <2>1. \A p \in Settlements : call'[p] = call[p] BY <1>1, <1>2
  <2>2. \A d \in Calls : stage'[d] = "counted" => d # c BY <1>1
  <2>3. QED BY <1>0, <1>1, <1>2, <2>1, <2>2 DEF IInv, CountIsRight, PaymentsIn
<1>10. OneOpenShift' /\ OneShiftPerKey' BY <1>0 DEF IInv, OneOpenShift, OneShiftPerKey
<1>11. SnapshotInWindow' /\ SettledMoneyIsCounted'
  <2>1. \A p \in Settlements \cup Refunds : call'[p] = call[p] BY <1>1, <1>2
  <2>2. \A r \in Refunds : call[r].of \in Settlements
      BY <1>2 DEF IInv, RequestsAreSound, Refunds, Ledger
  <2>3. \A s \in Calls : WindowPayments(s)' = WindowPayments(s)
                           /\ WindowRefunds(s)' = WindowRefunds(s)
      BY <1>0, <1>2, <2>1, <2>2 DEF WindowPayments, WindowRefunds
  <2>4. QED BY <1>0, <1>2, <2>1, <2>3
            DEF IInv, SnapshotInWindow, SettledMoneyIsCounted, Closed
<1>12. QED BY <1>4, <1>5, <1>6, <1>7, <1>8, <1>9, <1>10, <1>11 DEF IInv

\* Money becomes visible: too late for every close that has begun to be owed it.
LEMMA CommitMoneyStep ==
    ASSUME IInv, NEW c \in Calls, CommitMoney(c)
    PROVE  IInv'
<1>0. /\ stage \in [Calls -> Stages] /\ stage[c] = "begun" /\ committed[c] = None
      /\ call[c].op \in {"collect", "refund"}
      /\ committed \in [Calls -> Times \cup {None}] /\ clock \in Times
      /\ stage' = [stage EXCEPT ![c] = "done"]
      /\ committed' = [committed EXCEPT ![c] = clock]
      /\ UNCHANGED <<clock, call, counted, shift>>
    BY DEF IInv, ShiftTypeOK, RowsAreFinal, Stages, CommitMoney, Advance
<1>1. /\ stage'[c] = "done" /\ committed'[c] = clock /\ clock # None
      /\ \A d \in Calls \ {c} : stage'[d] = stage[d] /\ committed'[d] = committed[d]
    BY <1>0, NoneIsNoCall DEF Times
<1>2. /\ Settlements \subseteq Settlements' /\ Refunds \subseteq Refunds'
      /\ Settlements' \subseteq Settlements \cup {c}
      /\ c \notin Settlements /\ Settlements' \subseteq Calls
    BY <1>0, <1>1 DEF Settlements, Refunds, Ledger
<1>3. \A s \in Calls : Holding(s)' = Holding(s) BY <1>0, <1>1 DEF Holding
<1>4. ShiftTypeOK'
  <2>1. stage' \in [Calls -> Stages] BY <1>0 DEF Stages
  <2>2. committed' \in [Calls -> Times \cup {None}] BY <1>0
  <2>3. \A s \in Calls : Holding(s)' # {} => shift'[s].status = "OPEN"
      BY <1>0, <1>3 DEF IInv, ShiftTypeOK
  <2>4. QED BY <1>0, <2>1, <2>2, <2>3 DEF IInv, ShiftTypeOK, Stages
<1>5. NothingIsAhead'
    BY <1>0, <1>1, MaxTimeIsNat DEF IInv, NothingIsAhead, Times
<1>6. RowsAreFinal' BY <1>0, <1>1 DEF IInv, RowsAreFinal
<1>7. RequestsAreSound' BY <1>0, <1>1, <1>2 DEF IInv, RequestsAreSound
<1>8. OneHolder' BY <1>3 DEF IInv, OneHolder
<1>9. CountIsRight'
  <2> SUFFICES ASSUME NEW d \in Calls, stage'[d] = "counted"
               PROVE  /\ counted[d] \subseteq PaymentsIn(shift[call[d].of].cashier,
                                                  shift[call[d].of].opened, call[d].at)'
                      /\ \A p \in Settlements' :
                            (/\ call[p].who = shift[call[d].of].cashier
                             /\ call[p].at >= shift[call[d].of].opened
                             /\ committed'[p] < call[d].at) => p \in counted[d]
      BY <1>0 DEF CountIsRight
  <2>1. d # c /\ stage[d] = "counted" BY <1>1
  <2>2. counted[d] \subseteq PaymentsIn(shift[call[d].of].cashier,
                                shift[call[d].of].opened, call[d].at)'
      BY <1>0, <1>2, <2>1 DEF IInv, CountIsRight, PaymentsIn
  <2>3. ~(committed'[c] < call[d].at)
    <3>1. call[d].at <= clock /\ call[d].at \in Nat /\ clock \in Nat
        BY <1>0 DEF IInv, ShiftTypeOK, NothingIsAhead, Times
    <3>2. QED BY <3>1, <1>1
  <2>4. QED BY <1>1, <1>2, <2>1, <2>2, <2>3 DEF IInv, CountIsRight
<1>10. OneOpenShift' /\ OneShiftPerKey' BY <1>0 DEF IInv, OneOpenShift, OneShiftPerKey
<1>11. SnapshotInWindow'
    BY <1>0, <1>2 DEF IInv, SnapshotInWindow, Closed, WindowPayments, WindowRefunds
<1>12. SettledMoneyIsCounted'
  <2>1. \A s \in Closed : ~(committed'[c] < shift[s].began)
    <3> TAKE s \in Closed
    <3>1. shift[s].began <= clock /\ shift[s].began \in Nat /\ clock \in Nat
        BY <1>0 DEF IInv, ShiftTypeOK, NothingIsAhead, Times, Closed
    <3>2. QED BY <3>1, <1>1
  <2>2. QED BY <1>0, <1>1, <1>2, <2>1 DEF IInv, SettledMoneyIsCounted, Closed
<1>13. QED BY <1>4, <1>5, <1>6, <1>7, <1>8, <1>9, <1>10, <1>11, <1>12 DEF IInv

\* The new row is the only one of its key and the only open one of its cashier.
LEMMA InsertShiftStep ==
    ASSUME IInv, NEW c \in Calls, InsertShift(c)
    PROVE  IInv'
<1>1. CASE ~IndexesAllow(c) BY <1>1, LeaveStep DEF InsertShift
<1>2. CASE IndexesAllow(c)
  <2>0. /\ call \in [Calls -> CallRow] /\ stage \in [Calls -> Stages]
        /\ counted \in [Calls -> SUBSET Calls] /\ committed[c] = None
        /\ committed \in [Calls -> Times \cup {None}] /\ shift \in [Calls -> ShiftRow]
        /\ stage[c] = "clear" /\ shift[c].status = "ABSENT"
        /\ shift' = [shift EXCEPT ![c] = NewShift(c)]
        /\ Leave(c) /\ UNCHANGED <<clock, committed>>
      BY <1>2 DEF IInv, ShiftTypeOK, RowsAreFinal, CallRow, Stages, ShiftRow, InsertShift
  <2>1. /\ call'[c] = Idle /\ stage'[c] = "done" /\ shift'[c] = NewShift(c)
        /\ \A d \in Calls \ {c} :
              /\ call'[d] = call[d] /\ stage'[d] = stage[d] /\ counted'[d] = counted[d]
              /\ shift'[d] = shift[d]
      BY <2>0 DEF Leave, Advance
  <2>2. /\ Settlements' = Settlements /\ Refunds' = Refunds
        /\ c \notin Settlements /\ c \notin Refunds
        /\ Settlements \subseteq Calls /\ Refunds \subseteq Calls
      BY <2>0, <2>1 DEF Settlements, Refunds, Ledger
  <2>3. \A s \in Calls : Holding(s)' \subseteq Holding(s) BY <2>0, <2>1 DEF Holding
  <2>4. \A d \in Calls : Holding(d) # {} => d # c BY <2>0 DEF IInv, ShiftTypeOK
  <2>5. ShiftTypeOK'
    <3>1. Idle \in CallRow BY MaxTimeIsNat DEF Idle, CallRow, Times
    <3>2. NewShift(c) \in ShiftRow BY <2>0, MaxTimeIsNat DEF CallRow, ShiftRow, Times, NewShift
    <3>3. call' \in [Calls -> CallRow] BY <3>1, <2>0 DEF Leave
    <3>4. stage' \in [Calls -> Stages] BY <2>0 DEF Leave, Advance, Stages
    <3>5. counted' \in [Calls -> SUBSET Calls] BY <2>0 DEF Leave
    <3>6. shift' \in [Calls -> ShiftRow] BY <3>2, <2>0
    <3>7. \A s \in Calls : Holding(s)' # {} => shift'[s].status = "OPEN"
        BY <2>1, <2>3, <2>4 DEF IInv, ShiftTypeOK
    <3>8. QED BY <2>0, <3>3, <3>4, <3>5, <3>6, <3>7
              DEF IInv, ShiftTypeOK, CallRow, Stages, ShiftRow
  <2>6. NothingIsAhead'
    <3>1. clock \in Nat BY MaxTimeIsNat DEF IInv, ShiftTypeOK, Times
    <3>2. QED BY <3>1, <2>0, <2>1 DEF IInv, NothingIsAhead, Idle, NewShift
  <2>7. RowsAreFinal' BY <2>0, <2>1 DEF IInv, RowsAreFinal
  <2>8. RequestsAreSound'
    <3> SUFFICES ASSUME NEW d \in Calls
                 PROVE  /\ call'[d].op = "close" =>
                              call'[d].of \in Calls /\ shift'[call'[d].of].status # "ABSENT"
                        /\ call'[d].op = "refund" => call'[d].of \in Settlements'
                        /\ stage'[d] \in {"found", "locked", "counted"}
                              => call'[d].op = "close"
        BY DEF RequestsAreSound
    <3>1. CASE d = c BY <3>1, <2>1 DEF Idle
    <3>2. CASE d # c
      <4>1. /\ call[d].op = "close" =>
                  call[d].of \in Calls /\ shift[call[d].of].status # "ABSENT"
            /\ call[d].op = "refund" => call[d].of \in Settlements
            /\ stage[d] \in {"found", "locked", "counted"} => call[d].op = "close"
          BY DEF IInv, RequestsAreSound
      <4>2. QED BY <3>2, <4>1, <2>0, <2>1, <2>2
    <3>3. QED BY <3>1, <3>2
  <2>9. OneHolder' BY <2>3 DEF IInv, OneHolder
  <2>10. CountIsRight'
    <3> SUFFICES ASSUME NEW d \in Calls, stage'[d] = "counted"
                 PROVE  /\ counted'[d] \subseteq PaymentsIn(shift[call[d].of].cashier,
                                                  shift[call[d].of].opened, call[d].at)'
                        /\ \A p \in Settlements' :
                              (/\ call'[p].who = shift'[call'[d].of].cashier
                               /\ call'[p].at >= shift'[call'[d].of].opened
                               /\ committed'[p] < call'[d].at) => p \in counted'[d]
        BY DEF CountIsRight
    <3>1. d # c /\ call'[d] = call[d] /\ stage[d] = "counted" BY <2>1
    <3>2. call[d].of \in Calls /\ call[d].of # c
        BY <3>1, <2>0 DEF IInv, RequestsAreSound
    <3>3. shift'[call[d].of] = shift[call[d].of] BY <3>2, <2>1
    <3>4. \A p \in Settlements : call'[p] = call[p] BY <2>1, <2>2
    <3>5. QED BY <2>0, <2>1, <2>2, <3>1, <3>3, <3>4 DEF IInv, CountIsRight, PaymentsIn
  <2>11. OneOpenShift' /\ OneShiftPerKey'
    <3>1. \A s \in Calls \ {c} :
             /\ shift[s].status # "ABSENT" => shift[s].key # call[c].key
             /\ shift[s].status = "OPEN" => shift[s].cashier # call[c].who
        BY <1>2 DEF IndexesAllow, OpenedWith, OpenShifts
    <3>2. QED BY <3>1, <2>1 DEF IInv, OneOpenShift, OneShiftPerKey, NewShift
  <2>12. SnapshotInWindow' /\ SettledMoneyIsCounted'
    <3>1. \A p \in Settlements \cup Refunds : call'[p] = call[p] BY <2>1, <2>2
    <3>2. \A r \in Refunds : call[r].of \in Settlements
        BY <2>2 DEF IInv, RequestsAreSound, Refunds, Ledger
    <3>3. \A s \in Closed' : s \in Closed /\ s # c /\ shift'[s] = shift[s]
        BY <2>1 DEF Closed, NewShift
    <3>4. \A s \in Closed' : WindowPayments(s)' = WindowPayments(s)
                               /\ WindowRefunds(s)' = WindowRefunds(s)
        BY <2>2, <3>1, <3>2, <3>3 DEF WindowPayments, WindowRefunds
    <3>5. QED BY <2>0, <2>2, <3>1, <3>3, <3>4
              DEF IInv, SnapshotInWindow, SettledMoneyIsCounted
  <2>13. QED BY <2>5, <2>6, <2>7, <2>8, <2>9, <2>10, <2>11, <2>12 DEF IInv
<1>3. QED BY <1>1, <1>2

\* The sum over the settlements that are visible now.
LEMMA CountPaymentsStep ==
    ASSUME IInv, NEW c \in Calls, CountPayments(c)
    PROVE  IInv'
<1> DEFINE s == shift[call[c].of]
<1>0. /\ stage \in [Calls -> Stages] /\ counted \in [Calls -> SUBSET Calls]
      /\ stage[c] = "locked" /\ call[c].op = "close"
      /\ stage' = [stage EXCEPT ![c] = "counted"]
      /\ counted' = [counted EXCEPT ![c] = PaymentsIn(s.cashier, s.opened, call[c].at)]
      /\ UNCHANGED <<clock, call, committed, shift>>
    BY DEF IInv, ShiftTypeOK, Stages, CountPayments, Advance, ClosedAt
<1>1. /\ stage'[c] = "counted"
      /\ counted'[c] = PaymentsIn(s.cashier, s.opened, call[c].at)
      /\ \A d \in Calls \ {c} : stage'[d] = stage[d] /\ counted'[d] = counted[d]
    BY <1>0
<1>2. Settlements' = Settlements /\ Refunds' = Refunds
    BY <1>0 DEF Settlements, Refunds, Ledger
<1>3. \A t \in Calls : Holding(t)' = Holding(t) BY <1>0, <1>1 DEF Holding
<1>4. ShiftTypeOK'
  <2>1. stage' \in [Calls -> Stages] BY <1>0 DEF Stages
  <2>2. PaymentsIn(s.cashier, s.opened, call[c].at) \subseteq Calls
      BY DEF PaymentsIn, Settlements, Ledger
  <2>3. counted' \in [Calls -> SUBSET Calls] BY <1>0, <2>2
  <2>4. \A t \in Calls : Holding(t)' # {} => shift'[t].status = "OPEN"
      BY <1>0, <1>3 DEF IInv, ShiftTypeOK
  <2>5. QED BY <1>0, <2>1, <2>3, <2>4 DEF IInv, ShiftTypeOK, Stages
<1>5. NothingIsAhead' BY <1>0 DEF IInv, NothingIsAhead
<1>6. RowsAreFinal' BY <1>0, <1>1 DEF IInv, RowsAreFinal
<1>7. RequestsAreSound' BY <1>0, <1>1, <1>2 DEF IInv, RequestsAreSound
<1>8. OneHolder' BY <1>3 DEF IInv, OneHolder
<1>9. CountIsRight'
  <2>1. \A d \in Calls \ {c} : stage'[d] = "counted" =>
           /\ counted'[d] \subseteq PaymentsIn(shift[call[d].of].cashier,
                                        shift[call[d].of].opened, call[d].at)
           /\ \A p \in Settlements :
                 (/\ call[p].who = shift[call[d].of].cashier
                  /\ call[p].at >= shift[call[d].of].opened
                  /\ committed[p] < call[d].at) => p \in counted'[d]
      BY <1>1 DEF IInv, CountIsRight
  <2>2. \A p \in Settlements :
           (/\ call[p].who = s.cashier /\ call[p].at >= s.opened
            /\ committed[p] < call[c].at) => p \in counted'[c]
    <3> SUFFICES ASSUME NEW p \in Settlements, call[p].who = s.cashier,
                        call[p].at >= s.opened, committed[p] < call[c].at
                 PROVE  call[p].at < call[c].at
        BY <1>1 DEF PaymentsIn
    <3>1. /\ p \in Calls /\ committed[p] # None
          /\ call[p].at \in Nat /\ call[c].at \in Nat /\ committed[p] \in Nat
        BY DEF IInv, ShiftTypeOK, Times, Settlements, Ledger
    <3>2. call[p].at <= committed[p] BY <3>1 DEF IInv, NothingIsAhead
    <3>3. QED BY <3>1, <3>2
  <2>3. QED BY <1>0, <1>1, <1>2, <2>1, <2>2 DEF CountIsRight, PaymentsIn
<1>10. OneOpenShift' /\ OneShiftPerKey' BY <1>0 DEF IInv, OneOpenShift, OneShiftPerKey
<1>11. SnapshotInWindow' /\ SettledMoneyIsCounted'
    BY <1>0, <1>2 DEF IInv, SnapshotInWindow, SettledMoneyIsCounted, Closed,
                      WindowPayments, WindowRefunds
<1>12. QED BY <1>4, <1>5, <1>6, <1>7, <1>8, <1>9, <1>10, <1>11 DEF IInv

\* The snapshot: what was counted, and the refunds that are visible now.
LEMMA CloseShiftStep ==
    ASSUME IInv, NEW c \in Calls, NEW o \in Calls, o = call[c].of, CloseShift(c)
    PROVE  IInv'
<1> DEFINE s == shift[o]
<1>0. /\ call \in [Calls -> CallRow] /\ stage \in [Calls -> Stages]
      /\ counted \in [Calls -> SUBSET Calls] /\ committed[c] = None
      /\ shift \in [Calls -> ShiftRow] /\ stage[c] = "counted" /\ call[c].op = "close"
      /\ s.status = "OPEN" /\ Holding(o) = {c} /\ o # c
      /\ shift' = [shift EXCEPT ![o] = [s EXCEPT
                      !.status = "CLOSED", !.closed = call[c].at, !.began = call[c].at,
                      !.paid = counted[c],
                      !.refunded = RefundsIn(s.cashier, s.opened, call[c].at)]]
      /\ Leave(c) /\ UNCHANGED <<clock, committed>>
  <2>1. stage[c] = "counted" /\ call[c].op = "close" BY DEF CloseShift
  <2>3. c \in Holding(o) BY <2>1 DEF Holding
  <2>4. Holding(o) = {c} BY <2>3 DEF IInv, OneHolder
  <2>5. s.status = "OPEN" BY <2>3 DEF IInv, ShiftTypeOK
  <2>6. o # c BY <2>1, <2>5 DEF IInv, RowsAreFinal
  <2>7. committed[c] = None BY <2>1 DEF IInv, RowsAreFinal
  <2>8. QED BY <2>1, <2>4, <2>5, <2>6, <2>7
            DEF IInv, ShiftTypeOK, CallRow, Stages, ShiftRow, CloseShift, ClosedAt
<1>1. /\ call'[c] = Idle /\ stage'[c] = "done"
      /\ \A d \in Calls \ {c} :
            call'[d] = call[d] /\ stage'[d] = stage[d] /\ counted'[d] = counted[d]
      /\ \A t \in Calls \ {o} : shift'[t] = shift[t]
    BY <1>0 DEF Leave, Advance
<1>2. /\ shift'[o].status = "CLOSED" /\ shift'[o].cashier = s.cashier
      /\ shift'[o].key = s.key /\ shift'[o].opened = s.opened
      /\ shift'[o].closed = call[c].at /\ shift'[o].began = call[c].at
      /\ shift'[o].paid = counted[c]
      /\ shift'[o].refunded = RefundsIn(s.cashier, s.opened, call[c].at)
    BY <1>0 DEF ShiftRow
<1>3. /\ Settlements' = Settlements /\ Refunds' = Refunds
      /\ c \notin Settlements /\ c \notin Refunds
      /\ Settlements \subseteq Calls /\ Refunds \subseteq Calls
    BY <1>0, <1>1 DEF Settlements, Refunds, Ledger
<1>4. /\ \A t \in Calls : Holding(t)' \subseteq Holding(t) /\ c \notin Holding(t)'
      /\ Holding(o)' = {}
  <2>1. \A t \in Calls : Holding(t)' \subseteq Holding(t) /\ c \notin Holding(t)'
      BY <1>0, <1>1 DEF Holding
  <2>2. QED BY <1>0, <2>1
<1>5. ShiftTypeOK'
  <2>1. Idle \in CallRow BY MaxTimeIsNat DEF Idle, CallRow, Times
  <2>2. call' \in [Calls -> CallRow] BY <2>1, <1>0 DEF Leave
  <2>3. stage' \in [Calls -> Stages] BY <1>0 DEF Leave, Advance, Stages
  <2>4. counted' \in [Calls -> SUBSET Calls] BY <1>0 DEF Leave
  <2>5. call[c].at \in Times /\ counted[c] \subseteq Calls
        /\ RefundsIn(s.cashier, s.opened, call[c].at) \subseteq Calls
      BY <1>0, <1>3 DEF CallRow, RefundsIn
  <2>6. shift' \in [Calls -> ShiftRow]
    <3> DEFINE new == [s EXCEPT
                          !.status = "CLOSED", !.closed = call[c].at, !.began = call[c].at,
                          !.paid = counted[c],
                          !.refunded = RefundsIn(s.cashier, s.opened, call[c].at)]
    <3>1. s \in ShiftRow BY <1>0
    <3>2. new \in ShiftRow BY <3>1, <2>5 DEF ShiftRow
    <3>3. shift' = [shift EXCEPT ![o] = new] BY <1>0
    <3> HIDE DEF new
    <3>4. QED BY <3>2, <3>3, <1>0
  <2>7. \A t \in Calls : Holding(t)' # {} => shift'[t].status = "OPEN"
    <3>1. \A t \in Calls : Holding(t) # {} => shift[t].status = "OPEN"
        BY DEF IInv, ShiftTypeOK
    <3>2. QED BY <3>1, <1>1, <1>4
  <2>8. QED BY <1>0, <2>2, <2>3, <2>4, <2>6, <2>7
            DEF IInv, ShiftTypeOK, CallRow, Stages, ShiftRow
<1>6. NothingIsAhead'
  <2>1. clock \in Nat /\ call[c].at <= clock
      BY MaxTimeIsNat DEF IInv, ShiftTypeOK, NothingIsAhead, Times
  <2>2. \A d \in Calls : call'[d].at <= clock
      BY <2>1, <1>1 DEF IInv, NothingIsAhead, Idle
  <2>3. \A d \in Calls : committed[d] # None => call'[d] = call[d] BY <1>0, <1>1
  <2>4. \A t \in Calls : shift'[t].status = "CLOSED" =>
           shift'[t].began <= clock /\ shift'[t].closed = shift'[t].began
      BY <2>1, <1>1, <1>2 DEF IInv, NothingIsAhead
  <2>5. QED BY <1>0, <2>2, <2>3, <2>4 DEF IInv, NothingIsAhead
<1>7. RowsAreFinal' BY <1>0, <1>1, <1>2 DEF IInv, RowsAreFinal
<1>8. RequestsAreSound'
  <2> SUFFICES ASSUME NEW d \in Calls
               PROVE  /\ call'[d].op = "close" =>
                            call'[d].of \in Calls /\ shift'[call'[d].of].status # "ABSENT"
                      /\ call'[d].op = "refund" => call'[d].of \in Settlements'
                      /\ stage'[d] \in {"found", "locked", "counted"}
                            => call'[d].op = "close"
      BY DEF RequestsAreSound
  <2>1. CASE d = c BY <2>1, <1>1 DEF Idle
  <2>2. CASE d # c
    <3>1. /\ call[d].op = "close" =>
                call[d].of \in Calls /\ shift[call[d].of].status # "ABSENT"
          /\ call[d].op = "refund" => call[d].of \in Settlements
          /\ stage[d] \in {"found", "locked", "counted"} => call[d].op = "close"
        BY DEF IInv, RequestsAreSound
    <3>2. QED BY <2>2, <3>1, <1>1, <1>2, <1>3
  <2>3. QED BY <2>1, <2>2
<1>9. OneHolder' BY <1>4 DEF IInv, OneHolder
<1>10. CountIsRight'
  <2> SUFFICES ASSUME NEW d \in Calls, stage'[d] = "counted"
               PROVE  /\ counted'[d] \subseteq PaymentsIn(shift[call[d].of].cashier,
                                                  shift[call[d].of].opened, call[d].at)'
                      /\ \A p \in Settlements' :
                            (/\ call'[p].who = shift'[call'[d].of].cashier
                             /\ call'[p].at >= shift'[call'[d].of].opened
                             /\ committed'[p] < call'[d].at) => p \in counted'[d]
      BY DEF CountIsRight
  <2>1. d # c /\ call'[d] = call[d] /\ stage[d] = "counted" BY <1>1
  <2>2. call[d].op = "close" /\ call[d].of \in Calls
      BY <2>1 DEF IInv, RequestsAreSound
  <2>3. d \in Holding(call[d].of) BY <2>1, <2>2 DEF Holding
  <2>4. call[d].of # o BY <2>1, <2>3, <1>0
  <2>5. shift'[call[d].of] = shift[call[d].of] BY <2>2, <2>4, <1>1
  <2>6. \A p \in Settlements : call'[p] = call[p] BY <1>1, <1>3
  <2>7. QED BY <1>0, <1>1, <1>3, <2>1, <2>5, <2>6 DEF IInv, CountIsRight, PaymentsIn
<1>11. OneOpenShift' /\ OneShiftPerKey'
  <2>1. \A t \in Calls : /\ shift'[t].key = shift[t].key
                         /\ shift'[t].cashier = shift[t].cashier
                         /\ shift'[t].status = "OPEN" => shift[t].status = "OPEN"
                         /\ shift'[t].status # "ABSENT" => shift[t].status # "ABSENT"
      BY <1>0, <1>1, <1>2
  <2>2. QED BY <2>1 DEF IInv, OneOpenShift, OneShiftPerKey
<1>12. SnapshotInWindow' /\ SettledMoneyIsCounted'
  <2>1. \A p \in Settlements \cup Refunds : call'[p] = call[p] BY <1>1, <1>3
  <2>2. \A r \in Refunds : call[r].of \in Settlements
      BY <1>3 DEF IInv, RequestsAreSound, Refunds, Ledger
  <2>3. \A t \in Closed' \ {o} : t \in Closed /\ shift'[t] = shift[t]
      BY <1>1 DEF Closed
  <2>4. \A t \in Closed' \ {o} : WindowPayments(t)' = WindowPayments(t)
                                   /\ WindowRefunds(t)' = WindowRefunds(t)
      BY <1>3, <2>1, <2>2, <2>3 DEF WindowPayments, WindowRefunds
  <2>5. WindowPayments(o)' = PaymentsIn(s.cashier, s.opened, call[c].at)
      BY <1>2, <1>3, <2>1 DEF WindowPayments, PaymentsIn
  <2>6. WindowRefunds(o)' = RefundsIn(s.cashier, s.opened, call[c].at)
      BY <1>2, <1>3, <2>1, <2>2 DEF WindowRefunds, RefundsIn
  <2>7. /\ counted[c] \subseteq PaymentsIn(s.cashier, s.opened, call[c].at)
        /\ \A p \in Settlements :
              (/\ call[p].who = s.cashier /\ call[p].at >= s.opened
               /\ committed[p] < call[c].at) => p \in counted[c]
      BY <1>0 DEF IInv, CountIsRight
  <2>8. SnapshotInWindow'
      BY <1>2, <2>3, <2>4, <2>5, <2>6, <2>7 DEF IInv, SnapshotInWindow
  <2>9. SettledMoneyIsCounted'
    <3> SUFFICES ASSUME NEW t \in Closed', NEW p \in Settlements',
                        call'[p].who = shift'[t].cashier, call'[p].at >= shift'[t].opened,
                        committed'[p] < shift'[t].began
                 PROVE  p \in shift'[t].paid
        BY DEF SettledMoneyIsCounted
    <3>1. call'[p] = call[p] /\ committed'[p] = committed[p] /\ p \in Settlements
        BY <1>0, <1>3, <2>1
    <3>2. CASE t = o BY <3>1, <3>2, <1>2, <2>7
    <3>3. CASE t # o BY <3>1, <3>3, <2>3 DEF IInv, SettledMoneyIsCounted
    <3>4. QED BY <3>2, <3>3
  <2>10. QED BY <2>8, <2>9
<1>13. QED BY <1>5, <1>6, <1>7, <1>8, <1>9, <1>10, <1>11, <1>12 DEF IInv

\* Time passes.
LEMMA TickStep ==
    ASSUME IInv, Tick
    PROVE  IInv'
<1>0. /\ clock \in Nat /\ clock' = clock + 1 /\ clock' \in Times
      /\ UNCHANGED <<call, stage, counted, committed, shift>>
    BY MaxTimeIsNat DEF IInv, ShiftTypeOK, Times, Tick
<1>1. ShiftTypeOK' BY <1>0 DEF IInv, ShiftTypeOK, Holding
<1>2. NothingIsAhead'
  <2> SUFFICES ASSUME NEW c \in Calls
               PROVE  /\ call[c].at <= clock'
                      /\ committed[c] # None =>
                            call[c].at <= committed[c] /\ committed[c] <= clock'
                      /\ shift[c].status = "CLOSED" =>
                            shift[c].began <= clock' /\ shift[c].closed = shift[c].began
      BY <1>0 DEF NothingIsAhead
  <2>1. /\ call[c].at \in Nat /\ shift[c].began \in Nat
        /\ committed[c] # None => committed[c] \in Nat
      BY DEF IInv, ShiftTypeOK, Times
  <2>2. /\ call[c].at <= clock
        /\ committed[c] # None => call[c].at <= committed[c] /\ committed[c] <= clock
        /\ shift[c].status = "CLOSED" => shift[c].began <= clock
                                           /\ shift[c].closed = shift[c].began
      BY DEF IInv, NothingIsAhead
  <2>3. QED BY <1>0, <2>1, <2>2
<1>3. RowsAreFinal' /\ OneOpenShift' /\ OneShiftPerKey'
    BY <1>0 DEF IInv, RowsAreFinal, OneOpenShift, OneShiftPerKey
<1>4. RequestsAreSound' /\ OneHolder'
    BY <1>0 DEF IInv, RequestsAreSound, OneHolder, Holding, Settlements, Ledger
<1>5. CountIsRight' BY <1>0 DEF IInv, CountIsRight, PaymentsIn, Settlements, Ledger
<1>6. SnapshotInWindow' /\ SettledMoneyIsCounted'
    BY <1>0 DEF IInv, SnapshotInWindow, SettledMoneyIsCounted, Closed, WindowPayments,
                WindowRefunds, Settlements, Refunds, Ledger
<1>7. QED BY <1>1, <1>2, <1>3, <1>4, <1>5, <1>6 DEF IInv

\* A step that changes nothing.
LEMMA StutterStep ==
    ASSUME IInv, UNCHANGED shiftVars
    PROVE  IInv'
<1> USE DEF IInv, shiftVars
<1>1. ShiftTypeOK' BY DEF ShiftTypeOK, Holding
<1>2. NothingIsAhead' /\ RowsAreFinal' /\ OneOpenShift' /\ OneShiftPerKey'
    BY DEF NothingIsAhead, RowsAreFinal, OneOpenShift, OneShiftPerKey
<1>3. RequestsAreSound' /\ OneHolder'
    BY DEF RequestsAreSound, OneHolder, Holding, Settlements, Ledger
<1>4. CountIsRight' BY DEF CountIsRight, PaymentsIn, Settlements, Ledger
<1>5. SnapshotInWindow' /\ SettledMoneyIsCounted'
    BY DEF SnapshotInWindow, SettledMoneyIsCounted, Closed, WindowPayments,
           WindowRefunds, Settlements, Refunds, Ledger
<1>6. QED BY <1>1, <1>2, <1>3, <1>4, <1>5

-----------------------------------------------------------------------------
(* The theorems *)

\* Every step of a request preserves the invariant.
LEMMA TillStep ==
    ASSUME IInv, NEW c \in Calls, Till(c)
    PROVE  IInv'
<1>1. CASE BeginOpen(c) BY <1>1, BeginStep DEF BeginOpen
<1>2. CASE BeginClose(c) BY <1>2, BeginStep DEF BeginClose
<1>3. CASE BeginCollect(c) BY <1>3, BeginStep DEF BeginCollect
<1>4. CASE BeginRefund(c)
  <2>1. PICK w \in Supervisors, p \in Settlements : Begin(c, "refund", w, p, None)
      BY <1>4 DEF BeginRefund
  <2>2. w \in Staff /\ p \in Calls BY SupervisorsCollect DEF Settlements, Ledger
  <2>3. QED BY <2>1, <2>2, BeginStep
<1>5. CASE LookUpOpen(c)
  <2>1. stage[c] = "begun" BY <1>5 DEF LookUpOpen
  <2>2. CASE Leave(c) BY <1>5, <2>1, <2>2, LeaveStep DEF LookUpOpen
  <2>3. CASE Advance(c, "clear") /\ UNCHANGED <<call, counted>>
      BY <1>5, <2>1, <2>3, AdvanceStep DEF LookUpOpen
  <2>4. QED BY <1>5, <2>2, <2>3 DEF LookUpOpen
<1>6. CASE InsertShift(c) BY <1>6, InsertShiftStep
<1>7. CASE FindShift(c)
  <2>1. stage[c] = "begun" /\ call[c].op = "close" BY <1>7 DEF FindShift
  <2>2. CASE Leave(c) BY <1>7, <2>1, <2>2, LeaveStep DEF FindShift
  <2>3. CASE Advance(c, "found") /\ UNCHANGED <<call, counted>>
      BY <1>7, <2>1, <2>3, AdvanceStep DEF FindShift
  <2>4. QED BY <1>7, <2>2, <2>3 DEF FindShift
<1>8. CASE LockShift(c)
  <2>1. /\ stage[c] = "found" /\ call[c].op = "close" /\ Holding(call[c].of) = {}
        /\ UNCHANGED <<clock, committed, shift>>
      BY <1>8 DEF LockShift
  <2>2. CASE shift[call[c].of].status = "CLOSED"
      BY <1>8, <2>1, <2>2, LeaveStep DEF LockShift
  <2>3. CASE shift[call[c].of].status # "CLOSED"
    <3>1. shift[call[c].of].status = "OPEN"
        BY <2>1, <2>3 DEF IInv, RequestsAreSound, ShiftTypeOK
    <3>2. Advance(c, "locked") /\ UNCHANGED <<call, counted>> BY <1>8, <2>3 DEF LockShift
    <3>3. QED BY <2>1, <3>1, <3>2, AdvanceStep
  <2>4. QED BY <2>2, <2>3
<1>9. CASE CountPayments(c) BY <1>9, CountPaymentsStep
<1>10. CASE CloseShift(c)
  <2>1. call[c].of \in Calls BY <1>10 DEF IInv, RequestsAreSound, CloseShift
  <2>2. QED BY <1>10, <2>1, CloseShiftStep
<1>11. CASE CommitMoney(c) BY <1>11, CommitMoneyStep
<1>12. CASE Fail(c) BY <1>12, LeaveStep DEF Fail
<1>13. QED BY <1>1, <1>2, <1>3, <1>4, <1>5, <1>6, <1>7, <1>8, <1>9, <1>10, <1>11, <1>12
           DEF Till

\* The invariant holds in every reachable state.
THEOREM Inductive == ShiftSpec => []IInv
<1>1. IInv /\ [ShiftNext]_shiftVars => IInv'
    BY TillStep, TickStep, StutterStep DEF ShiftNext
<1>2. QED BY InitIInv, <1>1, PTL DEF ShiftSpec

\* Rows and requests are well-formed and a close at work has an open shift to itself.
THEOREM TypeCorrect == ShiftSpec => []ShiftTypeOK
<1>1. IInv => ShiftTypeOK BY DEF IInv
<1>2. QED BY Inductive, <1>1, PTL

\* A cashier has at most one open shift, however open requests overlap.
THEOREM OneShiftIsOpen == ShiftSpec => []OneOpenShift
<1>1. IInv => OneOpenShift BY DEF IInv
<1>2. QED BY Inductive, <1>1, PTL

\* A key opens at most one shift, ever.
THEOREM KeyOpensOneShift == ShiftSpec => []OneShiftPerKey
<1>1. IInv => OneShiftPerKey BY DEF IInv
<1>2. QED BY Inductive, <1>1, PTL

\* A snapshot holds only money of its cashier and its window.
THEOREM SnapshotsAreSound == ShiftSpec => []SnapshotInWindow
<1>1. IInv => SnapshotInWindow BY DEF IInv
<1>2. QED BY Inductive, <1>1, PTL

\* A snapshot holds all the money that was settled before the close began.
THEOREM NoSettledMoneyIsMissed == ShiftSpec => []SettledMoneyIsCounted
<1>1. IInv => SettledMoneyIsCounted BY DEF IInv
<1>2. QED BY Inductive, <1>1, PTL

\* No step changes a closed shift.
THEOREM ClosedStaysFrozen == ShiftSpec => ClosedShiftIsFrozen
<1>1. IInv /\ [ShiftNext]_shiftVars => [\A s \in Closed : shift'[s] = shift[s]]_shiftVars
  <2> SUFFICES ASSUME IInv, ShiftNext, NEW s \in Closed PROVE shift'[s] = shift[s]
      OBVIOUS
  <2>0. /\ s \in Calls /\ shift[s].status = "CLOSED" /\ stage[s] = "done"
        /\ DOMAIN shift = Calls
      BY DEF Closed, IInv, RowsAreFinal, ShiftTypeOK
  <2>1. ASSUME NEW c \in Calls, InsertShift(c) PROVE shift'[s] = shift[s]
    <3>1. c # s BY <2>0, <2>1 DEF InsertShift
    <3>2. QED BY <2>0, <2>1, <3>1 DEF InsertShift
  <2>2. ASSUME NEW c \in Calls, CloseShift(c) PROVE shift'[s] = shift[s]
    <3>1. c \in Holding(call[c].of) BY <2>2 DEF CloseShift, Holding
    <3>2. call[c].of \in Calls BY <2>2 DEF IInv, RequestsAreSound, CloseShift
    <3>3. call[c].of # s BY <2>0, <3>1, <3>2 DEF IInv, ShiftTypeOK
    <3>4. QED BY <2>0, <2>2, <3>3 DEF CloseShift
  <2>3. CASE UNCHANGED shift BY <2>3
  <2>4. QED BY <2>1, <2>2, <2>3
            DEF ShiftNext, Tick, Till, BeginOpen, BeginClose, BeginCollect, BeginRefund,
                Begin, LookUpOpen, FindShift, LockShift, CountPayments, CommitMoney, Fail
<1>2. QED BY Inductive, <1>1, PTL DEF ShiftSpec, ClosedShiftIsFrozen

=============================================================================
