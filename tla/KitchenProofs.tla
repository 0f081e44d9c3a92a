---------------------------- MODULE KitchenProofs ----------------------------
(***************************************************************************)
(* The kitchen, for any number of orders, requests and instants: the       *)
(* histories of KitchenClock add up, its undo reaches two windows back and *)
(* its queue serves the late first; and the board of LiveBoard tells the   *)
(* truth and shows what the kitchen had, for any number of changes and     *)
(* faults.                                                                 *)
(***************************************************************************)
EXTENDS KitchenClock, LiveBoard, NaturalsInduction, WellFoundedInduction, TLAPS

-----------------------------------------------------------------------------
(* Histories. An event carries the time its transaction began, and requests *)
(* overlap, so the log is not in the order of its times; what holds of every *)
(* history is that a READY asked for by someone who saw the order cooking comes *)
(* after an IN_PREP, and that no READY is without one.                      *)

PrepBefore(o, t) == \E f \in log[o] : f.to = "IN_PREP" /\ f.at <= t

\* The log of an order that exists.
HistoryIsSound(o) ==
    /\ order[o].created \in Instants /\ order[o].created <= now
    /\ \A e \in log[o] : order[o].created <= e.at /\ e.at <= now
    /\ \A e \in log[o] : e.to = "READY" /\ e.seen => PrepBefore(o, e.at)
    /\ \A e \in log[o] : e.to \in {"READY", "DELIVERED"} => PrepBefore(o, now)
    /\ order[o].status = "IN_PREP" => PrepBefore(o, now)
    /\ order[o].status \in {"READY", "DELIVERED"} => \E e \in log[o] : e.to = "READY"
    /\ \A e \in log[o] : e.to \in TERMINAL_STATES => order[o].status = e.to
    /\ \/ order[o].status \in {"READY", "DELIVERED"}
       \/ \A e \in log[o] : e.to # "READY"
       \/ \E e \in log[o] : e.from = "READY" /\ e.to = "IN_PREP"

\* An undone READY was undone within a window of a move forward.
UndoneInWindow(o) ==
    \A e \in log[o] : e.from = "READY" /\ e.to = "IN_PREP" =>
        \E f \in log[o] : /\ <<f.from, f.to>> \notin UNDO_TRANSITIONS
                          /\ e.at <= f.at + UNDO_WINDOW

\* A request that was asked for an order that exists, after it was placed; who asks to
\* serve what is cooking asks after it was started.
RequestIsSound(r) ==
    request[r].stage = "asked" =>
        /\ request[r].order \in Placed /\ request[r].to \in Statuses
        /\ request[r].at \in Instants
        /\ order[request[r].order].created <= request[r].at /\ request[r].at <= now
        /\ request[r].seen \in BOOLEAN
        /\ request[r].to = "READY" /\ request[r].seen => PrepBefore(request[r].order, request[r].at)

KitchenInv ==
    /\ KitchenTypeOK /\ DOMAIN log = Orders
    /\ \A o \in Orders \ Placed : log[o] = {}
    /\ \A o \in Placed : HistoryIsSound(o) /\ UndoneInWindow(o)
    /\ \A r \in Requests : RequestIsSound(r)

-----------------------------------------------------------------------------
(* The board *)

FetchRow == [orders : 0..MaxVersion, timing : 0..MaxVersion, failed : BOOLEAN]

Greeting == IF server = "listening" THEN 0 ELSE 1

\* Every change is broadcast once, and the greeting comes once per socket.
FramesAreFew ==
    /\ owed + sends <= version - 1
    /\ wire = "dead" => frames = 0
    /\ wire = "up" => owed + sends + frames + Greeting <= version

\* One refetch at a time; what it was served is at least what the screen shows.
FetchesAreSound ==
    /\ fetches \in Seq(FetchRow) /\ Len(fetches) <= 1
    /\ board.orders <= version /\ board.timing <= version
    /\ \A i \in DOMAIN fetches :
          /\ fetches[i].orders <= version /\ fetches[i].timing <= version
          /\ fetches[i].orders > 0 => board.orders <= fetches[i].orders
          /\ fetches[i].timing > 0 => board.timing <= fetches[i].timing

\* A board that says it is live asks again before the safety poll and one tick are over.
LiveIsPolled ==
    badge = "live" /\ fetches = <<>> =>
        snap.age + poll <= LIVE_SAFETY_POLL - 1 + POLL_INTERVAL

BoardInv ==
    /\ LiveTypeOK
    /\ FramesAreFew
    /\ FetchesAreSound
    /\ fetches = <<>> => ~queued
    /\ LiveIsPolled

-----------------------------------------------------------------------------
(* Least and greatest times *)

LEMMA LeastTime ==
    ASSUME NEW S, S \subseteq Nat, S # {}
    PROVE  \E n \in S : \A m \in S : n <= m
<1> DEFINE Less == OpToRel(<, Nat)
<1>1. IsWellFoundedOn(Less, Nat)
  BY NatLessThanWellFounded
<1>2. PICK n \in S : \A m \in S : ~(<<m, n>> \in Less)
  <2> HIDE DEF Less
  <2> QED
    BY <1>1, WFMin
<1>3. ASSUME NEW m \in S PROVE n <= m
  <2>1. m \in Nat /\ n \in Nat
    OBVIOUS
  <2>2. ~(m < n)
    BY <1>2, <2>1 DEF OpToRel
  <2> QED
    BY <2>1, <2>2
<1> QED
  BY <1>3

LEMMA MinIsLeast ==
    ASSUME NEW S, S \subseteq Nat, S # {}
    PROVE  Min(S) \in S /\ \A s \in S : Min(S) <= s
BY LeastTime DEF Min

\* What lies before some instant has a last time.
LEMMA MaxIsGreatest ==
    ASSUME NEW S, S \subseteq Nat, S # {}, NEW n \in Nat, \A s \in S : s <= n
    PROVE  Max(S) \in S /\ \A s \in S : s <= Max(S)
<1> DEFINE ToGo == {n - s : s \in S}
<1>1. ToGo \subseteq Nat /\ ToGo # {}
  <2>1. \A s \in S : n - s \in Nat
    OBVIOUS
  <2> QED
    BY <2>1
<1>2. PICK g \in ToGo : \A h \in ToGo : g <= h
  <2> HIDE DEF ToGo
  <2> QED
    BY <1>1, LeastTime
<1>3. PICK m \in S : g = n - m
  OBVIOUS
<1>4. ASSUME NEW s \in S PROVE s <= m
  <2>1. n - s \in ToGo
    OBVIOUS
  <2>2. g <= n - s
    BY <1>2, <2>1
  <2>3. s \in Nat /\ m \in Nat
    OBVIOUS
  <2> QED
    BY <1>3, <2>2, <2>3
<1> QED
  BY <1>4 DEF Max

-----------------------------------------------------------------------------
(* The kitchen's steps *)

\* What the invariant says of one order and one request, with its types.
LEMMA OrderFacts ==
    ASSUME KitchenInv, NEW o \in Orders
    PROVE  /\ now \in Nat /\ now \in Instants
           /\ order[o].status \in Statuses \cup {"ABSENT"}
           /\ o \in Placed <=> order[o].status # "ABSENT"
           /\ o \in Placed => /\ HistoryIsSound(o) /\ UndoneInWindow(o)
                              /\ order[o].created \in Nat
           /\ o \notin Placed => log[o] = {}
           /\ \A e \in log[o] : /\ e \in EventRow
                                /\ e.at \in Nat /\ e.to \in Statuses /\ e.seen \in BOOLEAN
<1>1. now \in Instants /\ order[o].status \in Statuses \cup {"ABSENT"}
  BY DEF KitchenInv, KitchenTypeOK, OrderRow
<1>2. \A e \in log[o] : e \in EventRow
  BY DEF KitchenInv, KitchenTypeOK
<1>3. \A e \in log[o] : e.at \in Instants /\ e.to \in Statuses /\ e.seen \in BOOLEAN
  BY <1>2 DEF EventRow
<1>4. o \in Placed => HistoryIsSound(o) /\ UndoneInWindow(o)
  BY DEF KitchenInv
<1>5. o \in Placed => order[o].created \in Instants
  BY <1>4 DEF HistoryIsSound
<1> QED
  BY <1>1, <1>2, <1>3, <1>4, <1>5, TimesAreNat DEF KitchenInv, Placed

\* A step that leaves an order and its log alone, while time may pass, leaves its
\* history sound.
LEMMA HistoryStays ==
    ASSUME KitchenInv, NEW o \in Placed, order'[o] = order[o], log'[o] = log[o],
           now' \in Instants, now <= now'
    PROVE  HistoryIsSound(o)' /\ UndoneInWindow(o)'
<1>1. o \in Orders /\ now' \in Nat
  BY TimesAreNat DEF Placed
<1>2. /\ HistoryIsSound(o) /\ UndoneInWindow(o) /\ now \in Nat /\ order[o].created \in Nat
      /\ \A e \in log[o] : e.at \in Nat
  BY <1>1, OrderFacts
<1>3. \A t \in Nat : PrepBefore(o, t) => PrepBefore(o, t)'
  BY <1>2 DEF PrepBefore
<1>4. PrepBefore(o, now) => PrepBefore(o, now)'
  BY <1>1, <1>2 DEF PrepBefore
<1>5. \A e \in log[o] : PrepBefore(o, e.at) => PrepBefore(o, e.at)'
  BY DEF PrepBefore
<1>6. HistoryIsSound(o)'
  <2>1. order'[o].created \in Instants /\ order'[o].created <= now'
    BY <1>1, <1>2 DEF HistoryIsSound
  <2>2. \A e \in log'[o] : order'[o].created <= e.at /\ e.at <= now'
    BY <1>1, <1>2 DEF HistoryIsSound
  <2> QED
    BY <1>2, <1>4, <1>5, <2>1, <2>2 DEF HistoryIsSound
<1>7. UndoneInWindow(o)'
  BY <1>2 DEF UndoneInWindow
<1> QED
  BY <1>6, <1>7

\* And a request that still waits.
LEMMA RequestStays ==
    ASSUME KitchenInv, NEW r \in Requests, request'[r] = request[r],
           now' \in Instants, now <= now',
           request[r].stage = "asked" =>
               /\ request[r].order \in Placed'
               /\ order'[request[r].order].created = order[request[r].order].created
               /\ log[request[r].order] \subseteq log'[request[r].order]
    PROVE  RequestIsSound(r)'
<1> SUFFICES ASSUME request[r].stage = "asked" PROVE RequestIsSound(r)'
  BY DEF RequestIsSound
<1> DEFINE o == request[r].order
<1>1. /\ o \in Placed /\ o \in Orders /\ request[r].to \in Statuses /\ request[r].at \in Instants
      /\ order[o].created <= request[r].at /\ request[r].at <= now
      /\ request[r].seen \in BOOLEAN
      /\ request[r].to = "READY" /\ request[r].seen => PrepBefore(o, request[r].at)
  BY DEF KitchenInv, RequestIsSound, Placed
<1>2. now \in Nat /\ now' \in Nat /\ request[r].at \in Nat
  BY <1>1, OrderFacts, TimesAreNat
<1>3. request[r].at <= now'
  BY <1>1, <1>2
<1>4. PrepBefore(o, request[r].at) => PrepBefore(o, request[r].at)'
  BY DEF PrepBefore
<1> QED
  BY <1>1, <1>3, <1>4 DEF RequestIsSound

LEMMA WaitKeeps == ASSUME KitchenInv, Wait PROVE KitchenInv'
<1>1. now' \in Instants /\ now <= now' /\ UNCHANGED <<order, log, request>>
  <2>1. now' \in Instants /\ now' > now /\ now \in Instants
    BY DEF Wait, KitchenInv, KitchenTypeOK
  <2> QED
    BY <2>1, TimesAreNat DEF Wait
<1>2. KitchenTypeOK'
  BY <1>1 DEF KitchenInv, KitchenTypeOK
<1>3. Placed' = Placed
  BY <1>1 DEF Placed
<1>4. \A o \in Orders \ Placed : log'[o] = {}
  BY <1>1 DEF KitchenInv
<1>5. \A o \in Placed : HistoryIsSound(o)' /\ UndoneInWindow(o)'
  BY <1>1, HistoryStays
<1>6. \A r \in Requests : RequestIsSound(r)'
  <2> TAKE r \in Requests
  <2>1. request[r].stage = "asked" => request[r].order \in Placed
    BY DEF KitchenInv, RequestIsSound
  <2> QED
    BY <1>1, <1>3, <2>1, RequestStays
<1> QED
  BY <1>1, <1>2, <1>3, <1>4, <1>5, <1>6 DEF KitchenInv

LEMMA PlaceOrderKeeps ==
    ASSUME KitchenInv, NEW o \in Orders, PlaceOrder(o)
    PROVE  KitchenInv'
<1> DEFINE new == [status |-> "NEW", created |-> now]
           e == Event("ABSENT", "NEW", now, TRUE)
<1>1. /\ order[o] = NoOrder /\ order' = [order EXCEPT ![o] = new]
      /\ log' = [log EXCEPT ![o] = {e}] /\ now' = now /\ request' = request
  BY DEF PlaceOrder
<1>2. /\ now \in Instants /\ now \in Nat /\ o \notin Placed /\ log[o] = {}
  BY <1>1, OrderFacts DEF NoOrder
<1>3. /\ order \in [Orders -> OrderRow]
      /\ new \in OrderRow
      /\ e \in EventRow
  BY <1>2 DEF KitchenInv, KitchenTypeOK, Statuses, Event, OrderRow, EventRow
<1>4. e.from = "ABSENT" /\ e.to = "NEW" /\ e.at = now /\ new.status = "NEW" /\ new.created = now
  BY DEF Event
<1> HIDE DEF new, e
<1>5. /\ order'[o] = new /\ \A p \in Orders : p # o => order'[p] = order[p]
      /\ \A p \in Orders : p # o => log'[p] = log[p]
  BY <1>1, <1>3
<1>6. log'[o] = {e} /\ DOMAIN log' = Orders
  BY <1>1 DEF KitchenInv
<1>7. KitchenTypeOK'
  <2>1. order' \in [Orders -> OrderRow]
    BY <1>1, <1>3
  <2>2. \A p \in Orders : log'[p] \subseteq EventRow
    BY <1>3, <1>5, <1>6 DEF KitchenInv, KitchenTypeOK
  <2> QED
    BY <1>1, <2>1, <2>2 DEF KitchenInv, KitchenTypeOK
<1>8. Placed' = Placed \cup {o}
  BY <1>4, <1>5 DEF Placed
<1>9. \A p \in Orders \ Placed' : log'[p] = {}
  BY <1>5, <1>8 DEF KitchenInv
<1>10. \A p \in Placed : HistoryIsSound(p)' /\ UndoneInWindow(p)'
  <2> TAKE p \in Placed
  <2>1. p \in Orders /\ p # o
    BY <1>2 DEF Placed
  <2>2. now <= now' /\ now' \in Instants
    BY <1>1, <1>2
  <2> QED
    BY <1>5, <2>1, <2>2, HistoryStays
<1>11. HistoryIsSound(o)' /\ UndoneInWindow(o)'
  BY <1>1, <1>2, <1>4, <1>5, <1>6 DEF HistoryIsSound, UndoneInWindow, TERMINAL_STATES
<1>12. \A r \in Requests : RequestIsSound(r)'
  <2> TAKE r \in Requests
  <2>1. request[r].stage = "asked" => request[r].order \in Placed
    BY DEF KitchenInv, RequestIsSound
  <2>2. \A p \in Placed : p \in Orders /\ p # o
    BY <1>2 DEF Placed
  <2>3. now <= now' /\ now' \in Instants
    BY <1>1, <1>2
  <2> QED
    BY <1>1, <1>5, <1>8, <2>1, <2>2, <2>3, RequestStays
<1> QED
  BY <1>6, <1>7, <1>8, <1>9, <1>10, <1>11, <1>12 DEF KitchenInv

LEMMA AskKeeps ==
    ASSUME KitchenInv, NEW r \in Requests, Ask(r)
    PROVE  KitchenInv'
<1>0. PICK o \in Placed, to \in Statuses :
          request' = [request EXCEPT ![r] =
              [order |-> o, to |-> to, at |-> now, stage |-> "asked",
               seen |-> <<order[o].status, to>> \in VALID_TRANSITIONS \cup UNDO_TRANSITIONS]]
  BY DEF Ask
<1> DEFINE seen == <<order[o].status, to>> \in VALID_TRANSITIONS \cup UNDO_TRANSITIONS
<1>1. /\ seen => <<order[o].status, to>> \in VALID_TRANSITIONS \cup UNDO_TRANSITIONS
      /\ request' = [request EXCEPT ![r] =
             [order |-> o, to |-> to, at |-> now, stage |-> "asked", seen |-> seen]]
  BY <1>0
<1>10. seen \in BOOLEAN
  <2>1. CASE seen
    <3>1. seen = TRUE
      BY <2>1
    <3> QED
      BY <3>1
  <2>2. CASE ~seen
    <3>1. seen = FALSE
      BY <2>2
    <3> QED
      BY <3>1
  <2> QED
    BY <2>1, <2>2
<1> HIDE DEF seen
<1> DEFINE new == [order |-> o, to |-> to, at |-> now, stage |-> "asked", seen |-> seen]
<1>2. now' = now /\ order' = order /\ log' = log /\ Placed' = Placed
  BY DEF Ask, Placed
<1>3. /\ o \in Orders /\ now \in Nat /\ now \in Instants /\ HistoryIsSound(o)
      /\ order[o].created \in Nat /\ \A e \in log[o] : e.at \in Nat
  BY OrderFacts DEF Placed
<1>4. new.order = o /\ new.to = to /\ new.at = now /\ new.stage = "asked" /\ new.seen = seen
  OBVIOUS
<1>5. request \in [Requests -> RequestRow]
  BY DEF KitchenInv, KitchenTypeOK
<1>6. new \in RequestRow
  BY <1>3, <1>10 DEF RequestRow
<1>7. request'[r] = new /\ \A q \in Requests : q # r => request'[q] = request[q]
  BY <1>1, <1>5
<1>8. KitchenTypeOK'
  <2>1. request' \in [Requests -> RequestRow]
    BY <1>1, <1>5, <1>6
  <2> QED
    BY <1>2, <2>1 DEF KitchenInv, KitchenTypeOK
<1> HIDE DEF new
<1>9. to = "READY" /\ seen => PrepBefore(o, now)
  <2>1. to = "READY" /\ seen => order[o].status = "IN_PREP"
    BY <1>1 DEF VALID_TRANSITIONS, UNDO_TRANSITIONS
  <2> QED
    BY <1>3, <2>1 DEF HistoryIsSound
<1>11. RequestIsSound(r)'
  <2>1. order[o].created <= now
    BY <1>3 DEF HistoryIsSound
  <2>2. PrepBefore(o, now) => PrepBefore(o, now)'
    BY <1>2 DEF PrepBefore
  <2>3. /\ request'[r].order = o /\ request'[r].to = to /\ request'[r].at = now
        /\ request'[r].seen = seen
        /\ order'[o].created <= now' /\ PrepBefore(o, now)' = PrepBefore(o, now)
    BY <1>2, <1>4, <1>7, <2>1 DEF PrepBefore
  <2>4. PrepBefore(o, now)' => PrepBefore(request[r].order, request[r].at)'
    BY <1>2, <2>3 DEF PrepBefore
  <2> QED
    BY <1>2, <1>3, <1>9, <1>10, <2>1, <2>3, <2>4 DEF RequestIsSound
<1>12. \A q \in Requests : q # r => RequestIsSound(q)'
  <2> TAKE q \in Requests
  <2>1. request[q].stage = "asked" => request[q].order \in Placed
    BY DEF KitchenInv, RequestIsSound
  <2>2. now <= now' /\ now' \in Instants
    BY <1>2, <1>3
  <2> QED
    BY <1>2, <1>7, <2>1, <2>2, RequestStays
<1>13. \A p \in Placed : HistoryIsSound(p)' /\ UndoneInWindow(p)'
  BY <1>2, <1>3, HistoryStays
<1> QED
  BY <1>2, <1>8, <1>11, <1>12, <1>13 DEF KitchenInv

LEMMA RefuseKeeps ==
    ASSUME KitchenInv, NEW r \in Requests, Refuse(r)
    PROVE  KitchenInv'
<1>1. /\ now' = now /\ order' = order /\ log' = log /\ Placed' = Placed
      /\ request' = [request EXCEPT ![r] = NoRequest]
  BY DEF Refuse, Placed
<1>2. now \in Nat /\ now \in Instants
  BY TimesAreNat DEF KitchenInv, KitchenTypeOK
<1>3. KitchenTypeOK'
  <2>1. NoRequest \in RequestRow
    BY DEF NoRequest, RequestRow
  <2>2. request' \in [Requests -> RequestRow]
    BY <1>1, <2>1 DEF KitchenInv, KitchenTypeOK
  <2> QED
    BY <1>1, <2>2 DEF KitchenInv, KitchenTypeOK
<1>4. /\ request'[r].stage = "idle" /\ \A q \in Requests : q # r => request'[q] = request[q]
  BY <1>1 DEF KitchenInv, KitchenTypeOK, NoRequest
<1>5. \A q \in Requests : RequestIsSound(q)'
  <2> TAKE q \in Requests
  <2>1. CASE q = r
    BY <1>4, <2>1 DEF RequestIsSound
  <2>2. CASE q # r
    <3>1. request[q].stage = "asked" => request[q].order \in Placed
      BY DEF KitchenInv, RequestIsSound
    <3>2. now <= now' /\ now' \in Instants
      BY <1>1, <1>2
    <3> QED
      BY <1>1, <1>4, <2>2, <3>1, <3>2, RequestStays
  <2> QED
    BY <2>1, <2>2
<1>6. \A p \in Placed : HistoryIsSound(p)' /\ UndoneInWindow(p)'
  BY <1>1, <1>2, HistoryStays
<1> QED
  BY <1>1, <1>3, <1>5, <1>6 DEF KitchenInv

\* The latest of the times of an order's moves into a status.
LEMMA LastIntoFacts ==
    ASSUME KitchenInv, NEW o \in Placed, NEW to, LastInto(o, to) # None
    PROVE  \E e \in log[o] : e.to = to /\ e.at = LastInto(o, to)
<1>1. o \in Orders /\ now \in Nat /\ HistoryIsSound(o) /\ \A e \in log[o] : e.at \in Nat
  BY OrderFacts DEF Placed
<1>2. Times(o, to) # {} /\ LastInto(o, to) = Max(Times(o, to))
  BY DEF LastInto
<1>3. Times(o, to) \subseteq Nat /\ \A t \in Times(o, to) : t <= now
  BY <1>1 DEF Times, HistoryIsSound
<1>4. LastInto(o, to) \in Times(o, to)
  BY <1>1, <1>2, <1>3, MaxIsGreatest
<1> QED
  BY <1>4 DEF Times


\* The undo window starts at the latest event into the status. Into READY only a move
\* forward leads; an undo into IN_PREP was itself within a window of a move forward, so
\* two windows is as far as an undo reaches.
LEMMA UndoIsNearAMoveForward ==
    ASSUME KitchenInv, NEW o \in Placed, UndoInWindow(o), order[o].status \in {"IN_PREP", "READY"}
    PROVE  \E f \in log[o] : /\ <<f.from, f.to>> \notin UNDO_TRANSITIONS
                             /\ now <= f.at + 2 * UNDO_WINDOW
                             /\ order[o].status = "READY" => now <= f.at + UNDO_WINDOW
<1>1. o \in Orders /\ now \in Nat /\ UndoneInWindow(o) /\ \A e \in log[o] : e.at \in Nat
  BY OrderFacts DEF Placed
<1>2. PICK e \in log[o] : e.to = order[o].status /\ now - e.at <= UNDO_WINDOW
  BY LastIntoFacts DEF UndoInWindow
<1>3. e.at \in Nat /\ now <= e.at + UNDO_WINDOW
  BY <1>1, <1>2 DEF UNDO_WINDOW
<1>4. CASE <<e.from, e.to>> \notin UNDO_TRANSITIONS
  BY <1>1, <1>3, <1>4 DEF UNDO_WINDOW
<1>5. CASE e.from = "READY" /\ e.to = "IN_PREP"
  <2>1. PICK f \in log[o] : /\ <<f.from, f.to>> \notin UNDO_TRANSITIONS
                            /\ e.at <= f.at + UNDO_WINDOW
    BY <1>1, <1>5 DEF UndoneInWindow
  <2>2. f.at \in Nat /\ now <= f.at + 2 * UNDO_WINDOW
    BY <1>1, <1>3, <2>1 DEF UNDO_WINDOW
  <2> QED
    BY <1>2, <1>5, <2>1, <2>2
<1> QED
  BY <1>2, <1>4, <1>5 DEF UNDO_TRANSITIONS

LEMMA UpdateStatusKeeps ==
    ASSUME KitchenInv, NEW r \in Requests, UpdateStatus(r)
    PROVE  KitchenInv'
<1>0. PICK o, to, at, from, seen : /\ o = request[r].order /\ to = request[r].to
                                   /\ at = request[r].at /\ seen = request[r].seen
                                   /\ from = order[o].status
  OBVIOUS
<1> DEFINE e == Event(from, to, at, seen)
           row == [order[o] EXCEPT !.status = to]
<1>1. /\ request[r].stage = "asked" /\ Allowed(o, to)
      /\ order' = [order EXCEPT ![o].status = to] /\ log' = [log EXCEPT ![o] = log[o] \cup {e}]
      /\ request' = [request EXCEPT ![r] = NoRequest] /\ now' = now
  BY <1>0 DEF UpdateStatus
<1>2. /\ o \in Placed /\ to \in Statuses /\ at \in Instants
      /\ order[o].created <= at /\ at <= now /\ seen \in BOOLEAN
      /\ to = "READY" /\ seen => PrepBefore(o, at)
  BY <1>0, <1>1 DEF KitchenInv, RequestIsSound
<1>3. /\ o \in Orders /\ now \in Nat /\ now \in Instants /\ HistoryIsSound(o) /\ UndoneInWindow(o)
      /\ order[o].created \in Nat /\ \A f \in log[o] : f.at \in Nat /\ f.to \in Statuses
      /\ from \in Statuses
  BY <1>0, <1>2, OrderFacts DEF Placed
<1>4. /\ order \in [Orders -> OrderRow]
      /\ order' = [order EXCEPT ![o] = row]
  BY <1>1 DEF KitchenInv, KitchenTypeOK
<1>5. /\ row \in OrderRow
      /\ row.status = to /\ row.created = order[o].created
  BY <1>2, <1>3, <1>4 DEF OrderRow
<1>6. /\ e \in EventRow
      /\ e.from = from /\ e.to = to /\ e.at = at /\ e.seen = seen
  BY <1>2, <1>3 DEF Event, EventRow
<1> HIDE DEF row, e
<1>7. /\ order'[o] = row /\ \A p \in Orders : p # o => order'[p] = order[p]
      /\ log'[o] = log[o] \cup {e} /\ \A p \in Orders : p # o => log'[p] = log[p]
      /\ DOMAIN log' = Orders
  BY <1>1, <1>3, <1>4 DEF KitchenInv
<1>8. Placed' = Placed
  BY <1>2, <1>3, <1>5, <1>7 DEF Placed, Statuses, TERMINAL_STATES
<1>9. /\ from \notin TERMINAL_STATES
      /\ <<from, to>> \in VALID_TRANSITIONS \cup UNDO_TRANSITIONS
      /\ <<from, to>> \in UNDO_TRANSITIONS => UndoInWindow(o)
  BY <1>0, <1>1 DEF Allowed, ValidTransition
<1>10. KitchenTypeOK'
  <2>1. order' \in [Orders -> OrderRow]
    BY <1>4, <1>5
  <2>2. \A p \in Orders : log'[p] \subseteq EventRow
    BY <1>6, <1>7 DEF KitchenInv, KitchenTypeOK
  <2>3. NoRequest \in RequestRow
    BY DEF NoRequest, RequestRow
  <2>4. request' \in [Requests -> RequestRow]
    BY <1>1, <2>3 DEF KitchenInv, KitchenTypeOK
  <2> QED
    BY <1>1, <2>1, <2>2, <2>4 DEF KitchenInv, KitchenTypeOK
<1>11. HistoryIsSound(o)'
  <2>1. order'[o].created \in Instants /\ order'[o].created <= now'
    BY <1>1, <1>3, <1>5, <1>7 DEF HistoryIsSound
  <2>2. \A f \in log'[o] : order'[o].created <= f.at /\ f.at <= now'
    BY <1>1, <1>2, <1>3, <1>5, <1>6, <1>7 DEF HistoryIsSound
  <2>3. \A t : PrepBefore(o, t) => PrepBefore(o, t)'
    BY <1>7 DEF PrepBefore
  <2>4. \A f \in log'[o] : f.to = "READY" /\ f.seen => PrepBefore(o, f.at)'
    <3> SUFFICES ASSUME NEW f \in log'[o], f.to = "READY", f.seen PROVE PrepBefore(o, f.at)'
      OBVIOUS
    <3>1. PrepBefore(o, f.at)
      BY <1>2, <1>3, <1>6, <1>7 DEF HistoryIsSound
    <3> QED
      BY <1>7, <3>1 DEF PrepBefore
  <2>9. \A f \in log'[o] : f.to \in {"READY", "DELIVERED"} => PrepBefore(o, now)'
    <3> SUFFICES ASSUME NEW f \in log'[o], f.to \in {"READY", "DELIVERED"}
                 PROVE  PrepBefore(o, now)'
      OBVIOUS
    <3>1. from \in {"IN_PREP", "READY"} => PrepBefore(o, now)
      BY <1>0, <1>3 DEF HistoryIsSound
    <3>2. f = e => from \in {"IN_PREP", "READY"}
      BY <1>6, <1>9 DEF VALID_TRANSITIONS, UNDO_TRANSITIONS
    <3>3. PrepBefore(o, now)
      BY <1>3, <1>7, <3>1, <3>2 DEF HistoryIsSound
    <3> QED
      BY <1>1, <1>7, <3>3 DEF PrepBefore
  <2>5. order'[o].status = "IN_PREP" => PrepBefore(o, now)'
    BY <1>1, <1>2, <1>5, <1>6, <1>7 DEF PrepBefore
  <2>6. order'[o].status \in {"READY", "DELIVERED"} => \E f \in log'[o] : f.to = "READY"
    <3>1. CASE to = "READY"
      BY <1>6, <1>7, <3>1
    <3>2. CASE to = "DELIVERED"
      <4>1. from = "READY"
        BY <1>9, <3>2 DEF VALID_TRANSITIONS, UNDO_TRANSITIONS
      <4> QED
        BY <1>0, <1>3, <1>7, <4>1 DEF HistoryIsSound
    <3> QED
      BY <1>5, <1>7, <3>1, <3>2
  <2>7. \A f \in log'[o] : f.to \in TERMINAL_STATES => order'[o].status = f.to
    BY <1>0, <1>3, <1>5, <1>6, <1>7, <1>9 DEF HistoryIsSound
  <2>8. \/ order'[o].status \in {"READY", "DELIVERED"}
        \/ \A f \in log'[o] : f.to # "READY"
        \/ \E f \in log'[o] : f.from = "READY" /\ f.to = "IN_PREP"
    <3>1. CASE to \in {"READY", "DELIVERED"}
      BY <1>5, <1>7, <3>1
    <3>2. CASE from = "READY" /\ to \notin {"READY", "DELIVERED"}
      <4>1. to = "IN_PREP"
        BY <1>9, <3>2 DEF VALID_TRANSITIONS, UNDO_TRANSITIONS
      <4> QED
        BY <1>6, <1>7, <3>2, <4>1
    <3>3. CASE from # "READY" /\ to \notin {"READY", "DELIVERED"}
      BY <1>0, <1>3, <1>6, <1>7, <1>9, <3>3 DEF HistoryIsSound, TERMINAL_STATES
    <3> QED
      BY <3>1, <3>2, <3>3
  <2> QED
    BY <2>1, <2>2, <2>4, <2>5, <2>6, <2>7, <2>8, <2>9 DEF HistoryIsSound
<1>12. UndoneInWindow(o)'
  <2> SUFFICES ASSUME NEW u \in log'[o], u.from = "READY", u.to = "IN_PREP"
               PROVE  \E f \in log'[o] : /\ <<f.from, f.to>> \notin UNDO_TRANSITIONS
                                         /\ u.at <= f.at + UNDO_WINDOW
    BY DEF UndoneInWindow
  <2>1. CASE u \in log[o]
    BY <1>3, <1>7, <2>1 DEF UndoneInWindow
  <2>2. CASE u = e
    <3>1. from = "READY" /\ to = "IN_PREP" /\ u.at = at
      BY <1>6, <2>2
    <3>2. UndoInWindow(o)
      BY <1>9, <3>1 DEF UNDO_TRANSITIONS
    <3>3. PICK f \in log[o] : /\ <<f.from, f.to>> \notin UNDO_TRANSITIONS
                              /\ now <= f.at + UNDO_WINDOW
      BY <1>0, <1>2, <3>1, <3>2, UndoIsNearAMoveForward
    <3>4. at \in Nat /\ f.at \in Nat
      BY <1>2, <1>3, TimesAreNat
    <3>5. at <= f.at + UNDO_WINDOW
      BY <1>2, <1>3, <3>3, <3>4 DEF UNDO_WINDOW
    <3> QED
      BY <1>7, <3>1, <3>3, <3>5
  <2> QED
    BY <1>7, <2>1, <2>2
<1>13. \A p \in Placed : HistoryIsSound(p)' /\ UndoneInWindow(p)'
  <2> TAKE p \in Placed
  <2>1. CASE p = o
    BY <1>11, <1>12, <2>1
  <2>2. CASE p # o
    <3>1. p \in Orders /\ now <= now' /\ now' \in Instants
      BY <1>1, <1>3 DEF Placed
    <3> QED
      BY <1>7, <2>2, <3>1, HistoryStays
  <2> QED
    BY <2>1, <2>2
<1>14. \A q \in Requests : RequestIsSound(q)'
  <2> TAKE q \in Requests
  <2>1. /\ request'[r].stage = "idle" /\ \A p \in Requests : p # r => request'[p] = request[p]
    BY <1>1 DEF KitchenInv, KitchenTypeOK, NoRequest
  <2>2. CASE q = r
    BY <2>1, <2>2 DEF RequestIsSound
  <2>3. CASE q # r
    <3>1. request[q].stage = "asked" => request[q].order \in Placed
      BY DEF KitchenInv, RequestIsSound
    <3>2. now <= now' /\ now' \in Instants
      BY <1>1, <1>3
    <3>3. \A p \in Placed : order'[p].created = order[p].created /\ log[p] \subseteq log'[p]
      BY <1>5, <1>7 DEF Placed
    <3> QED
      BY <1>8, <2>1, <2>3, <3>1, <3>2, <3>3, RequestStays
  <2> QED
    BY <2>2, <2>3
<1>15. \A p \in Orders \ Placed : log'[p] = {}
  BY <1>2, <1>7 DEF KitchenInv
<1> QED
  BY <1>7, <1>8, <1>10, <1>13, <1>14, <1>15 DEF KitchenInv

LEMMA KitchenInitIsGood == KitchenInit => KitchenInv
<1> SUFFICES ASSUME KitchenInit PROVE KitchenInv
  OBVIOUS
<1>1. KitchenTypeOK /\ DOMAIN log = Orders
  BY TimesAreNat DEF KitchenInit, KitchenTypeOK, NoOrder, NoRequest, OrderRow, RequestRow
<1>2. Placed = {}
  BY DEF KitchenInit, Placed, NoOrder
<1>3. \A r \in Requests : RequestIsSound(r)
  BY DEF KitchenInit, RequestIsSound, NoRequest
<1> QED
  BY <1>1, <1>2, <1>3 DEF KitchenInv, KitchenInit

LEMMA KitchenNextKeeps ==
    ASSUME KitchenInv, [KitchenNext]_kitchenVars
    PROVE  KitchenInv'
<1>1. CASE UNCHANGED kitchenVars
  BY <1>1 DEF kitchenVars, KitchenInv, KitchenTypeOK, Placed, HistoryIsSound, UndoneInWindow,
              RequestIsSound, PrepBefore
<1> QED
  BY <1>1, WaitKeeps, PlaceOrderKeeps, AskKeeps, UpdateStatusKeeps, RefuseKeeps DEF KitchenNext

\* Whatever the requests do and however long they wait: every history is sound.
THEOREM KitchenIsInOrder == KitchenSpec => []KitchenInv
BY KitchenInitIsGood, KitchenNextKeeps, PTL DEF KitchenSpec

-----------------------------------------------------------------------------
(* Preparation times *)

LEMMA FirstIntoFacts ==
    ASSUME KitchenInv, NEW o \in Placed, NEW to
    PROVE  /\ (\A e \in log[o] : e.to # to) => FirstInto(o, to) = None
           /\ (\E e \in log[o] : e.to = to) =>
                 /\ FirstInto(o, to) \in Nat /\ FirstInto(o, to) # None
                 /\ \E e \in log[o] : e.to = to /\ e.at = FirstInto(o, to)
                 /\ \A e \in log[o] : e.to = to => FirstInto(o, to) <= e.at
<1>1. \A e \in log[o] : e.at \in Nat
  BY OrderFacts DEF Placed
<1>2. Times(o, to) \subseteq Nat /\ \A e \in log[o] : e.to = to => e.at \in Times(o, to)
  BY <1>1 DEF Times
<1>3. CASE \A e \in log[o] : e.to # to
  BY <1>3 DEF FirstInto, Times
<1>4. CASE \E e \in log[o] : e.to = to
  <2>1. Times(o, to) # {} /\ FirstInto(o, to) = Min(Times(o, to))
    BY <1>2, <1>4 DEF FirstInto
  <2>2. FirstInto(o, to) \in Times(o, to) /\ \A t \in Times(o, to) : FirstInto(o, to) <= t
    BY <1>2, <2>1, MinIsLeast
  <2>3. \E e \in log[o] : e.to = to /\ e.at = FirstInto(o, to)
    BY <2>2 DEF Times
  <2> QED
    BY <1>2, <1>4, <2>2, <2>3, NoneIsNoTime
<1> QED
  BY <1>3, <1>4

\* Who has been ready had been started, and was placed before that; a READY that was
\* always asked for by someone who saw the order cooking comes after the start.
LEMMA TimesAreOrdered ==
    ASSUME KitchenInv, NEW o \in Placed
    PROVE  LET created == order[o].created
               prep == FirstInto(o, "IN_PREP")
               ready == FirstInto(o, "READY")
               delivered == FirstInto(o, "DELIVERED") IN
           /\ created \in Nat /\ created <= now /\ now \in Nat
           /\ prep # None => prep \in Nat /\ created <= prep /\ prep <= now
           /\ ready # None => ready \in Nat /\ created <= ready /\ prep # None
           /\ ready # None /\ ~(\E e \in log[o] : e.to = "READY" /\ ~e.seen) => prep <= ready
           /\ delivered # None => prep # None
<1>1. /\ HistoryIsSound(o) /\ now \in Nat /\ order[o].created \in Nat
      /\ \A e \in log[o] : e.at \in Nat
  BY OrderFacts DEF Placed
<1>2. order[o].created <= now /\ \A e \in log[o] : order[o].created <= e.at /\ e.at <= now
  BY <1>1 DEF HistoryIsSound
<1>3. \A e \in log[o] : e.to \in {"READY", "DELIVERED"} => FirstInto(o, "IN_PREP") # None
  <2> SUFFICES ASSUME NEW e \in log[o], e.to \in {"READY", "DELIVERED"}
               PROVE  FirstInto(o, "IN_PREP") # None
    OBVIOUS
  <2>1. \E f \in log[o] : f.to = "IN_PREP"
    BY <1>1 DEF HistoryIsSound, PrepBefore
  <2> QED
    BY <2>1, FirstIntoFacts
<1>4. ASSUME FirstInto(o, "IN_PREP") # None
      PROVE  /\ FirstInto(o, "IN_PREP") \in Nat /\ order[o].created <= FirstInto(o, "IN_PREP")
             /\ FirstInto(o, "IN_PREP") <= now
  BY <1>1, <1>2, <1>4, FirstIntoFacts
<1>5. ASSUME FirstInto(o, "READY") # None
      PROVE  /\ FirstInto(o, "READY") \in Nat /\ order[o].created <= FirstInto(o, "READY")
             /\ FirstInto(o, "IN_PREP") # None
             /\ \/ \E e \in log[o] : e.to = "READY" /\ ~e.seen
                \/ FirstInto(o, "IN_PREP") <= FirstInto(o, "READY")
  <2>1. PICK e \in log[o] : e.to = "READY" /\ e.at = FirstInto(o, "READY")
    BY <1>5, FirstIntoFacts
  <2>2. FirstInto(o, "IN_PREP") # None /\ FirstInto(o, "IN_PREP") \in Nat
    BY <1>3, <1>4, <2>1
  <2>3. ASSUME e.seen PROVE FirstInto(o, "IN_PREP") <= e.at
    <3>1. PICK f \in log[o] : f.to = "IN_PREP" /\ f.at <= e.at
      BY <1>1, <2>1, <2>3 DEF HistoryIsSound, PrepBefore
    <3>2. FirstInto(o, "IN_PREP") <= f.at
      BY <3>1, FirstIntoFacts
    <3> QED
      BY <1>1, <2>2, <3>1, <3>2
  <2> QED
    BY <1>1, <1>2, <2>1, <2>2, <2>3
<1>6. FirstInto(o, "DELIVERED") # None => FirstInto(o, "IN_PREP") # None
  <2>1. FirstInto(o, "DELIVERED") # None => \E e \in log[o] : e.to = "DELIVERED"
    BY FirstIntoFacts
  <2> QED
    BY <1>3, <2>1
<1> QED
  BY <1>1, <1>2, <1>4, <1>5, <1>6

LEMMA OnlyLegalProblems ==
    ASSUME KitchenInv, NEW o \in Placed
    PROVE  /\ Problems(o) \subseteq {"terminal_both", "ready_before_prep", "negative_prep"}
           /\ "terminal_both" \in Problems(o) =>
                 \E e \in log[o] : e.from = "READY" /\ e.to = "IN_PREP"
           /\ "negative_prep" \in Problems(o) => \E e \in log[o] : e.to = "READY" /\ ~e.seen
<1> DEFINE prep == FirstInto(o, "IN_PREP")
           ready == FirstInto(o, "READY")
           delivered == FirstInto(o, "DELIVERED")
           cancelled == FirstInto(o, "CANCELLED")
<1>1. /\ prep # None => prep \in Nat
      /\ ready # None => ready \in Nat /\ prep # None
      /\ ready # None /\ ~(\E e \in log[o] : e.to = "READY" /\ ~e.seen) => prep <= ready
      /\ delivered # None => prep # None
  BY TimesAreOrdered
<1>2. HistoryIsSound(o) /\ order[o].created \in Nat /\ \A e \in log[o] : e.at \in Nat
  BY OrderFacts DEF Placed
<1>3. \A e \in log[o] : ~(e.at < order[o].created)
  BY <1>2 DEF HistoryIsSound
<1>4. Problems(o) \subseteq {"negative_prep", "ready_before_prep", "ready_without_prep",
                            "terminal_both", "event_before_create"}
  BY DEF Problems
<1>5. "negative_prep" \in Problems(o) => ready # None /\ prep # None /\ ready < prep
  BY DEF Problems
<1>6. "ready_without_prep" \in Problems(o) => (ready # None \/ delivered # None) /\ prep = None
  BY DEF Problems
<1>7. "terminal_both" \in Problems(o) => (ready # None \/ delivered # None) /\ cancelled # None
  BY DEF Problems
<1>8. "event_before_create" \in Problems(o) => \E e \in log[o] : e.at < order[o].created
  BY DEF Problems
<1> HIDE DEF prep, ready, delivered, cancelled
<1>9. /\ Problems(o) \subseteq {"terminal_both", "ready_before_prep", "negative_prep"}
      /\ "negative_prep" \in Problems(o) => \E e \in log[o] : e.to = "READY" /\ ~e.seen
  <2>1. "negative_prep" \in Problems(o) => \E e \in log[o] : e.to = "READY" /\ ~e.seen
    BY <1>1, <1>5
  <2>2. "ready_without_prep" \notin Problems(o)
    BY <1>1, <1>6
  <2>3. "event_before_create" \notin Problems(o)
    BY <1>3, <1>8
  <2> QED
    BY <1>4, <2>1, <2>2, <2>3
<1>10. ASSUME "terminal_both" \in Problems(o)
       PROVE  \E e \in log[o] : e.from = "READY" /\ e.to = "IN_PREP"
  <2>1. \E e \in log[o] : e.to = "CANCELLED"
    BY <1>7, <1>10, FirstIntoFacts DEF cancelled
  <2>2. order[o].status = "CANCELLED"
    BY <1>2, <2>1 DEF HistoryIsSound, TERMINAL_STATES
  <2>3. \A e \in log[o] : e.to # "DELIVERED"
    BY <1>2, <2>2 DEF HistoryIsSound, TERMINAL_STATES
  <2>4. \E e \in log[o] : e.to = "READY"
    BY <1>7, <1>10, <2>3, FirstIntoFacts DEF ready, delivered
  <2> QED
    BY <1>2, <2>2, <2>4 DEF HistoryIsSound
<1> QED
  BY <1>9, <1>10

\* A rounded time is within half a second of the exact one.
LEMMA WholeIsNear ==
    ASSUME NEW d \in Nat
    PROVE  Whole(d) \in Nat /\ 10 * Whole(d) <= d + 5 /\ d <= 10 * Whole(d) + 5
<1> DEFINE s == d \div 10
           r == d % 10
<1>1. s \in Nat /\ r \in 0..9 /\ d = 10 * s + r
  OBVIOUS
<1>2. Whole(d) = IF r > 5 \/ (r = 5 /\ s % 2 = 1) THEN s + 1 ELSE s
  BY DEF Whole
<1> HIDE DEF s, r
<1>3. (Whole(d) = s + 1 /\ r >= 5) \/ (Whole(d) = s /\ r <= 5)
  BY <1>1, <1>2
<1> QED
  BY <1>1, <1>3

LEMMA FinishedTimesAdd ==
    ASSUME KitchenInv, NEW o \in Completed
    PROVE  /\ OrderTiming(o).queued # None /\ OrderTiming(o).toReady # None
           /\ OrderTiming(o).prep = None => \E e \in log[o] : e.to = "READY" /\ ~e.seen
           /\ OrderTiming(o).prep # None =>
                 OrderTiming(o).queued + OrderTiming(o).prep - OrderTiming(o).toReady \in -1..1
<1> DEFINE created == order[o].created
           prep == FirstInto(o, "IN_PREP")
           ready == FirstInto(o, "READY")
           unseen == \E e \in log[o] : e.to = "READY" /\ ~e.seen
<1>1. o \in Placed /\ order[o].status \in {"READY", "DELIVERED"} /\ HistoryIsSound(o)
  BY OrderFacts DEF Completed, Placed
<1>2. ready # None
  <2>1. \E e \in log[o] : e.to = "READY"
    BY <1>1 DEF HistoryIsSound
  <2> QED
    BY <1>1, <2>1, FirstIntoFacts
<1>3. /\ created \in Nat /\ prep \in Nat /\ ready \in Nat /\ created <= prep /\ created <= ready
      /\ ~unseen => prep <= ready
  BY <1>1, <1>2, TimesAreOrdered
<1>4. /\ OrderTiming(o).prep = NonNegDelta(ready, prep)
      /\ OrderTiming(o).queued = NonNegDelta(prep, created)
      /\ OrderTiming(o).toReady = NonNegDelta(ready, created)
  BY DEF OrderTiming
<1> HIDE DEF created, prep, ready, unseen
<1>5. /\ NonNegDelta(prep, created) = Whole(prep - created)
      /\ NonNegDelta(ready, created) = Whole(ready - created)
      /\ ready < prep => NonNegDelta(ready, prep) = None
      /\ prep <= ready => NonNegDelta(ready, prep) = Whole(ready - prep)
  BY <1>3, NoneIsNoTime DEF NonNegDelta
<1>6. /\ prep - created \in Nat /\ ready - created \in Nat
      /\ prep <= ready => ready - prep \in Nat
  BY <1>3
<1>7. Whole(prep - created) \in Nat /\ Whole(ready - created) \in Nat
  BY <1>6, WholeIsNear
<1>8. ASSUME prep <= ready
      PROVE  /\ Whole(ready - prep) \in Nat
             /\ Whole(prep - created) + Whole(ready - prep) - Whole(ready - created) \in -1..1
  <2> DEFINE a == Whole(prep - created)
             b == Whole(ready - prep)
             c == Whole(ready - created)
  <2>1. /\ a \in Nat /\ 10 * a <= prep - created + 5 /\ prep - created <= 10 * a + 5
        /\ b \in Nat /\ 10 * b <= ready - prep + 5 /\ ready - prep <= 10 * b + 5
        /\ c \in Nat /\ 10 * c <= ready - created + 5 /\ ready - created <= 10 * c + 5
    BY <1>6, <1>8, WholeIsNear
  <2> HIDE DEF a, b, c
  <2>2. 10 * (a + b - c) <= 15 /\ -15 <= 10 * (a + b - c)
    BY <1>3, <2>1
  <2>3. a + b - c \in -1..1
    BY <2>1, <2>2
  <2> QED
    BY <2>1, <2>3 DEF a, b, c
<1>9. CASE ready < prep
  <2>1. unseen /\ OrderTiming(o).prep = None
    BY <1>3, <1>4, <1>5, <1>9
  <2> QED
    BY <1>4, <1>5, <1>7, <2>1, NoneIsNoTime DEF unseen
<1>10. CASE prep <= ready
  BY <1>4, <1>5, <1>7, <1>8, <1>10, NoneIsNoTime
<1> QED
  BY <1>3, <1>9, <1>10

\* However the requests overlap and whatever they ask for, a finished order's times sum to
\* within a second, and the reconciliation finds in no history anything but a READY that was
\* undone before a cancellation or one asked for before the order was seen cooking (or in
\* the instant of its start).
THEOREM HistoriesReconcile == KitchenSpec => []TimingReconciles
<1>1. KitchenInv => TimingReconciles
  BY FinishedTimesAdd, OnlyLegalProblems DEF KitchenInv, TimingReconciles
<1> QED
  BY <1>1, KitchenIsInOrder, PTL

-----------------------------------------------------------------------------
(* The undo *)

\* Only a request that was let through undoes a status.
LEMMA UndoIsARequest ==
    ASSUME KitchenInv, KitchenNext, NEW o \in Orders,
           <<order[o].status, order'[o].status>> \in UNDO_TRANSITIONS,
           order'[o].status # order[o].status
    PROVE  o \in Placed /\ UndoInWindow(o) /\ order[o].status \in {"IN_PREP", "READY"}
<1>1. order[o].status \in {"IN_PREP", "READY"} /\ o \in Placed
  BY DEF UNDO_TRANSITIONS, Placed
<1>2. order \in [Orders -> OrderRow]
  BY DEF KitchenInv, KitchenTypeOK
<1>3. PICK r \in Requests : UpdateStatus(r)
  <2>1. ASSUME NEW p \in Orders, PlaceOrder(p) PROVE FALSE
    <3>1. p # o
      BY <1>1, <2>1 DEF PlaceOrder, NoOrder
    <3>2. order'[o] = order[o]
      BY <1>2, <2>1, <3>1 DEF PlaceOrder
    <3> QED
      BY <3>2
  <2>2. order' # order
    OBVIOUS
  <2> QED
    BY <2>1, <2>2 DEF KitchenNext, Wait, Ask, Refuse
<1>4. PICK p, to : /\ p = request[r].order /\ to = request[r].to /\ Allowed(p, to)
                   /\ order' = [order EXCEPT ![p].status = to]
  BY <1>3 DEF UpdateStatus
<1>5. p = o /\ order'[o].status = to
  BY <1>2, <1>4
<1> QED
  BY <1>1, <1>4, <1>5 DEF Allowed

\* An undo reaches back at most two windows behind the last move forward.
THEOREM UndoNeverReachesFurther == KitchenSpec => UndoReachesTwoWindows
<1>1. ASSUME KitchenInv, [KitchenNext]_kitchenVars
      PROVE  [\A o \in Orders :
                  /\ order[o].status # order'[o].status
                  /\ <<order[o].status, order'[o].status>> \in UNDO_TRANSITIONS
                  => now - Max(Forward(o)) <= 2 * UNDO_WINDOW]_kitchenVars
  <2>1. SUFFICES ASSUME KitchenNext, NEW o \in Orders,
                        order[o].status # order'[o].status,
                        <<order[o].status, order'[o].status>> \in UNDO_TRANSITIONS
                 PROVE  now - Max(Forward(o)) <= 2 * UNDO_WINDOW
    BY <1>1
  <2>2. o \in Placed /\ UndoInWindow(o) /\ order[o].status \in {"IN_PREP", "READY"}
    BY <1>1, <2>1, UndoIsARequest
  <2>3. PICK f \in log[o] : <<f.from, f.to>> \notin UNDO_TRANSITIONS /\ now <= f.at + 2 * UNDO_WINDOW
    BY <1>1, <2>2, UndoIsNearAMoveForward
  <2>4. now \in Nat /\ HistoryIsSound(o) /\ \A e \in log[o] : e.at \in Nat
    BY <1>1, <2>2, OrderFacts
  <2>5. Forward(o) \subseteq Nat /\ f.at \in Forward(o) /\ \A t \in Forward(o) : t <= now
    BY <2>3, <2>4 DEF Forward, HistoryIsSound
  <2>6. Max(Forward(o)) \in Forward(o) /\ f.at <= Max(Forward(o))
    BY <2>4, <2>5, MaxIsGreatest
  <2> QED
    BY <2>3, <2>4, <2>5, <2>6 DEF UNDO_WINDOW
<1> QED
  BY <1>1, KitchenIsInOrder, PTL DEF KitchenSpec, UndoReachesTwoWindows

-----------------------------------------------------------------------------
(* The queue *)

\* The three severities, and what each makes of an age.
LEMMA SeverityCases ==
    ASSUME NEW a \in Nat
    PROVE  /\ Severity(a) = "critical" <=> a >= 100
           /\ Severity(a) = "warning" <=> a >= 70 /\ a <= 99
           /\ Severity(a) = "ok" <=> a <= 69
           /\ Severity(a) \in {"critical", "warning", "ok"}
BY DEF Severity, SLA_WARNING_MINUTES, SLA_CRITICAL_MINUTES

\* A score lies in the band of its severity, whatever the status and the slots.
LEMMA CriticalScore ==
    ASSUME NEW a \in Nat, NEW n \in Nat, NEW s \in {"NEW", "IN_PREP"}, Severity(a) = "critical"
    PROVE  PriorityScore(a, n, s) \in Nat /\ PriorityScore(a, n, s) >= 25000
<1> DEFINE extra == 300 * (IF n < 5 THEN n ELSE 5)
<1>1. extra \in Nat /\ extra <= 1500
  OBVIOUS
<1>2. SlaMultiplier(a) = 25 /\ a >= 100
  BY SeverityCases DEF SlaMultiplier
<1>3. PriorityScore(a, n, s) = a * STATUS_WEIGHT[s] * 25 + extra
  BY <1>2 DEF PriorityScore
<1>4. STATUS_WEIGHT[s] = 12 \/ STATUS_WEIGHT[s] = 10
  BY DEF STATUS_WEIGHT
<1> HIDE DEF extra
<1>5. PriorityScore(a, n, s) = a * 12 * 25 + extra \/ PriorityScore(a, n, s) = a * 10 * 25 + extra
  BY <1>3, <1>4
<1> QED
  BY <1>1, <1>2, <1>5

LEMMA WarningScore ==
    ASSUME NEW a \in Nat, NEW n \in Nat, NEW s \in {"NEW", "IN_PREP"}, Severity(a) = "warning"
    PROVE  /\ PriorityScore(a, n, s) \in Nat
           /\ PriorityScore(a, n, s) >= 10500 /\ PriorityScore(a, n, s) <= 19320
<1> DEFINE extra == 300 * (IF n < 5 THEN n ELSE 5)
<1>1. extra \in Nat /\ extra <= 1500
  OBVIOUS
<1>2. SlaMultiplier(a) = 15 /\ a >= 70 /\ a <= 99
  BY SeverityCases DEF SlaMultiplier
<1>3. PriorityScore(a, n, s) = a * STATUS_WEIGHT[s] * 15 + extra
  BY <1>2 DEF PriorityScore
<1>4. STATUS_WEIGHT[s] = 12 \/ STATUS_WEIGHT[s] = 10
  BY DEF STATUS_WEIGHT
<1> HIDE DEF extra
<1>5. PriorityScore(a, n, s) = a * 12 * 15 + extra \/ PriorityScore(a, n, s) = a * 10 * 15 + extra
  BY <1>3, <1>4
<1> QED
  BY <1>1, <1>2, <1>5

LEMMA OkScore ==
    ASSUME NEW a \in Nat, NEW n \in Nat, NEW s \in {"NEW", "IN_PREP"}, Severity(a) = "ok"
    PROVE  PriorityScore(a, n, s) \in Nat /\ PriorityScore(a, n, s) <= 9780
<1> DEFINE extra == 300 * (IF n < 5 THEN n ELSE 5)
<1>1. extra \in Nat /\ extra <= 1500
  OBVIOUS
<1>2. SlaMultiplier(a) = 10 /\ a <= 69
  BY SeverityCases DEF SlaMultiplier
<1>3. PriorityScore(a, n, s) = a * STATUS_WEIGHT[s] * 10 + extra
  BY <1>2 DEF PriorityScore
<1>4. STATUS_WEIGHT[s] = 12 \/ STATUS_WEIGHT[s] = 10
  BY DEF STATUS_WEIGHT
<1> HIDE DEF extra
<1>5. PriorityScore(a, n, s) = a * 12 * 10 + extra \/ PriorityScore(a, n, s) = a * 10 * 10 + extra
  BY <1>3, <1>4
<1> QED
  BY <1>1, <1>2, <1>5

LEMMA ScoresLead ==
    ASSUME NEW a \in Nat, NEW m \in Nat, NEW s \in {"NEW", "IN_PREP"},
           NEW b \in Nat, NEW n \in Nat, NEW t \in {"NEW", "IN_PREP"}
    PROVE  /\ Severity(a) = "critical" /\ Severity(b) # "critical"
                 => PriorityScore(a, m, s) > PriorityScore(b, n, t)
           /\ Severity(a) = "warning" /\ Severity(b) = "ok"
                 => PriorityScore(a, m, s) > PriorityScore(b, n, t)
<1>1. ASSUME Severity(a) = "critical", Severity(b) # "critical"
      PROVE  PriorityScore(a, m, s) > PriorityScore(b, n, t)
  <2>1. PriorityScore(a, m, s) \in Nat /\ PriorityScore(a, m, s) >= 25000
    BY <1>1, CriticalScore
  <2>2. Severity(b) = "warning" \/ Severity(b) = "ok"
    BY <1>1, SeverityCases
  <2>3. PriorityScore(b, n, t) \in Nat /\ PriorityScore(b, n, t) <= 19320
    <3>1. Severity(b) = "warning" => PriorityScore(b, n, t) \in Nat /\ PriorityScore(b, n, t) <= 19320
      BY WarningScore
    <3>2. Severity(b) = "ok" => PriorityScore(b, n, t) \in Nat /\ PriorityScore(b, n, t) <= 9780
      BY OkScore
    <3> QED
      BY <2>2, <3>1, <3>2
  <2> QED
    BY <2>1, <2>3
<1>2. ASSUME Severity(a) = "warning", Severity(b) = "ok"
      PROVE  PriorityScore(a, m, s) > PriorityScore(b, n, t)
  <2>1. PriorityScore(a, m, s) \in Nat /\ PriorityScore(a, m, s) >= 10500
    BY <1>2, WarningScore
  <2>2. PriorityScore(b, n, t) \in Nat /\ PriorityScore(b, n, t) <= 9780
    BY <1>2, OkScore
  <2> QED
    BY <2>1, <2>2
<1> QED
  BY <1>1, <1>2

\* An order in the queue has an age and one of the two statuses that are scored.
LEMMA QueueFacts ==
    ASSUME KitchenInv, NEW o \in Queue
    PROVE  /\ Age(o) \in Nat /\ order[o].status \in {"NEW", "IN_PREP"}
           /\ order[o].created \in Nat /\ order[o].created <= now /\ now \in Nat
           /\ 60 * Age(o) >= now - order[o].created - 29
<1>1. o \in Placed /\ order[o].status \in {"NEW", "IN_PREP"}
  BY DEF Queue
<1>2. order[o].created \in Nat /\ order[o].created <= now /\ now \in Nat
  BY <1>1, TimesAreOrdered
<1>3. ASSUME NEW d \in Nat PROVE (d + 30) \div 60 \in Nat /\ 60 * ((d + 30) \div 60) >= d - 29
  OBVIOUS
<1>4. now - order[o].created \in Nat
  BY <1>2
<1> QED
  BY <1>1, <1>2, <1>3, <1>4 DEF Age

\* What the timing board shows as late has waited ten minutes or cooked for twelve, to
\* the nearest second, and so is warned of by its age in tenths of a minute.
LEMMA LateIsOld ==
    ASSUME KitchenInv, NEW o \in Queue, o \in Delayed
    PROVE  Age(o) >= 70
<1> DEFINE created == order[o].created
           started == FirstInto(o, "IN_PREP")
           waiting == IF order[o].status = "NEW" THEN NonNegDelta(now, created) ELSE None
           cooking == IF order[o].status = "IN_PREP" THEN NonNegDelta(now, started) ELSE None
<1>1. o \in Placed /\ order[o].status \in {"NEW", "IN_PREP"}
  BY DEF Queue
<1>2. /\ created \in Nat /\ created <= now /\ now \in Nat
      /\ started # None => started \in Nat /\ created <= started /\ started <= now
  BY <1>1, TimesAreOrdered
<1>3. DelayState(waiting, cooking) # "ok"
  BY <1>1 DEF Delayed, OrderTiming, TERMINAL_STATES
<1>4. waiting # None => waiting = Whole(now - created)
  BY <1>2 DEF NonNegDelta
<1>5. cooking # None => cooking = Whole(now - started) /\ started # None
  BY <1>2 DEF NonNegDelta
<1>6. Age(o) \in Nat /\ 60 * Age(o) >= now - created - 29
  BY QueueFacts
<1> HIDE DEF waiting, cooking, created, started
<1>7. waiting # None => waiting \in Nat /\ 10 * waiting <= now - created + 5
  <2>1. now - created \in Nat
    BY <1>2
  <2> QED
    BY <1>4, <2>1, WholeIsNear
<1>8. cooking # None => cooking \in Nat /\ 10 * cooking <= now - created + 5
  <2> SUFFICES ASSUME cooking # None
               PROVE  cooking \in Nat /\ 10 * cooking <= now - created + 5
    OBVIOUS
  <2>1. started \in Nat /\ created <= started /\ now - started \in Nat
    BY <1>2, <1>5
  <2>2. cooking \in Nat /\ 10 * cooking <= now - started + 5
    BY <1>5, <2>1, WholeIsNear
  <2> QED
    BY <1>2, <2>1, <2>2
<1>9. (waiting # None /\ waiting >= 600) \/ (cooking # None /\ cooking >= 720)
  BY <1>3, <1>7, <1>8 DEF DelayState
<1>10. now - created >= 5995
  BY <1>2, <1>7, <1>8, <1>9
<1> QED
  BY <1>2, <1>6, <1>10

\* "Breached orders always lead the queue", and the cook is told one thing, for any
\* number of orders, slots and instants.
THEOREM QueueServesTheLate == KitchenSpec => [](LateOnesLead /\ HintsAgree)
<1>1. KitchenInv => LateOnesLead
  <2> SUFFICES ASSUME KitchenInv, NEW o \in Queue, NEW p \in Queue,
                      NEW m \in Slots, NEW n \in Slots
               PROVE  /\ Severity(Age(o)) = "critical" /\ Severity(Age(p)) # "critical"
                            => Score(o, m) > Score(p, n)
                      /\ Severity(Age(o)) = "warning" /\ Severity(Age(p)) = "ok"
                            => Score(o, m) > Score(p, n)
    BY DEF LateOnesLead
  <2>1. /\ Age(o) \in Nat /\ order[o].status \in {"NEW", "IN_PREP"}
        /\ Age(p) \in Nat /\ order[p].status \in {"NEW", "IN_PREP"}
    BY QueueFacts
  <2>2. m \in Nat /\ n \in Nat
    BY TimesAreNat
  <2> QED
    BY <2>1, <2>2, ScoresLead DEF Score
<1>2. KitchenInv => HintsAgree
  <2> SUFFICES ASSUME KitchenInv, NEW o \in Queue
               PROVE  /\ o \in Delayed => Starts(o)
                      /\ \A P \in SUBSET (Queue \ {o}) :
                            Starts(o) <=> \/ Hint(o, P) \in {"hurry", "soon", "now"}
                                          \/ Hint(o, P) = "together" /\ Hint(o, {}) = "now"
    BY DEF HintsAgree
  <2>1. Age(o) \in Nat /\ order[o].status \in {"NEW", "IN_PREP"}
    BY QueueFacts
  <2>2. ASSUME o \in Delayed PROVE Starts(o)
    <3>1. Age(o) >= 70
      BY <2>2, LateIsOld
    <3>2. Severity(Age(o)) # "ok"
      BY <2>1, <3>1, SeverityCases
    <3> QED
      BY <3>2 DEF Starts, ShouldBeStarted
  <2>3. ASSUME NEW P \in SUBSET (Queue \ {o})
        PROVE  Starts(o) <=> \/ Hint(o, P) \in {"hurry", "soon", "now"}
                             \/ Hint(o, P) = "together" /\ Hint(o, {}) = "now"
    <3>1. Severity(Age(o)) \in {"critical", "warning", "ok"}
      BY <2>1, SeverityCases
    <3>2. CASE Severity(Age(o)) # "ok"
      <4>1. Starts(o) /\ Hint(o, P) \in {"hurry", "soon"}
        BY <3>1, <3>2 DEF Starts, ShouldBeStarted, Hint, ActionHint
      <4> QED
        BY <4>1
    <3>3. CASE Severity(Age(o)) = "ok" /\ order[o].status = "IN_PREP"
      <4>1. ~Starts(o) /\ Hint(o, P) = "cooking"
        BY <3>3 DEF Starts, ShouldBeStarted, Hint, ActionHint
      <4> QED
        BY <4>1
    <3>4. CASE Severity(Age(o)) = "ok" /\ order[o].status = "NEW"
      <4>1. Starts(o) <=> Age(o) >= 10 * START_IMMEDIATELY_MINUTES
        BY <3>4 DEF Starts, ShouldBeStarted
      <4>2. Hint(o, {}) = IF Age(o) >= 10 * START_IMMEDIATELY_MINUTES THEN "now" ELSE "may wait"
        BY <3>4 DEF Hint, ActionHint
      <4>3. Hint(o, P) = IF P # {} THEN "together" ELSE Hint(o, {})
        BY <3>4 DEF Hint, ActionHint
      <4> QED
        BY <4>1, <4>2, <4>3
    <3> QED
      BY <2>1, <3>2, <3>3, <3>4
  <2> QED
    BY <2>2, <2>3
<1> QED
  BY <1>1, <1>2, KitchenIsInOrder, PTL

-----------------------------------------------------------------------------
(* The board: what an emit says *)

Badges == {"connecting", "live", "reconnecting", "polling", "stale", "offline"}

\* Only an open socket and an answer that did not fail make a board live.
LEMMA LinkFacts ==
    ASSUME NEW s
    PROVE  /\ Link(s) \in Badges
           /\ s.socket # "open" => Link(s) # "live"
           /\ s.failed => Link(s) # "live"
<1>1. CASE s.age = Never
  BY <1>1 DEF Link, Badges
<1>2. CASE s.age # Never /\ s.socket = "open"
  BY <1>2 DEF Link, Badges
<1>3. CASE s.age # Never /\ s.socket # "open"
  BY <1>3 DEF Link, Badges
<1> QED
  BY <1>1, <1>2, <1>3

-----------------------------------------------------------------------------
(* Refetches *)

LEMMA NewFetchIsARow == NewFetch \in FetchRow /\ <<NewFetch>> \in Seq(FetchRow)
BY BoundsAreNat DEF NewFetch, FetchRow

\* A refetch that starts has been served nothing.
LEMMA FetchStarts ==
    ASSUME fetches' = <<NewFetch>>, version' \in Nat,
           board'.orders <= version', board'.timing <= version'
    PROVE  FetchesAreSound' /\ fetches' # <<>>
<1>1. fetches' \in Seq(FetchRow) /\ Len(fetches') = 1 /\ DOMAIN fetches' = {1} /\ fetches'[1] = NewFetch
  BY NewFetchIsARow
<1>2. \A i \in DOMAIN fetches' : fetches'[i].orders = 0 /\ fetches'[i].timing = 0
  BY <1>1 DEF NewFetch
<1>3. \A i \in DOMAIN fetches' :
          /\ fetches'[i].orders <= version' /\ fetches'[i].timing <= version'
          /\ ~(fetches'[i].orders > 0) /\ ~(fetches'[i].timing > 0)
  BY <1>2
<1> QED
  BY <1>1, <1>3 DEF FetchesAreSound

\* One that is left alone stays sound while the kitchen changes.
LEMMA FetchesStay ==
    ASSUME BoardInv, UNCHANGED <<fetches, board>>, version' \in Nat, version <= version'
    PROVE  FetchesAreSound'
<1>1. version \in Nat /\ board \in [orders : 0 .. MaxVersion, timing : 0 .. MaxVersion] /\ MaxVersion \in Nat
  BY BoundsAreNat DEF BoardInv, LiveTypeOK
<1>2. /\ fetches \in Seq(FetchRow) /\ Len(fetches) <= 1
      /\ board.orders <= version /\ board.timing <= version
  BY DEF BoardInv, FetchesAreSound
<1>3. board.orders \in Nat /\ board.timing \in Nat
  BY <1>1
<1>4. board'.orders <= version' /\ board'.timing <= version'
  BY <1>1, <1>2, <1>3
<1>5. ASSUME NEW i \in DOMAIN fetches'
      PROVE  /\ fetches'[i].orders <= version' /\ fetches'[i].timing <= version'
             /\ fetches'[i].orders > 0 => board'.orders <= fetches'[i].orders
             /\ fetches'[i].timing > 0 => board'.timing <= fetches'[i].timing
  <2>1. i \in DOMAIN fetches /\ fetches[i] \in FetchRow
    BY <1>2, <1>5
  <2>2. fetches[i].orders \in Nat /\ fetches[i].timing \in Nat
    BY <1>1, <2>1 DEF FetchRow
  <2>3. /\ fetches[i].orders <= version /\ fetches[i].timing <= version
        /\ fetches[i].orders > 0 => board.orders <= fetches[i].orders
        /\ fetches[i].timing > 0 => board.timing <= fetches[i].timing
    BY <2>1 DEF BoardInv, FetchesAreSound
  <2> QED
    BY <1>1, <2>2, <2>3
<1> QED
  BY <1>2, <1>4, <1>5 DEF FetchesAreSound

\* What a synchronisation does, whoever asks for it.
LEMMA SyncFacts ==
    ASSUME BoardInv, NEW s, Sync(s), UNCHANGED <<version, board>>
    PROVE  /\ FetchesAreSound' /\ fetches' # <<>>
           /\ queued' \in BOOLEAN /\ badge' \in Badges
<1>1. /\ version \in Nat /\ queued \in BOOLEAN /\ badge \in Badges
      /\ board.orders <= version /\ board.timing <= version
  BY BoundsAreNat DEF BoardInv, LiveTypeOK, FetchesAreSound, Badges
<1>2. CASE fetches = <<>>
  <2>1. fetches' = <<NewFetch>> /\ badge' = Link(s) /\ queued' = queued
    BY <1>2 DEF Sync
  <2>2. FetchesAreSound' /\ fetches' # <<>>
    BY <1>1, <2>1, FetchStarts
  <2> QED
    BY <1>1, <2>1, <2>2, LinkFacts
<1>3. CASE fetches # <<>>
  <2>1. fetches' = fetches /\ badge' = badge /\ queued' = TRUE
    BY <1>3 DEF Sync
  <2>2. FetchesAreSound'
    BY <1>1, <2>1, FetchesStay
  <2> QED
    BY <1>1, <1>3, <2>1, <2>2
<1> QED
  BY <1>2, <1>3

-----------------------------------------------------------------------------
(* The board's steps *)

Snapshots == [socket : {"connecting", "open", "closed"}, connected : BOOLEAN,
              attempted : BOOLEAN, fallback : BOOLEAN, age : 0 .. Never, failed : BOOLEAN]

\* The types, one by one, and what the counts say.
LEMMA BoardFacts ==
    ASSUME BoardInv
    PROVE  /\ version \in Nat /\ owed \in Nat /\ sends \in Nat /\ frames \in Nat /\ faults \in Nat
           /\ poll \in Nat /\ poll <= POLL_INTERVAL /\ MaxVersion \in Nat /\ MaxFaults \in Nat
           /\ version >= 1 /\ version <= MaxVersion /\ faults <= MaxFaults
           /\ owed + sends <= version - 1
           /\ wire = "dead" => frames = 0
           /\ wire = "up" => owed + sends + frames + Greeting <= version
           /\ Greeting \in {0, 1} /\ wire \in {"up", "dead"}
           /\ server \in {"none", "accepted", "greeting", "listening"}
           /\ snap \in Snapshots /\ badge \in Badges
           /\ reconnect \in BOOLEAN /\ queued \in BOOLEAN
           /\ board \in [orders : 0 .. MaxVersion, timing : 0 .. MaxVersion]
           /\ fetches = <<>> => ~queued
<1>1. LiveTypeOK /\ FramesAreFew /\ (fetches = <<>> => ~queued)
  BY DEF BoardInv
<1>2. MaxVersion \in Nat /\ MaxFaults \in Nat
  BY BoundsAreNat
<1>3. /\ version \in Nat /\ owed \in Nat /\ sends \in Nat /\ frames \in Nat /\ faults \in Nat
      /\ poll \in Nat /\ poll <= POLL_INTERVAL
      /\ version >= 1 /\ version <= MaxVersion /\ faults <= MaxFaults
  BY <1>1, <1>2 DEF LiveTypeOK, POLL_INTERVAL
<1>4. Greeting \in {0, 1}
  BY DEF Greeting
<1> QED
  BY <1>1, <1>2, <1>3, <1>4 DEF LiveTypeOK, FramesAreFew, Snapshots, Badges

\* The counts bound themselves.
LEMMA CountBounds ==
    ASSUME NEW v \in Nat, NEW m \in Nat, NEW o \in Nat, NEW n \in Nat, NEW f \in Nat, NEW g \in Nat,
           v <= m, o + n <= v - 1, f = 0 \/ o + n + f + g <= v
    PROVE  o \in 0 .. m /\ n \in 0 .. m /\ f \in 0 .. m
OBVIOUS

LEMMA CountsAreTyped ==
    ASSUME FramesAreFew', version' \in Nat, version' <= MaxVersion,
           owed' \in Nat, sends' \in Nat, frames' \in Nat, wire' \in {"up", "dead"}
    PROVE  owed' \in 0 .. MaxVersion /\ sends' \in 0 .. MaxVersion /\ frames' \in 0 .. MaxVersion
<1>1. MaxVersion \in Nat /\ Greeting' \in Nat
  BY BoundsAreNat DEF Greeting
<1>2. /\ owed' + sends' <= version' - 1
      /\ frames' = 0 \/ owed' + sends' + frames' + Greeting' <= version'
  BY DEF FramesAreFew
<1> QED
  BY <1>1, <1>2, CountBounds

LEMMA CountFacts ==
    ASSUME BoardInv
    PROVE  /\ version \in Nat /\ owed \in Nat /\ sends \in Nat /\ frames \in Nat /\ Greeting \in Nat
           /\ owed + sends <= version - 1
           /\ wire = "up" => owed + sends + frames + Greeting <= version
BY BoardFacts

LEMMA HandleOpenKeeps ==
    ASSUME BoardInv, HandleOpen
    PROVE  BoardInv'
<1> DEFINE s == [snap EXCEPT !.socket = "open", !.connected = TRUE,
                             !.attempted = FALSE, !.fallback = FALSE]
<1>1. /\ snap' = s
      /\ UNCHANGED <<serverVars, socketVars, board, poll, faults>>
      /\ IF fetches = <<>> THEN Sync(s)
         ELSE queued' = TRUE /\ badge' = Link(s) /\ UNCHANGED fetches
  BY DEF HandleOpen
<1>2. s \in Snapshots
  BY BoardFacts DEF Snapshots
<1> HIDE DEF s
<1>3. FetchesAreSound' /\ fetches' # <<>> /\ queued' \in BOOLEAN /\ badge' \in Badges
  <2>1. CASE fetches = <<>>
    BY <1>1, <2>1, SyncFacts DEF serverVars
  <2>2. CASE fetches # <<>>
    BY <1>1, <2>2, BoardFacts, FetchesStay, LinkFacts DEF serverVars
  <2> QED
    BY <2>1, <2>2
<1>4. FramesAreFew'
  BY <1>1 DEF BoardInv, FramesAreFew, Greeting, serverVars, socketVars
<1>5. LiveTypeOK'
  BY <1>1, <1>2, <1>3 DEF BoardInv, LiveTypeOK, Snapshots, Badges, serverVars, socketVars
<1> QED
  BY <1>3, <1>4, <1>5 DEF BoardInv, LiveIsPolled

LEMMA HandleMessageKeeps ==
    ASSUME BoardInv, HandleMessage
    PROVE  BoardInv'
<1>1. /\ frames > 0 /\ frames' = frames - 1 /\ Sync(snap)
      /\ UNCHANGED <<serverVars, wire, reconnect, snap, board, poll, faults>>
  BY DEF HandleMessage
<1>2. FetchesAreSound' /\ fetches' # <<>> /\ queued' \in BOOLEAN /\ badge' \in Badges
  BY <1>1, SyncFacts DEF serverVars
<1>3. frames' \in Nat /\ frames' <= frames /\ UNCHANGED <<version, owed, sends, server, wire>>
  BY <1>1, BoardFacts DEF serverVars
<1>4. FramesAreFew'
  <2>1. Greeting' = Greeting
    BY <1>3 DEF Greeting
  <2>2. owed' + sends' <= version' - 1
    BY <1>3, CountFacts
  <2>3. wire' # "dead"
    BY <1>1, <1>3, BoardFacts
  <2>4. wire' = "up" => owed' + sends' + frames' + Greeting' <= version'
    BY <1>1, <1>3, <2>1, CountFacts
  <2> QED
    BY <2>2, <2>3, <2>4 DEF FramesAreFew
<1>5. LiveTypeOK'
  <2>1. frames' \in 0 .. MaxVersion
    BY <1>3, <1>4, BoardFacts, CountsAreTyped
  <2> QED
    BY <1>1, <1>2, <2>1 DEF BoardInv, LiveTypeOK, Badges, serverVars
<1> QED
  BY <1>2, <1>4, <1>5 DEF BoardInv, LiveIsPolled

LEMMA HandleCloseKeeps ==
    ASSUME BoardInv, HandleClose
    PROVE  BoardInv'
<1> DEFINE s == [snap EXCEPT !.socket = "closed", !.fallback = FALSE]
<1>1. /\ snap' = [s EXCEPT !.attempted = @ \/ ~reconnect] /\ badge' = Link(s)
      /\ reconnect' = TRUE /\ frames' = 0 /\ wire = "dead"
      /\ UNCHANGED <<serverVars, wire, board, fetchVars, poll, faults>>
  BY DEF HandleClose
<1>2. s \in Snapshots /\ s.socket = "closed" /\ snap' \in Snapshots
  <2>1. s \in Snapshots /\ s.socket = "closed"
    BY BoardFacts DEF Snapshots
  <2> HIDE DEF s
  <2>2. (s.attempted \/ ~reconnect) \in BOOLEAN
    BY <2>1, BoardFacts
  <2> QED
    BY <1>1, <2>1, <2>2 DEF Snapshots
<1> HIDE DEF s
<1>3. badge' \in Badges /\ badge' # "live"
  BY <1>1, <1>2, LinkFacts
<1>4. FetchesAreSound' /\ (fetches' = <<>> => ~queued')
  BY <1>1, BoardFacts, FetchesStay DEF serverVars, fetchVars
<1>5. FramesAreFew'
  BY <1>1 DEF BoardInv, FramesAreFew, serverVars
<1>6. LiveTypeOK'
  BY <1>1, <1>2, <1>3, BoundsAreNat DEF BoardInv, LiveTypeOK, Snapshots, Badges, serverVars, fetchVars
<1> QED
  BY <1>3, <1>4, <1>5, <1>6 DEF BoardInv, LiveIsPolled

\* A new socket carries nothing yet.
LEMMA OpenSocketFacts ==
    ASSUME BoardInv, NEW s \in Snapshots, OpenSocket(s), UNCHANGED <<version, owed>>
    PROVE  /\ FramesAreFew' /\ snap' \in Snapshots /\ snap'.socket = "connecting"
           /\ sends' = 0 /\ frames' = 0 /\ server' = "none" /\ wire' = "up"
<1>1. /\ snap' = [s EXCEPT !.socket = "connecting"]
      /\ sends' = 0 /\ frames' = 0 /\ server' = "none" /\ wire' = "up"
  BY DEF OpenSocket
<1>2. snap' \in Snapshots /\ snap'.socket = "connecting"
  BY <1>1 DEF Snapshots
<1>3. Greeting' = 1
  BY <1>1 DEF Greeting
<1>4. FramesAreFew'
  BY <1>1, <1>3, BoardFacts DEF FramesAreFew
<1> QED
  BY <1>1, <1>2, <1>4

LEMMA ReconnectKeeps ==
    ASSUME BoardInv, Reconnect
    PROVE  BoardInv'
<1>1. /\ OpenSocket(snap) /\ reconnect' = FALSE /\ badge' = Link(snap')
      /\ UNCHANGED <<version, owed, board, fetchVars, poll, faults>>
  BY DEF Reconnect
<1>2. /\ FramesAreFew' /\ snap' \in Snapshots /\ snap'.socket = "connecting"
      /\ sends' = 0 /\ frames' = 0 /\ server' = "none" /\ wire' = "up"
  BY <1>1, BoardFacts, OpenSocketFacts
<1>3. badge' \in Badges /\ badge' # "live"
  BY <1>1, <1>2, LinkFacts
<1>4. FetchesAreSound' /\ (fetches' = <<>> => ~queued')
  BY <1>1, BoardFacts, FetchesStay DEF fetchVars
<1>5. LiveTypeOK'
  <2>1. 0 \in 0 .. MaxVersion
    BY BoundsAreNat
  <2> QED
    BY <1>1, <1>2, <1>3, <2>1 DEF BoardInv, LiveTypeOK, Snapshots, Badges, fetchVars
<1> QED
  BY <1>2, <1>3, <1>4, <1>5 DEF BoardInv, LiveIsPolled

LEMMA RefreshKeeps ==
    ASSUME BoardInv, Refresh
    PROVE  BoardInv'
<1>1. Sync(snap) /\ UNCHANGED <<serverVars, socketVars, snap, board, poll, faults>>
  BY DEF Refresh
<1>2. FetchesAreSound' /\ fetches' # <<>> /\ queued' \in BOOLEAN /\ badge' \in Badges
  BY <1>1, SyncFacts DEF serverVars
<1>3. FramesAreFew'
  BY <1>1 DEF BoardInv, FramesAreFew, Greeting, serverVars, socketVars
<1>4. LiveTypeOK'
  BY <1>1, <1>2 DEF BoardInv, LiveTypeOK, Badges, serverVars, socketVars
<1> QED
  BY <1>2, <1>3, <1>4 DEF BoardInv, LiveIsPolled

LEMMA ResumeKeeps ==
    ASSUME BoardInv, Resume
    PROVE  BoardInv'
<1> DEFINE s == [snap EXCEPT !.attempted = FALSE]
<1>1. /\ OpenSocket(s) /\ reconnect' = FALSE /\ badge' = Link(snap')
      /\ IF fetches = <<>> THEN fetches' = <<NewFetch>> /\ UNCHANGED queued
         ELSE queued' = TRUE /\ UNCHANGED fetches
      /\ UNCHANGED <<version, owed, board, poll, faults>>
  BY DEF Resume
<1>2. s \in Snapshots
  BY BoardFacts DEF Snapshots
<1> HIDE DEF s
<1>3. /\ FramesAreFew' /\ snap' \in Snapshots /\ snap'.socket = "connecting"
      /\ sends' = 0 /\ frames' = 0 /\ server' = "none" /\ wire' = "up"
  BY <1>1, <1>2, OpenSocketFacts
<1>4. badge' \in Badges /\ badge' # "live"
  BY <1>1, <1>3, LinkFacts
<1>5. FetchesAreSound' /\ fetches' # <<>> /\ queued' \in BOOLEAN
  <2>1. board.orders <= version /\ board.timing <= version
    BY DEF BoardInv, FetchesAreSound
  <2>2. CASE fetches = <<>>
    BY <1>1, <2>1, <2>2, BoardFacts, FetchStarts
  <2>3. CASE fetches # <<>>
    BY <1>1, <2>3, BoardFacts, FetchesStay
  <2> QED
    BY <2>2, <2>3
<1>6. LiveTypeOK'
  <2>1. 0 \in 0 .. MaxVersion
    BY BoundsAreNat
  <2> QED
    BY <1>1, <1>3, <1>4, <1>5, <2>1 DEF BoardInv, LiveTypeOK, Snapshots, Badges
<1> QED
  BY <1>3, <1>4, <1>5, <1>6 DEF BoardInv, LiveIsPolled

\* What the screen has aged, the interval has come nearer.
LEMMA TickKeeps ==
    ASSUME BoardInv, Tick
    PROVE  BoardInv'
<1>1. /\ poll > 0 /\ poll' = poll - 1
      /\ snap' = [snap EXCEPT !.age = IF @ < STALE_AFTER THEN @ + 1 ELSE @]
      /\ UNCHANGED <<serverVars, socketVars, board, fetchVars, badge, faults>>
  BY DEF Tick
<1>2. snap.age \in 0 .. Never /\ poll \in Nat /\ poll <= POLL_INTERVAL
  BY BoardFacts DEF Snapshots
<1>3. snap'.age \in 0 .. Never /\ snap'.age <= snap.age + 1
  <2>1. snap'.age = IF snap.age < STALE_AFTER THEN snap.age + 1 ELSE snap.age
    BY <1>1, BoardFacts DEF Snapshots
  <2> QED
    BY <1>2, <2>1 DEF Never, STALE_AFTER
<1>4. snap' \in Snapshots
  <2>1. PICK a : snap' = [snap EXCEPT !.age = a]
    BY <1>1
  <2>2. snap'.age = a
    BY <2>1, BoardFacts DEF Snapshots
  <2> QED
    BY <1>3, <2>1, <2>2, BoardFacts DEF Snapshots
<1>5. poll' \in 0 .. POLL_INTERVAL /\ snap'.age + poll' <= snap.age + poll
  BY <1>1, <1>2, <1>3 DEF POLL_INTERVAL, Never, STALE_AFTER
<1>6. FetchesAreSound' /\ (fetches' = <<>> => ~queued')
  BY <1>1, BoardFacts, FetchesStay DEF serverVars, fetchVars
<1>7. FramesAreFew'
  BY <1>1 DEF BoardInv, FramesAreFew, Greeting, serverVars, socketVars
<1>8. LiveTypeOK'
  BY <1>1, <1>4, <1>5 DEF BoardInv, LiveTypeOK, Snapshots, serverVars, socketVars, fetchVars
<1>9. LiveIsPolled'
  <2>1. SUFFICES ASSUME badge = "live", fetches = <<>>
                 PROVE  snap'.age + poll' <= LIVE_SAFETY_POLL - 1 + POLL_INTERVAL
    BY <1>1 DEF LiveIsPolled, fetchVars
  <2>2. snap.age + poll <= LIVE_SAFETY_POLL - 1 + POLL_INTERVAL
    BY <2>1 DEF BoardInv, LiveIsPolled
  <2>3. snap.age \in Nat /\ snap'.age \in Nat /\ poll' \in Nat
    BY <1>2, <1>3, <1>5 DEF POLL_INTERVAL, Never, STALE_AFTER
  <2> QED
    BY <1>2, <1>5, <2>2, <2>3 DEF LIVE_SAFETY_POLL, POLL_INTERVAL
<1> QED
  BY <1>6, <1>7, <1>8, <1>9 DEF BoardInv

LEMMA PollTickKeeps ==
    ASSUME BoardInv, PollTick
    PROVE  BoardInv'
<1>1. /\ poll' = POLL_INTERVAL
      /\ IF ShouldPollNow(snap) THEN Sync(snap) ELSE badge' = Link(snap) /\ UNCHANGED fetchVars
      /\ UNCHANGED <<serverVars, socketVars, snap, board, faults>>
  BY DEF PollTick
<1>2. FramesAreFew'
  BY <1>1 DEF BoardInv, FramesAreFew, Greeting, serverVars, socketVars
<1>3. CASE ShouldPollNow(snap)
  <2>1. FetchesAreSound' /\ fetches' # <<>> /\ queued' \in BOOLEAN /\ badge' \in Badges
    BY <1>1, <1>3, SyncFacts DEF serverVars
  <2>2. LiveTypeOK'
    BY <1>1, <2>1 DEF BoardInv, LiveTypeOK, Badges, POLL_INTERVAL, serverVars, socketVars
  <2> QED
    BY <1>2, <2>1, <2>2 DEF BoardInv, LiveIsPolled
<1>4. CASE ~ShouldPollNow(snap)
  <2>1. snap.age < LIVE_SAFETY_POLL /\ snap.age \in Nat
    <3>1. ~(snap.age >= LIVE_SAFETY_POLL)
      BY <1>4 DEF ShouldPollNow
    <3>2. snap.age \in 0 .. Never
      BY BoardFacts DEF Snapshots
    <3> QED
      BY <3>1, <3>2 DEF Never, STALE_AFTER, LIVE_SAFETY_POLL
  <2>2. FetchesAreSound' /\ (fetches' = <<>> => ~queued')
    BY <1>1, <1>4, BoardFacts, FetchesStay DEF serverVars, fetchVars
  <2>3. LiveTypeOK'
    BY <1>1, <1>4, LinkFacts DEF BoardInv, LiveTypeOK, Badges, POLL_INTERVAL,
       serverVars, socketVars, fetchVars
  <2>4. LiveIsPolled'
    BY <1>1, <2>1 DEF LiveIsPolled, LIVE_SAFETY_POLL, POLL_INTERVAL
  <2> QED
    BY <1>2, <2>2, <2>3, <2>4 DEF BoardInv
<1> QED
  BY <1>3, <1>4

\* There is one refetch at most, and its row has its types.
LEMMA TheFetch ==
    ASSUME BoardInv, NEW i \in DOMAIN fetches
    PROVE  /\ i = 1 /\ Len(fetches) = 1 /\ DOMAIN fetches = {1} /\ fetches # <<>>
           /\ fetches[1] \in FetchRow
           /\ fetches[1].orders \in Nat /\ fetches[1].timing \in Nat
           /\ fetches[1].orders <= version /\ fetches[1].timing <= version
           /\ fetches[1].orders > 0 => board.orders <= fetches[1].orders
           /\ fetches[1].timing > 0 => board.timing <= fetches[1].timing
           /\ board.orders \in Nat /\ board.timing \in Nat
           /\ board.orders <= version /\ board.timing <= version
<1>1. /\ fetches \in Seq(FetchRow) /\ Len(fetches) <= 1
      /\ board.orders <= version /\ board.timing <= version
  BY DEF BoardInv, FetchesAreSound
<1>2. i = 1 /\ Len(fetches) = 1 /\ DOMAIN fetches = {1} /\ fetches # <<>>
  <2>1. Len(fetches) \in Nat /\ DOMAIN fetches = 1 .. Len(fetches)
    BY <1>1
  <2> QED
    BY <1>1, <2>1
<1>3. fetches[1] \in FetchRow
  BY <1>1, <1>2
<1>4. /\ fetches[1].orders \in Nat /\ fetches[1].timing \in Nat
      /\ board.orders \in Nat /\ board.timing \in Nat
  BY <1>3, BoardFacts DEF FetchRow
<1> QED
  BY <1>1, <1>2, <1>3, <1>4 DEF BoardInv, FetchesAreSound

LEMMA OnlyEntryReplaced ==
    ASSUME NEW S, NEW q \in Seq(S), NEW e \in S, Len(q) = 1
    PROVE  [q EXCEPT ![1] = e] = <<e>>
OBVIOUS

LEMMA OneFetch ==
    ASSUME NEW f \in FetchRow, fetches' = <<f>>,
           board'.orders <= version', board'.timing <= version',
           f.orders <= version', f.timing <= version',
           f.orders > 0 => board'.orders <= f.orders,
           f.timing > 0 => board'.timing <= f.timing
    PROVE  FetchesAreSound' /\ fetches' # <<>>
<1>1. /\ fetches' \in Seq(FetchRow) /\ Len(fetches') = 1
      /\ DOMAIN fetches' = {1} /\ fetches'[1] = f
  OBVIOUS
<1>2. \A j \in DOMAIN fetches' : fetches'[j] = f
  BY <1>1
<1> QED
  BY <1>1, <1>2 DEF FetchesAreSound

\* A refetch that is replaced in its place stays the only one.
LEMMA FetchReplaced ==
    ASSUME BoardInv, NEW i \in DOMAIN fetches, NEW f \in FetchRow,
           fetches' = [fetches EXCEPT ![i] = f], UNCHANGED <<version, board>>,
           f.orders <= version, f.timing <= version,
           f.orders > 0 => board.orders <= f.orders,
           f.timing > 0 => board.timing <= f.timing
    PROVE  FetchesAreSound' /\ fetches' # <<>>
<1>1. i = 1 /\ Len(fetches) = 1 /\ board.orders <= version /\ board.timing <= version
  BY TheFetch
<1>2. fetches' = <<f>>
  <2>1. fetches' = [fetches EXCEPT ![1] = f] /\ fetches \in Seq(FetchRow)
    BY <1>1 DEF BoardInv, FetchesAreSound
  <2> QED
    BY <1>1, <2>1, OnlyEntryReplaced
<1>3. /\ board'.orders <= version' /\ board'.timing <= version'
      /\ f.orders <= version' /\ f.timing <= version'
      /\ f.orders > 0 => board'.orders <= f.orders
      /\ f.timing > 0 => board'.timing <= f.timing
  BY <1>1
<1> QED
  BY <1>2, <1>3, OneFetch

LEMMA ServeOrdersKeeps ==
    ASSUME BoardInv, NEW i \in DOMAIN fetches, ServeOrders(i)
    PROVE  BoardInv'
<1> DEFINE f == [fetches[i] EXCEPT !.orders = version]
<1>1. /\ fetches' = [fetches EXCEPT ![i].orders = version]
      /\ UNCHANGED <<serverVars, socketVars, snap, board, queued, poll, badge, faults>>
  BY DEF ServeOrders
<1>2. /\ f \in FetchRow /\ f.orders = version /\ f.timing = fetches[1].timing
      /\ fetches' = [fetches EXCEPT ![i] = f]
  <2>1. version \in 0 .. MaxVersion
    BY BoardFacts
  <2> QED
    BY <1>1, <2>1, TheFetch DEF FetchRow
<1> HIDE DEF f
<1>3. FetchesAreSound' /\ fetches' # <<>>
  <2>1. /\ f.orders <= version /\ f.timing <= version
        /\ f.orders > 0 => board.orders <= f.orders
        /\ f.timing > 0 => board.timing <= f.timing
    BY <1>2, TheFetch, BoardFacts
  <2>2. UNCHANGED <<version, board>>
    BY <1>1 DEF serverVars
  <2> QED
    BY <1>2, <2>1, <2>2, FetchReplaced
<1>4. FramesAreFew'
  BY <1>1 DEF BoardInv, FramesAreFew, Greeting, serverVars, socketVars
<1>5. LiveTypeOK'
  BY <1>1 DEF BoardInv, LiveTypeOK, serverVars, socketVars
<1> QED
  BY <1>3, <1>4, <1>5 DEF BoardInv, LiveIsPolled

LEMMA ServeTimingKeeps ==
    ASSUME BoardInv, NEW i \in DOMAIN fetches, ServeTiming(i)
    PROVE  BoardInv'
<1> DEFINE f == [fetches[i] EXCEPT !.timing = version]
<1>1. /\ fetches' = [fetches EXCEPT ![i].timing = version]
      /\ UNCHANGED <<serverVars, socketVars, snap, board, queued, poll, badge, faults>>
  BY DEF ServeTiming
<1>2. /\ f \in FetchRow /\ f.timing = version /\ f.orders = fetches[1].orders
      /\ fetches' = [fetches EXCEPT ![i] = f]
  <2>1. version \in 0 .. MaxVersion
    BY BoardFacts
  <2> QED
    BY <1>1, <2>1, TheFetch DEF FetchRow
<1> HIDE DEF f
<1>3. FetchesAreSound' /\ fetches' # <<>>
  <2>1. /\ f.orders <= version /\ f.timing <= version
        /\ f.orders > 0 => board.orders <= f.orders
        /\ f.timing > 0 => board.timing <= f.timing
    BY <1>2, TheFetch, BoardFacts
  <2>2. UNCHANGED <<version, board>>
    BY <1>1 DEF serverVars
  <2> QED
    BY <1>2, <2>1, <2>2, FetchReplaced
<1>4. FramesAreFew'
  BY <1>1 DEF BoardInv, FramesAreFew, Greeting, serverVars, socketVars
<1>5. LiveTypeOK'
  BY <1>1 DEF BoardInv, LiveTypeOK, serverVars, socketVars
<1> QED
  BY <1>3, <1>4, <1>5 DEF BoardInv, LiveIsPolled

\* The board is replaced as a whole by what the refetch was served, or is kept.
LEMMA SettleFacts ==
    ASSUME BoardInv, NEW i \in DOMAIN fetches, Settle(i)
    PROVE  /\ fetches' = (IF queued THEN <<NewFetch>> ELSE <<>>) /\ queued' = FALSE
           /\ badge' = Link(snap') /\ snap' \in Snapshots
           /\ UNCHANGED <<serverVars, socketVars, poll, faults>>
           /\ \/ snap'.failed /\ board' = board
              \/ /\ fetches[1].orders > 0 /\ fetches[1].timing > 0 /\ snap'.age = 0
                 /\ board' = [orders |-> fetches[1].orders, timing |-> fetches[1].timing]
<1>1. i = 1 /\ Len(fetches) = 1 /\ DOMAIN fetches = {1}
  BY TheFetch
<1>2. RemoveAt(fetches, 1) = <<>>
  <2>1. fetches \in Seq(FetchRow)
    BY DEF BoardInv, FetchesAreSound
  <2>2. SubSeq(fetches, 1, 0) = <<>> /\ SubSeq(fetches, 2, 1) = <<>>
    BY <1>1, <2>1
  <2> QED
    BY <1>1, <2>2 DEF RemoveAt
<1>3. Append(<<>>, NewFetch) = <<NewFetch>>
  OBVIOUS
<1>4. fetches' = (IF queued THEN <<NewFetch>> ELSE <<>>)
  BY <1>1, <1>2, <1>3 DEF Settle
<1>5. \/ /\ snap' = [snap EXCEPT !.failed = TRUE] /\ board' = board
      \/ /\ fetches[1].orders > 0 /\ fetches[1].timing > 0
         /\ board' = [orders |-> fetches[1].orders, timing |-> fetches[1].timing]
         /\ snap' = [snap EXCEPT !.age = 0, !.failed = FALSE,
                                 !.fallback = @ \/ (snap.socket # "open" /\ FallbackActive(snap))]
  BY <1>1 DEF Settle
<1>6. CASE snap' = [snap EXCEPT !.failed = TRUE] /\ board' = board
  <2>1. snap' \in Snapshots /\ snap'.failed
    BY <1>6, BoardFacts DEF Snapshots
  <2> QED
    BY <1>4, <1>6, <2>1 DEF Settle
<1>7. CASE /\ fetches[1].orders > 0 /\ fetches[1].timing > 0
           /\ board' = [orders |-> fetches[1].orders, timing |-> fetches[1].timing]
           /\ snap' = [snap EXCEPT !.age = 0, !.failed = FALSE,
                                   !.fallback = @ \/ (snap.socket # "open" /\ FallbackActive(snap))]
  <2>1. PICK b \in BOOLEAN : b = (snap.fallback \/ (snap.socket # "open" /\ FallbackActive(snap)))
    OBVIOUS
  <2>2. snap' = [snap EXCEPT !.age = 0, !.failed = FALSE, !.fallback = b]
    BY <1>7, <2>1
  <2>3. 0 \in 0 .. Never
    BY DEF Never, STALE_AFTER
  <2>4. snap' \in Snapshots /\ snap'.age = 0
    BY <2>2, <2>3, BoardFacts DEF Snapshots
  <2> QED
    BY <1>4, <1>7, <2>4 DEF Settle
<1> QED
  BY <1>5, <1>6, <1>7

LEMMA SettleKeeps ==
    ASSUME BoardInv, NEW i \in DOMAIN fetches, Settle(i)
    PROVE  BoardInv'
<1>1. /\ fetches' = (IF queued THEN <<NewFetch>> ELSE <<>>) /\ queued' = FALSE
      /\ badge' = Link(snap') /\ snap' \in Snapshots
      /\ UNCHANGED <<serverVars, socketVars, poll, faults>>
      /\ \/ snap'.failed /\ board' = board
         \/ /\ fetches[1].orders > 0 /\ fetches[1].timing > 0 /\ snap'.age = 0
            /\ board' = [orders |-> fetches[1].orders, timing |-> fetches[1].timing]
  BY SettleFacts
<1>2. /\ fetches[1] \in FetchRow /\ fetches[1].orders <= version /\ fetches[1].timing <= version
      /\ board.orders <= version /\ board.timing <= version
  BY TheFetch
<1>3. /\ board' \in [orders : 0 .. MaxVersion, timing : 0 .. MaxVersion]
      /\ board'.orders <= version /\ board'.timing <= version
  <2>1. CASE board' = board
    BY <1>2, <2>1, BoardFacts
  <2>2. CASE board' = [orders |-> fetches[1].orders, timing |-> fetches[1].timing]
    <3>1. fetches[1].orders \in 0 .. MaxVersion /\ fetches[1].timing \in 0 .. MaxVersion
      BY <1>2 DEF FetchRow
    <3> QED
      BY <1>2, <2>2, <3>1
  <2> QED
    BY <1>1, <2>1, <2>2
<1>4. version' = version /\ version \in Nat
  BY <1>1, BoardFacts DEF serverVars
<1>5. FetchesAreSound'
  <2>1. CASE queued
    BY <1>1, <1>3, <1>4, <2>1, FetchStarts
  <2>2. CASE ~queued
    <3>1. fetches' = <<>> /\ <<>> \in Seq(FetchRow) /\ Len(<<>>) = 0 /\ DOMAIN <<>> = {}
      BY <1>1, <2>2
    <3> QED
      BY <1>3, <1>4, <3>1 DEF FetchesAreSound
  <2> QED
    BY <2>1, <2>2
<1>6. FramesAreFew'
  BY <1>1 DEF BoardInv, FramesAreFew, Greeting, serverVars, socketVars
<1>7. LiveTypeOK'
  BY <1>1, <1>3, LinkFacts DEF BoardInv, LiveTypeOK, Snapshots, Badges, serverVars, socketVars
<1>8. LiveIsPolled'
  <2>1. SUFFICES ASSUME badge' = "live"
                 PROVE  snap'.age + poll' <= LIVE_SAFETY_POLL - 1 + POLL_INTERVAL
    BY DEF LiveIsPolled
  <2>2. snap'.age = 0
    BY <1>1, <2>1, LinkFacts
  <2> QED
    BY <1>1, <2>2, BoardFacts DEF LIVE_SAFETY_POLL, POLL_INTERVAL
<1> QED
  BY <1>1, <1>5, <1>6, <1>7, <1>8 DEF BoardInv

\* A step of the server leaves what the board knows alone, and the counts bound themselves.
LEMMA ServerStepKeeps ==
    ASSUME BoardInv, FramesAreFew', version' \in Nat, version <= version', version' <= MaxVersion,
           owed' \in Nat, sends' \in Nat, frames' \in Nat, wire' \in {"up", "dead"},
           server' \in {"none", "accepted", "greeting", "listening"},
           faults' \in 0 .. MaxFaults,
           UNCHANGED <<snap, board, fetchVars, poll, badge, reconnect>>
    PROVE  BoardInv'
<1>1. owed' \in 0 .. MaxVersion /\ sends' \in 0 .. MaxVersion /\ frames' \in 0 .. MaxVersion
  BY CountsAreTyped
<1>2. FetchesAreSound'
  BY FetchesStay DEF fetchVars
<1>3. version' \in 1 .. MaxVersion
  BY BoardFacts
<1>4. LiveTypeOK'
  BY <1>1, <1>3 DEF BoardInv, LiveTypeOK, fetchVars
<1>5. (fetches' = <<>> => ~queued') /\ LiveIsPolled'
  BY DEF BoardInv, LiveIsPolled, fetchVars
<1> QED
  BY <1>2, <1>4, <1>5 DEF BoardInv

\* The kitchen changes, and what it owes the boards is sent and arrives, or is lost.
LEMMA CountingStepKeeps ==
    ASSUME BoardInv, Change \/ Broadcast \/ Send
    PROVE  BoardInv'
<1>1. CASE Change
  <2>1. /\ version < MaxVersion /\ version' = version + 1 /\ owed' = owed + 1
        /\ UNCHANGED <<sends, server, socketVars, snap, board, fetchVars, poll, badge, faults>>
    BY <1>1 DEF Change
  <2>2. Greeting' = Greeting
    BY <2>1 DEF Greeting
  <2>3. FramesAreFew'
    <3>1. owed' + sends' <= version' - 1
      BY <2>1, CountFacts
    <3>2. wire' = "dead" => frames' = 0
      BY <2>1, BoardFacts DEF socketVars
    <3>3. wire' = "up" => owed' + sends' + frames' + Greeting' <= version'
      BY <2>1, <2>2, CountFacts DEF socketVars
    <3> QED
      BY <3>1, <3>2, <3>3 DEF FramesAreFew
  <2>4. /\ version' \in Nat /\ version <= version' /\ version' <= MaxVersion
        /\ owed' \in Nat /\ sends' \in Nat
    BY <2>1, CountFacts, BoundsAreNat
  <2>5. /\ frames' \in Nat /\ wire' \in {"up", "dead"} /\ faults' \in 0 .. MaxFaults
        /\ server' \in {"none", "accepted", "greeting", "listening"}
        /\ UNCHANGED <<snap, board, fetchVars, poll, badge, reconnect>>
    BY <2>1, BoardFacts DEF socketVars
  <2> QED
    BY <2>3, <2>4, <2>5, ServerStepKeeps
<1>2. CASE Broadcast
  <2>1. /\ owed > 0 /\ owed' = owed - 1 /\ sends' \in {sends, sends + 1}
        /\ UNCHANGED <<version, server, socketVars, snap, board, fetchVars, poll, badge, faults>>
    BY <1>2 DEF Broadcast
  <2>2. Greeting' = Greeting
    BY <2>1 DEF Greeting
  <2>3. FramesAreFew'
    <3>1. owed' + sends' <= version' - 1
      BY <2>1, CountFacts
    <3>2. wire' = "dead" => frames' = 0
      BY <2>1, BoardFacts DEF socketVars
    <3>3. wire' = "up" => owed' + sends' + frames' + Greeting' <= version'
      BY <2>1, <2>2, CountFacts DEF socketVars
    <3> QED
      BY <3>1, <3>2, <3>3 DEF FramesAreFew
  <2>4. /\ version' \in Nat /\ version <= version' /\ version' <= MaxVersion
        /\ owed' \in Nat /\ sends' \in Nat
    <3>1. version \in Nat /\ version <= MaxVersion /\ owed \in Nat /\ sends \in Nat
      BY BoardFacts
    <3>2. version' = version /\ owed > 0 /\ owed' = owed - 1 /\ sends' \in {sends, sends + 1}
      BY <2>1
    <3> QED
      BY <3>1, <3>2
  <2>5. /\ frames' \in Nat /\ wire' \in {"up", "dead"} /\ faults' \in 0 .. MaxFaults
        /\ server' \in {"none", "accepted", "greeting", "listening"}
        /\ UNCHANGED <<snap, board, fetchVars, poll, badge, reconnect>>
    BY <2>1, BoardFacts DEF socketVars
  <2> QED
    BY <2>3, <2>4, <2>5, ServerStepKeeps
<1>3. CASE Send
  <2>1. /\ sends > 0 /\ sends' = sends - 1
        /\ \/ wire = "up" /\ frames' = frames + 1 /\ server' = server
           \/ wire = "dead" /\ server' \in {server, "none"} /\ frames' = frames
        /\ UNCHANGED <<version, owed, wire, reconnect, snap, board, fetchVars, poll, badge, faults>>
    BY <1>3 DEF Send
  <2>2. wire = "up" => Greeting' = Greeting
    BY <2>1 DEF Greeting
  <2>3. FramesAreFew'
    <3>1. owed' + sends' <= version' - 1
      BY <2>1, CountFacts
    <3>2. wire' = "dead" => frames' = 0
      BY <2>1, BoardFacts
    <3>3. wire' = "up" => owed' + sends' + frames' + Greeting' <= version'
      BY <2>1, <2>2, CountFacts
    <3> QED
      BY <3>1, <3>2, <3>3 DEF FramesAreFew
  <2>4. /\ version' \in Nat /\ version <= version' /\ version' <= MaxVersion
        /\ owed' \in Nat /\ sends' \in Nat
    BY <2>1, BoardFacts
  <2>5. frames' \in Nat /\ server' \in {"none", "accepted", "greeting", "listening"}
    <3>1. /\ frames \in Nat /\ frames' \in {frames, frames + 1}
          /\ server \in {"none", "accepted", "greeting", "listening"}
          /\ server' \in {server, "none"}
      BY <2>1, BoardFacts
    <3> QED
      BY <3>1
  <2>6. /\ wire' \in {"up", "dead"} /\ faults' \in 0 .. MaxFaults
        /\ UNCHANGED <<snap, board, fetchVars, poll, badge, reconnect>>
    BY <2>1, BoardFacts
  <2> QED
    BY <2>3, <2>4, <2>5, <2>6, ServerStepKeeps
<1> QED
  BY <1>1, <1>2, <1>3

\* The server's side of the socket. The greeting is sent once.
LEMMA SocketStepKeeps ==
    ASSUME BoardInv, Accept \/ Register \/ InitialState \/ Disconnect
    PROVE  BoardInv'
<1> USE BoardFacts
<1>1. CASE Accept \/ Register
  <2>1. /\ server # "listening" /\ server' \in {"accepted", "greeting"}
        /\ UNCHANGED <<version, owed, sends, socketVars, snap, board, fetchVars, poll, badge, faults>>
    BY <1>1 DEF Accept, Register
  <2>2. Greeting' = Greeting
    BY <2>1 DEF Greeting
  <2>3. FramesAreFew'
    BY <2>1, <2>2 DEF FramesAreFew, socketVars
  <2> QED
    BY <2>1, <2>3, ServerStepKeeps DEF socketVars
<1>2. CASE InitialState
  <2>1. /\ server = "greeting" /\ server' = "listening"
        /\ frames' = IF wire = "up" THEN frames + 1 ELSE frames
        /\ UNCHANGED <<version, owed, sends, wire, reconnect, snap, board, fetchVars, poll, badge, faults>>
    BY <1>2 DEF InitialState
  <2>2. Greeting = 1 /\ Greeting' = 0
    BY <2>1 DEF Greeting
  <2>3. FramesAreFew'
    <3>1. owed' + sends' <= version' - 1
      BY <2>1, CountFacts
    <3>2. wire' = "dead" => frames' = 0
      BY <2>1
    <3>3. wire' = "up" => owed' + sends' + frames' + Greeting' <= version'
      BY <2>1, <2>2, CountFacts
    <3> QED
      BY <3>1, <3>2, <3>3 DEF FramesAreFew
  <2> QED
    BY <2>1, <2>3, ServerStepKeeps
<1>3. CASE Disconnect
  <2>1. /\ wire = "dead" /\ server' = "none"
        /\ UNCHANGED <<version, owed, sends, socketVars, snap, board, fetchVars, poll, badge, faults>>
    BY <1>3 DEF Disconnect
  <2>2. FramesAreFew'
    BY <2>1 DEF FramesAreFew, socketVars
  <2> QED
    BY <2>1, <2>2, ServerStepKeeps DEF socketVars
<1> QED
  BY <1>1, <1>2, <1>3

LEMMA FailFetchKeeps ==
    ASSUME BoardInv, NEW i \in DOMAIN fetches, FailFetch(i), faults' \in 0 .. MaxFaults
    PROVE  BoardInv'
<1> DEFINE f == [fetches[i] EXCEPT !.failed = TRUE]
<1>1. /\ fetches' = [fetches EXCEPT ![i].failed = TRUE]
      /\ UNCHANGED <<serverVars, socketVars, snap, board, queued, poll, badge>>
  BY DEF FailFetch
<1>2. /\ f \in FetchRow /\ f.orders = fetches[1].orders /\ f.timing = fetches[1].timing
      /\ fetches' = [fetches EXCEPT ![i] = f]
  BY <1>1, TheFetch DEF FetchRow
<1> HIDE DEF f
<1>3. FetchesAreSound' /\ fetches' # <<>>
  <2>1. /\ f.orders <= version /\ f.timing <= version
        /\ f.orders > 0 => board.orders <= f.orders
        /\ f.timing > 0 => board.timing <= f.timing
    BY <1>2, TheFetch
  <2>2. UNCHANGED <<version, board>>
    BY <1>1 DEF serverVars
  <2> QED
    BY <1>2, <2>1, <2>2, FetchReplaced
<1>4. FramesAreFew'
  BY <1>1 DEF BoardInv, FramesAreFew, Greeting, serverVars, socketVars
<1>5. LiveTypeOK'
  BY <1>1 DEF BoardInv, LiveTypeOK, serverVars, socketVars
<1> QED
  BY <1>3, <1>4, <1>5 DEF BoardInv, LiveIsPolled

\* The server comes back with nothing owed, and what was asked of it has failed.
LEMMA RestartKeeps ==
    ASSUME BoardInv, Restart, faults' \in 0 .. MaxFaults
    PROVE  BoardInv'
<1>1. /\ owed' = 0 /\ sends' = 0 /\ server' = "none" /\ wire' = "dead" /\ frames' = 0
      /\ fetches' = [i \in DOMAIN fetches |-> [fetches[i] EXCEPT !.failed = TRUE]]
      /\ UNCHANGED <<version, reconnect, snap, board, queued, poll, badge>>
  BY DEF Restart
<1>2. FramesAreFew'
  BY <1>1, BoardFacts DEF FramesAreFew
<1>3. 0 \in 0 .. MaxVersion
  BY BoardFacts
<1>4. LiveTypeOK'
  BY <1>1, <1>3 DEF BoardInv, LiveTypeOK
<1>5. FetchesAreSound' /\ (fetches' = <<>> => fetches = <<>>)
  <2>1. CASE fetches = <<>>
    <3>1. fetches' = <<>>
      BY <1>1, <2>1
    <3> QED
      BY <1>1, <2>1, <3>1, BoardFacts, FetchesStay
  <2>2. CASE fetches # <<>>
    <3>1. 1 \in DOMAIN fetches
      <4>1. fetches \in Seq(FetchRow)
        BY DEF BoardInv, FetchesAreSound
      <4> QED
        BY <2>2, <4>1
    <3>2. PICK f : f = [fetches[1] EXCEPT !.failed = TRUE]
      OBVIOUS
    <3>3. f \in FetchRow /\ f.orders = fetches[1].orders /\ f.timing = fetches[1].timing
      BY <3>1, <3>2, TheFetch DEF FetchRow
    <3>4. fetches' = [fetches EXCEPT ![1] = f]
      BY <1>1, <3>1, <3>2, TheFetch
    <3>5. /\ f.orders <= version /\ f.timing <= version
          /\ f.orders > 0 => board.orders <= f.orders
          /\ f.timing > 0 => board.timing <= f.timing
      BY <3>1, <3>3, TheFetch
    <3> QED
      BY <1>1, <3>1, <3>3, <3>4, <3>5, FetchReplaced
  <2> QED
    BY <2>1, <2>2
<1> QED
  BY <1>1, <1>2, <1>4, <1>5 DEF BoardInv, LiveIsPolled

LEMMA FaultKeeps ==
    ASSUME BoardInv, Fault
    PROVE  BoardInv'
<1>1. faults' \in 0 .. MaxFaults
  BY BoardFacts DEF Fault
<1>2. CASE Drop
  <2>1. /\ wire' = "dead" /\ frames' = 0
        /\ UNCHANGED <<serverVars, reconnect, snap, board, fetchVars, poll, badge>>
    BY <1>2 DEF Drop
  <2>2. FramesAreFew'
    BY <2>1, BoardFacts DEF FramesAreFew, serverVars
  <2> QED
    BY <1>1, <2>1, <2>2, BoardFacts, ServerStepKeeps DEF serverVars
<1>3. CASE \E i \in DOMAIN fetches : FailFetch(i)
  BY <1>1, <1>3, FailFetchKeeps
<1>4. CASE GreetingFails
  <2>1. /\ server = "greeting" /\ server' = "listening"
        /\ UNCHANGED <<version, owed, sends, socketVars, snap, board, fetchVars, poll, badge>>
    BY <1>4 DEF GreetingFails
  <2>2. Greeting = 1 /\ Greeting' = 0
    BY <2>1 DEF Greeting
  <2>3. FramesAreFew'
    BY <2>1, <2>2, BoardFacts DEF FramesAreFew, socketVars
  <2> QED
    BY <1>1, <2>1, <2>3, BoardFacts, ServerStepKeeps DEF socketVars
<1>5. CASE Restart
  BY <1>1, <1>5, RestartKeeps
<1> QED
  BY <1>2, <1>3, <1>4, <1>5 DEF Fault

LEMMA BoardNextKeeps ==
    ASSUME BoardInv, [BoardNext]_boardVars
    PROVE  BoardInv'
<1>1. CASE HandleOpen \/ HandleMessage \/ HandleClose
  BY <1>1, HandleOpenKeeps, HandleMessageKeeps, HandleCloseKeeps
<1>2. CASE Reconnect \/ Refresh \/ Resume
  BY <1>2, ReconnectKeeps, RefreshKeeps, ResumeKeeps
<1>3. CASE Tick \/ PollTick
  BY <1>3, TickKeeps, PollTickKeeps
<1>4. CASE Answered
  BY <1>4, ServeOrdersKeeps, ServeTimingKeeps, SettleKeeps DEF Answered
<1>5. CASE Change \/ Broadcast \/ Send
  BY <1>5, CountingStepKeeps
<1>6. CASE Accept \/ Register \/ InitialState \/ Disconnect
  BY <1>6, SocketStepKeeps
<1>7. CASE Fault
  BY <1>7, FaultKeeps
<1>8. CASE UNCHANGED boardVars
  BY <1>8 DEF boardVars, serverVars, socketVars, fetchVars, BoardInv, LiveTypeOK, FramesAreFew,
     Greeting, FetchesAreSound, LiveIsPolled
<1> QED
  BY <1>1, <1>2, <1>3, <1>4, <1>5, <1>6, <1>7, <1>8 DEF BoardNext

\* Whatever the socket, the requests and the interval do: there is one refetch at a time,
\* what it was served is never older than the screen, and frames do not pile up.
THEOREM BoardIsInOrder == BoardSpec => []BoardInv
<1>1. BoardInit => BoardInv
  <2> SUFFICES ASSUME BoardInit PROVE BoardInv
    OBVIOUS
  <2>1. 0 \in 0 .. MaxVersion /\ 1 \in 1 .. MaxVersion /\ 0 \in 0 .. MaxFaults /\ Never \in 0 .. Never
    BY BoundsAreNat DEF Never, STALE_AFTER
  <2>2. LiveTypeOK
    <3>1. snap \in Snapshots
      BY <2>1 DEF BoardInit, Snapshots
    <3>2. poll \in 0 .. POLL_INTERVAL
      BY DEF BoardInit, POLL_INTERVAL
    <3> QED
      BY <2>1, <3>1, <3>2 DEF BoardInit, LiveTypeOK, Snapshots
  <2>3. FramesAreFew
    BY DEF BoardInit, FramesAreFew, Greeting
  <2>4. FetchesAreSound /\ fetches # <<>>
    <3>1. fetches = <<NewFetch>> /\ board.orders = 0 /\ board.timing = 0 /\ version = 1
      BY DEF BoardInit
    <3>2. fetches \in Seq(FetchRow) /\ Len(fetches) = 1 /\ DOMAIN fetches = {1} /\ fetches[1] = NewFetch
      BY <3>1, NewFetchIsARow
    <3>3. \A i \in DOMAIN fetches : fetches[i].orders = 0 /\ fetches[i].timing = 0
      BY <3>2 DEF NewFetch
    <3> QED
      BY <3>1, <3>2, <3>3 DEF FetchesAreSound
  <2> QED
    BY <2>2, <2>3, <2>4 DEF BoardInv, LiveIsPolled
<1>2. BoardInv /\ [BoardNext]_boardVars => BoardInv'
  BY BoardNextKeeps
<1> QED
  BY <1>1, <1>2, PTL DEF BoardSpec

\* "Canli cannot be shown over a stale board" while no refetch is under way, and no
\* resync that was asked for is forgotten, for any number of changes and faults.
THEOREM BoardTellsTruth == BoardSpec => []BoardIsHonest
<1>1. BoardInv => BoardIsHonest
  <2> SUFFICES ASSUME BoardInv, badge = "live", fetches = <<>>
               PROVE  snap.age < LIVE_SAFETY_POLL + POLL_INTERVAL
    BY DEF BoardInv, BoardIsHonest
  <2>1. snap.age + poll <= LIVE_SAFETY_POLL - 1 + POLL_INTERVAL
    BY DEF BoardInv, LiveIsPolled
  <2>2. snap.age \in 0 .. Never /\ poll \in Nat
    BY BoardFacts DEF Snapshots
  <2> QED
    BY <2>1, <2>2 DEF LIVE_SAFETY_POLL, POLL_INTERVAL, Never, STALE_AFTER
<1> QED
  BY <1>1, BoardIsInOrder, PTL

-----------------------------------------------------------------------------
(* The board implements the safety of a mirror *)

\* Only a change in the kitchen and a refetch that settles move what the mirror sees.
LEMMA WhoMovesTheMirror ==
    ASSUME [BoardNext]_boardVars
    PROVE  \/ UNCHANGED <<version, board>>
           \/ Change
           \/ \E i \in DOMAIN fetches : Settle(i)
<1>1. CASE HandleOpen \/ HandleMessage \/ HandleClose \/ Reconnect \/ Refresh \/ Resume
  BY <1>1 DEF HandleOpen, HandleMessage, HandleClose, Reconnect, Refresh, Resume, serverVars
<1>2. CASE Tick \/ PollTick
  BY <1>2 DEF Tick, PollTick, serverVars
<1>3. CASE Answered
  BY <1>3 DEF Answered, ServeOrders, ServeTiming, serverVars
<1>4. CASE Change \/ Broadcast \/ Send
  BY <1>4 DEF Broadcast, Send
<1>5. CASE Accept \/ Register \/ InitialState \/ Disconnect
  BY <1>5 DEF Accept, Register, InitialState, Disconnect
<1>6. CASE Fault
  BY <1>6 DEF Fault, Drop, FailFetch, GreetingFails, Restart, serverVars
<1>7. CASE UNCHANGED boardVars
  BY <1>7 DEF boardVars, serverVars
<1> QED
  BY <1>1, <1>2, <1>3, <1>4, <1>5, <1>6, <1>7 DEF BoardNext

\* What a refetch brings is what the kitchen had at some moment, never older than what
\* the screen shows.
LEMMA SettleShows ==
    ASSUME BoardInv, NEW i \in DOMAIN fetches, Settle(i)
    PROVE  /\ version' = version
           /\ board'.orders = board.orders \/ board'.orders \in (board.orders + 1) .. version
           /\ board'.timing = board.timing \/ board'.timing \in (board.timing + 1) .. version
<1>1. /\ version' = version
      /\ \/ board' = board
         \/ /\ fetches[1].orders > 0 /\ fetches[1].timing > 0
            /\ board' = [orders |-> fetches[1].orders, timing |-> fetches[1].timing]
  BY SettleFacts DEF serverVars
<1>2. CASE board' = board
  BY <1>1, <1>2
<1>3. CASE /\ fetches[1].orders > 0 /\ fetches[1].timing > 0
           /\ board' = [orders |-> fetches[1].orders, timing |-> fetches[1].timing]
  <2>1. /\ board'.orders = fetches[1].orders /\ board'.timing = fetches[1].timing
    BY <1>3
  <2>2. /\ fetches[1].orders \in Nat /\ fetches[1].timing \in Nat
        /\ fetches[1].orders <= version /\ fetches[1].timing <= version
        /\ board.orders <= fetches[1].orders /\ board.timing <= fetches[1].timing
        /\ board.orders \in Nat /\ board.timing \in Nat /\ version \in Nat
    BY <1>3, TheFetch, BoardFacts
  <2> QED
    BY <1>1, <2>1, <2>2
<1> QED
  BY <1>1, <1>2, <1>3

\* The screen only shows what the kitchen was at some moment and never goes back, tickets
\* and timing alike, however many frames are lost and requests fail. That it is brought
\* forward in the end is liveness and stays with the model checker.
THEOREM BoardNeverGoesBack ==
    BoardSpec => /\ OrdersMirror!Init /\ [][OrdersMirror!Next]_<<version, board.orders>>
                 /\ TimingMirror!Init /\ [][TimingMirror!Next]_<<version, board.timing>>
<1>1. BoardInit => OrdersMirror!Init /\ TimingMirror!Init
  BY DEF BoardInit, OrdersMirror!Init, TimingMirror!Init
<1>2. ASSUME BoardInv, [BoardNext]_boardVars
      PROVE  /\ [OrdersMirror!Next]_<<version, board.orders>>
             /\ [TimingMirror!Next]_<<version, board.timing>>
  <2>1. CASE UNCHANGED <<version, board>>
    BY <2>1
  <2>2. CASE Change
    BY <2>2 DEF Change, OrdersMirror!Next, OrdersMirror!Change, TimingMirror!Next, TimingMirror!Change
  <2>3. CASE \E i \in DOMAIN fetches : Settle(i)
    <3>1. /\ version' = version
          /\ board'.orders = board.orders \/ board'.orders \in (board.orders + 1) .. version
          /\ board'.timing = board.timing \/ board'.timing \in (board.timing + 1) .. version
      BY <1>2, <2>3, SettleShows
    <3> QED
      BY <3>1 DEF OrdersMirror!Next, OrdersMirror!Show, TimingMirror!Next, TimingMirror!Show
  <2> QED
    BY <1>2, <2>1, <2>2, <2>3, WhoMovesTheMirror
<1> QED
  BY <1>1, <1>2, BoardIsInOrder, PTL DEF BoardSpec

=============================================================================
