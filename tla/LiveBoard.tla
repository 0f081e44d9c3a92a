------------------------------ MODULE LiveBoard ------------------------------
(***************************************************************************)
(* The kitchen board: one mounted screen, its socket and its refetches.    *)
(*                                                                         *)
(*   apps/kitchen-web/src/lib/liveSync.ts           the controller         *)
(*   apps/api/app/services/websocket_manager.py     register, broadcast    *)
(*   apps/api/app/routers/ws.py                     the socket's life      *)
(*   apps/api/app/routers/kitchen_orders.py         commit, then broadcast *)
(*                                                                         *)
(* Orders are abstracted to a version that every accepted order and every  *)
(* change of status raises. Time goes in units of six seconds.             *)
(***************************************************************************)
EXTENDS Naturals, Sequences, SequencesExt

CONSTANTS
    MaxVersion,   \* the bound on changes in the kitchen
    MaxFaults     \* the bound on dropped sockets, failed requests and restarts

ASSUME BoundsAreNat == MaxVersion \in Nat \ {0} /\ MaxFaults \in Nat

VARIABLES
    version,    \* of the orders in the database
    owed,       \* commits whose broadcast has not begun
    sends,      \* broadcasts that have this board's socket in their snapshot
    server,     \* the server's side of the socket
    wire,       \* whether the socket carries anything
    frames,     \* frames under way to the board
    snap,       \* KitchenSyncSnapshot
    board,      \* the versions of the orders and of the timing on screen
    fetches,    \* refetches under way
    queued,     \* resyncQueued
    reconnect,  \* whether the reconnect timer is set
    poll,       \* time to the next tick of the interval
    badge,      \* the link state of the last emit
    faults

serverVars == <<version, owed, sends, server>>
socketVars == <<wire, frames, reconnect>>
fetchVars  == <<fetches, queued>>
boardVars  == <<serverVars, socketVars, snap, board, fetchVars, poll, badge, faults>>

POLL_INTERVAL    == 2
LIVE_SAFETY_POLL == 5
STALE_AFTER      == 10
Never            == STALE_AFTER + 1     \* lastSyncedAt = null

-----------------------------------------------------------------------------
(* What the badge says, and when the board asks again *)

FallbackActive(s) == s.connected \/ s.attempted

Link(s) ==
    IF s.age = Never THEN IF s.failed THEN "offline" ELSE "connecting"
    ELSE LET fresh == s.age < STALE_AFTER /\ ~s.failed IN
         CASE s.socket = "open" /\ fresh   -> "live"
           [] s.socket = "open" /\ ~fresh  -> "stale"
           [] s.socket # "open" /\ ~fresh  -> "offline"
           [] OTHER -> IF ~FallbackActive(s) THEN "connecting"
                       ELSE IF s.fallback THEN "polling" ELSE "reconnecting"

\* A mutant: an open socket is believed.
PollUnlessOpen(s) == s.age = Never \/ s.failed \/ s.socket # "open"

ShouldPollNow(s) ==
    \/ s.age = Never
    \/ s.failed
    \/ s.socket # "open"
    \/ s.age >= LIVE_SAFETY_POLL

NewFetch == [orders |-> 0, timing |-> 0, failed |-> FALSE]

\* A mutant: every event starts a refetch of its own.
SyncAtOnce(s) ==
    /\ Len(fetches) < 2
    /\ fetches' = Append(fetches, NewFetch)
    /\ badge' = Link(s)
    /\ UNCHANGED queued

\* One refetch at a time. One that starts emits, one that is coalesced does not.
Sync(s) ==
    IF fetches = <<>>
    THEN fetches' = <<NewFetch>> /\ badge' = Link(s) /\ UNCHANGED queued
    ELSE queued' = TRUE /\ UNCHANGED <<fetches, badge>>

-----------------------------------------------------------------------------
(* The socket, as the board sees it *)

\* The old socket is orphaned with all that was under way on it.
OpenSocket(s) ==
    /\ snap' = [s EXCEPT !.socket = "connecting"]
    /\ server' = "none"
    /\ wire' = "up"
    /\ frames' = 0
    /\ sends' = 0

HandleOpen ==
    LET s == [snap EXCEPT !.socket = "open", !.connected = TRUE,
                          !.attempted = FALSE, !.fallback = FALSE] IN
    /\ snap.socket = "connecting" /\ wire = "up" /\ server # "none"
    /\ snap' = s
    /\ IF fetches = <<>> THEN Sync(s)
       ELSE queued' = TRUE /\ badge' = Link(s) /\ UNCHANGED fetches
    /\ UNCHANGED <<serverVars, socketVars, board, poll, faults>>

HandleMessage ==
    /\ snap.socket = "open" /\ wire = "up" /\ frames > 0
    /\ frames' = frames - 1
    /\ Sync(snap)
    /\ UNCHANGED <<serverVars, wire, reconnect, snap, board, poll, faults>>

\* A refused handshake ends here too. The badge is told before the retry is counted.
HandleClose ==
    LET s == [snap EXCEPT !.socket = "closed", !.fallback = FALSE] IN
    /\ snap.socket # "closed" /\ wire = "dead"
    /\ snap' = [s EXCEPT !.attempted = @ \/ ~reconnect]
    /\ badge' = Link(s)
    /\ reconnect' = TRUE
    /\ frames' = 0
    /\ UNCHANGED <<serverVars, wire, board, fetchVars, poll, faults>>

Reconnect ==
    /\ reconnect
    /\ reconnect' = FALSE
    /\ OpenSocket(snap)
    /\ badge' = Link(snap')
    /\ UNCHANGED <<version, owed, board, fetchVars, poll, faults>>

Refresh ==
    /\ Sync(snap)
    /\ UNCHANGED <<serverVars, socketVars, snap, board, poll, faults>>

\* The tablet wakes up or is back on the network. A socket that is still
\* connecting is replaced as well.
Resume ==
    /\ snap.socket # "open"
    /\ reconnect' = FALSE
    /\ OpenSocket([snap EXCEPT !.attempted = FALSE])
    /\ IF fetches = <<>> THEN fetches' = <<NewFetch>> /\ UNCHANGED queued
       ELSE queued' = TRUE /\ UNCHANGED fetches
    /\ badge' = Link(snap')
    /\ UNCHANGED <<version, owed, board, poll, faults>>

-----------------------------------------------------------------------------
(* Time, and the interval *)

Tick ==
    /\ poll > 0
    /\ poll' = poll - 1
    /\ snap' = [snap EXCEPT !.age = IF @ < STALE_AFTER THEN @ + 1 ELSE @]
    /\ UNCHANGED <<serverVars, socketVars, board, fetchVars, badge, faults>>

PollTick ==
    /\ poll = 0
    /\ poll' = POLL_INTERVAL
    /\ IF ShouldPollNow(snap) THEN Sync(snap)
       ELSE badge' = Link(snap) /\ UNCHANGED fetchVars
    /\ UNCHANGED <<serverVars, socketVars, snap, board, faults>>

-----------------------------------------------------------------------------
(* A refetch: two requests, served each at its own moment *)

ServeOrders(i) ==
    /\ fetches[i].orders = 0 /\ ~fetches[i].failed
    /\ fetches' = [fetches EXCEPT ![i].orders = version]
    /\ UNCHANGED <<serverVars, socketVars, snap, board, queued, poll, badge, faults>>

ServeTiming(i) ==
    /\ fetches[i].timing = 0 /\ ~fetches[i].failed
    /\ fetches' = [fetches EXCEPT ![i].timing = version]
    /\ UNCHANGED <<serverVars, socketVars, snap, board, queued, poll, badge, faults>>

\* The board is replaced as a whole, or it is kept and known to be suspect. A
\* request that came in meanwhile starts the next refetch.
Settle(i) ==
    LET f == fetches[i]
        left == RemoveAt(fetches, i)
        counts == snap.socket # "open" /\ FallbackActive(snap) IN
    /\ f.failed \/ (f.orders > 0 /\ f.timing > 0)
    /\ IF f.failed
       THEN snap' = [snap EXCEPT !.failed = TRUE] /\ UNCHANGED board
       ELSE /\ board' = [orders |-> f.orders, timing |-> f.timing]
            /\ snap' = [snap EXCEPT !.age = 0, !.failed = FALSE, !.fallback = @ \/ counts]
    /\ fetches' = IF queued THEN Append(left, NewFetch) ELSE left
    /\ queued' = FALSE
    /\ badge' = Link(snap')
    /\ UNCHANGED <<serverVars, socketVars, poll, faults>>

-----------------------------------------------------------------------------
(* The server's side of the socket *)

Registered == server \in {"greeting", "listening"}

Change ==
    /\ version < MaxVersion
    /\ version' = version + 1
    /\ owed' = owed + 1
    /\ UNCHANGED <<sends, server, socketVars, snap, board, fetchVars, poll, badge, faults>>

\* broadcast_kitchen_event takes the bucket as it is now.
Broadcast ==
    /\ owed > 0
    /\ owed' = owed - 1
    /\ sends' = IF Registered THEN sends + 1 ELSE sends
    /\ UNCHANGED <<version, server, socketVars, snap, board, fetchVars, poll, badge, faults>>

\* To a dead socket a send vanishes, or it raises and the socket is removed.
Send ==
    /\ sends > 0
    /\ sends' = sends - 1
    /\ \/ wire = "up" /\ frames' = frames + 1 /\ UNCHANGED server
       \/ wire = "dead" /\ server' \in {server, "none"} /\ UNCHANGED frames
    /\ UNCHANGED <<version, owed, wire, reconnect, snap, board, fetchVars, poll, badge, faults>>

\* The handshake is over before the socket is in the bucket.
Accept ==
    /\ snap.socket = "connecting" /\ wire = "up" /\ server = "none"
    /\ server' = "accepted"
    /\ UNCHANGED <<version, owed, sends, socketVars, snap, board, fetchVars, poll, badge, faults>>

Register ==
    /\ server = "accepted"
    /\ server' = "greeting"
    /\ UNCHANGED <<version, owed, sends, socketVars, snap, board, fetchVars, poll, badge, faults>>

InitialState ==
    /\ server = "greeting"
    /\ server' = "listening"
    /\ frames' = IF wire = "up" THEN frames + 1 ELSE frames
    /\ UNCHANGED <<version, owed, sends, wire, reconnect, snap, board, fetchVars, poll, badge, faults>>

Disconnect ==
    /\ wire = "dead" /\ server # "none"
    /\ server' = "none"
    /\ UNCHANGED <<version, owed, sends, socketVars, snap, board, fetchVars, poll, badge, faults>>

-----------------------------------------------------------------------------
(* What goes wrong *)

\* The connection goes, and neither end need notice.
Drop ==
    /\ snap.socket # "closed" /\ wire = "up"
    /\ wire' = "dead" /\ frames' = 0
    /\ UNCHANGED <<serverVars, reconnect, snap, board, fetchVars, poll, badge>>

FailFetch(i) ==
    /\ ~fetches[i].failed
    /\ fetches' = [fetches EXCEPT ![i].failed = TRUE]
    /\ UNCHANGED <<serverVars, socketVars, snap, board, queued, poll, badge>>

\* initial_state cannot be built or sent; the socket stays.
GreetingFails ==
    /\ server = "greeting"
    /\ server' = "listening"
    /\ UNCHANGED <<version, owed, sends, socketVars, snap, board, fetchVars, poll, badge>>

\* The registry is memory: broadcasts that were owed are never sent.
Restart ==
    /\ owed' = 0 /\ sends' = 0 /\ server' = "none"
    /\ wire' = "dead" /\ frames' = 0
    /\ fetches' = [i \in DOMAIN fetches |-> [fetches[i] EXCEPT !.failed = TRUE]]
    /\ UNCHANGED <<version, reconnect, snap, board, queued, poll, badge>>

Fault ==
    /\ faults < MaxFaults
    /\ faults' = faults + 1
    /\ \/ Drop
       \/ \E i \in DOMAIN fetches : FailFetch(i)
       \/ GreetingFails
       \/ Restart

-----------------------------------------------------------------------------

\* start() has run: a refetch under way, a socket opening, the interval set.
BoardInit ==
    /\ version = 1 /\ owed = 0 /\ sends = 0
    /\ server = "none" /\ wire = "up" /\ frames = 0
    /\ snap = [socket |-> "connecting", connected |-> FALSE, attempted |-> FALSE,
               fallback |-> FALSE, age |-> Never, failed |-> FALSE]
    /\ board = [orders |-> 0, timing |-> 0]
    /\ fetches = <<NewFetch>> /\ queued = FALSE
    /\ reconnect = FALSE /\ poll = POLL_INTERVAL
    /\ badge = "connecting" /\ faults = 0

Answered == \E i \in DOMAIN fetches : ServeOrders(i) \/ ServeTiming(i) \/ Settle(i)

BoardNext ==
    \/ HandleOpen \/ HandleMessage \/ HandleClose \/ Reconnect \/ Refresh \/ Resume
    \/ Tick \/ PollTick
    \/ Answered
    \/ Change \/ Broadcast \/ Send \/ Accept \/ Register \/ InitialState \/ Disconnect
    \/ Fault

\* Time passes, the interval fires, and a request is answered in the end. Of
\* the socket nothing is asked: it may be dead and nobody notice.
BoardSpec ==
    /\ BoardInit
    /\ [][BoardNext]_boardVars
    /\ WF_boardVars(Tick)
    /\ WF_boardVars(PollTick)
    /\ WF_boardVars(Answered)

-----------------------------------------------------------------------------

LiveTypeOK ==
    /\ version \in 1 .. MaxVersion /\ faults \in 0 .. MaxFaults
    /\ owed \in 0 .. MaxVersion /\ sends \in 0 .. MaxVersion /\ frames \in 0 .. MaxVersion
    /\ server \in {"none", "accepted", "greeting", "listening"}
    /\ wire \in {"up", "dead"} /\ reconnect \in BOOLEAN /\ queued \in BOOLEAN
    /\ snap \in [socket : {"connecting", "open", "closed"}, connected : BOOLEAN,
                 attempted : BOOLEAN, fallback : BOOLEAN, age : 0 .. Never, failed : BOOLEAN]
    /\ board \in [orders : 0 .. MaxVersion, timing : 0 .. MaxVersion]
    /\ poll \in 0 .. POLL_INTERVAL
    /\ badge \in {"connecting", "live", "reconnecting", "polling", "stale", "offline"}

(* While no refetch is under way a board that says "Canli" is younger than   *)
(* the safety poll and one tick together, 42 seconds, and no resync that was *)
(* asked for is forgotten: whatever the socket does, the interval, the       *)
(* coalescing and the emits work together (liveSync.ts:38-41).               *)
BoardIsHonest ==
    /\ LiveTypeOK
    /\ fetches = <<>> => ~queued
    /\ badge = "live" /\ fetches = <<>> => snap.age < LIVE_SAFETY_POLL + POLL_INTERVAL

OrdersMirror == INSTANCE Mirror WITH shown <- board.orders
TimingMirror == INSTANCE Mirror WITH shown <- board.timing

(* The board implements a mirror of the kitchen, tickets and timing alike:   *)
(* only versions the server had, never an older one after a newer one, and a *)
(* board that is behind catches up, also when every frame is lost and the    *)
(* socket is dead without either end knowing (liveSync.ts:8-20).             *)
BoardMirrorsKitchen == OrdersMirror!Spec /\ TimingMirror!Spec

(* What the code says of its badge: "the connection state is derived from    *)
(* when data last arrived, so Canli cannot be shown over a stale board"      *)
(* (liveSync.ts:18-19, 111-112). It is derived at an emit; while a refetch   *)
(* hangs, ticks are coalesced into it and nothing emits.                     *)
LiveMeansFresh == badge = "live" => snap.age < STALE_AFTER

=============================================================================
