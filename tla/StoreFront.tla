----------------------------- MODULE StoreFront -----------------------------
(***************************************************************************)
(* What a branch puts in front of its guests: the catalog, the branch's    *)
(* menu, its tables and their QR stickers, and the orders that come in     *)
(* through them.                                                           *)
(*                                                                         *)
(*   apps/api/app/services/store_setup_service.py   catalog, menu, tables  *)
(*   apps/api/app/services/qr_token_service.py      stickers               *)
(*   apps/api/app/services/order_service.py         token, menu, insert    *)
(*   scripts/manage_qr_tokens.py                    stickers by their id   *)
(*                                                                         *)
(* A call about the catalog or the menu is one committed step. A call that *)
(* locks a table or a sticker goes step by step, since orders take the two *)
(* locks in the other order. A refused call changes nothing.               *)
(*                                                                         *)
(* The partial unique index on active stickers is deliberately not a       *)
(* guard: the table lock has to suffice.                                   *)
(***************************************************************************)
EXTENDS Naturals, FiniteSets, FiniteSetsExt

CONSTANTS
    Stores,
    Tables,
    Products,
    Calls,       \* the bound on calls; a sticker has the id of the call that printed it
    MaxSort,     \* the bound on menu positions
    Null

ASSUME MaxSortIsNat == MaxSort \in Nat
ASSUME NullIsNoId   == Null \notin Calls \cup Tables \cup Stores \cup Products
ASSUME FiniteRows   == IsFiniteSet(Tables) /\ IsFiniteSet(Products)

VARIABLES
    catalog,     \* products.is_active, chain-wide
    offering,    \* store_products
    table,       \* the branch of a table
    token,       \* table_qr_tokens
    call,        \* what a call is about
    stage,       \* how far it is
    previous     \* the stickers a rotation has read as active

frontVars == <<catalog, offering, table, token, call, stage, previous>>
menuVars  == <<catalog, offering>>
callVars  == <<call, stage, previous>>

NotOffered == [published |-> FALSE, available |-> FALSE, sort |-> 0]
NoToken    == [status |-> "ABSENT", table |-> Null, next |-> Null]
NewToken(t) == [status |-> "ACTIVE", table |-> t, next |-> Null]
NoCall     == [op |-> "none", table |-> Null, token |-> Null, product |-> Null]

-----------------------------------------------------------------------------
(* The catalog and the menu *)

\* The predicate of the setup screen, on a row of the outer join.
OnCustomerMenu(s, p) ==
    /\ offering[s][p].published
    /\ offering[s][p].available
    /\ catalog[p] = "active"

MenuRows(s) ==
    {[product |-> p, published |-> offering[s][p].published, visible |-> OnCustomerMenu(s, p)] :
        p \in {q \in Products : catalog[q] # "absent"}}

\* What the guest's phone lists, from an inner join.
GuestMenu(s) ==
    {p \in Products : offering[s][p].published /\ offering[s][p].available /\ catalog[p] = "active"}

\* What the order's own query lets through.
Orderable(s, p) ==
    /\ catalog[p] = "active"
    /\ offering[s][p].published /\ offering[s][p].available

Published(s) == {p \in Products : offering[s][p].published}

NextSortOrder(s) ==
    IF Published(s) = {} THEN 0 ELSE Max({offering[s][p].sort : p \in Published(s)}) + 1

InsertOffering(s, p) ==
    /\ NextSortOrder(s) <= MaxSort
    /\ offering' = [offering EXCEPT ![s][p] =
                       [published |-> TRUE, available |-> TRUE, sort |-> NextSortOrder(s)]]

CreateProduct(s, p) ==
    /\ catalog[p] = "absent"
    /\ \E a \in {"active", "inactive"} : catalog' = [catalog EXCEPT ![p] = a]
    /\ UNCHANGED offering \/ InsertOffering(s, p)

\* Retires or revives a product in every branch.
UpdateProduct(p) ==
    /\ catalog[p] # "absent"
    /\ catalog' = [catalog EXCEPT ![p] = IF @ = "active" THEN "inactive" ELSE "active"]
    /\ UNCHANGED offering

PublishProduct(s, p) ==
    /\ catalog[p] # "absent"
    /\ p \notin Published(s)
    /\ InsertOffering(s, p)
    /\ UNCHANGED catalog

UnpublishProduct(s, p) ==
    /\ p \in Published(s)
    /\ offering' = [offering EXCEPT ![s][p] = NotOffered]
    /\ UNCHANGED catalog

SetAvailability(s, p) ==
    /\ p \in Published(s)
    /\ offering' = [offering EXCEPT ![s][p].available = ~@]
    /\ UNCHANGED catalog

SetSortOrder(s, p) ==
    /\ p \in Published(s)
    /\ \E n \in 0..MaxSort \ {offering[s][p].sort} :
           offering' = [offering EXCEPT ![s][p].sort = n]
    /\ UNCHANGED catalog

\* The endpoints: the branch is the session's, the product is the request's.
PostProduct(s)         == \E p \in Products : CreateProduct(s, p)
PatchProduct           == \E p \in Products : UpdateProduct(p)
PostPublish(s)         == \E p \in Products : PublishProduct(s, p)
PostUnpublish(s)       == \E p \in Products : UnpublishProduct(s, p)
PatchAvailability(s)   == \E p \in Products : SetAvailability(s, p)
PatchSortOrder(s)      == \E p \in Products : SetSortOrder(s, p)

Menu ==
    /\ \/ PatchProduct
       \/ \E s \in Stores : \/ PostProduct(s) \/ PostPublish(s) \/ PostUnpublish(s)
                            \/ PatchAvailability(s) \/ PatchSortOrder(s)
    /\ UNCHANGED <<table, token, call, stage, previous>>

-----------------------------------------------------------------------------
(* Stickers and orders, one statement at a time *)

Tokens       == {k \in Calls : token[k].status # "ABSENT"}
ActiveTokens(t) == {k \in Tokens : token[k].table = t /\ token[k].status = "ACTIVE"}

\* Mutant: the table is read without FOR UPDATE.
TableReadOnly(t) == FALSE

\* FOR UPDATE on the table's row.
TableLocked(t) == \E c \in Calls :
    stage[c] = "locked" /\ call[c].op \in {"issue", "rotate"} /\ call[c].table = t

\* Mutant: resolve_token without for_update.
TokenReadOnly(k) == FALSE

\* FOR UPDATE on the sticker's row, from resolve_token to the commit of the order.
TokenLocked(k) == \E c \in Calls :
    stage[c] \in {"resolved", "checked"} /\ call[c].op = "order" /\ call[c].token = k

Advance(c, to) == stage' = [stage EXCEPT ![c] = to]

Finish(c) == Advance(c, "done") /\ previous' = [previous EXCEPT ![c] = {}] /\ UNCHANGED call

Begin(c, op, t, k, p) ==
    /\ stage[c] = "idle"
    /\ call' = [call EXCEPT ![c] = [op |-> op, table |-> t, token |-> k, product |-> p]]
    /\ Advance(c, "begun")
    /\ UNCHANGED <<catalog, offering, table, token, previous>>

\* The setup screen prints stickers for the tables of its own branch only.
IssueTableQr(c, s, t)  == table[t] = s /\ Begin(c, "issue", t, Null, Null)
RotateTableQr(c, s, t) == table[t] = s /\ Begin(c, "rotate", t, Null, Null)

PostQrToken(c)  == \E s \in Stores, t \in Tables : IssueTableQr(c, s, t)
PostRotateQr(c) == \E s \in Stores, t \in Tables : RotateTableQr(c, s, t)

\* manage_qr_tokens.py: any table, any sticker.
CmdIssue(c)  == \E t \in Tables : table[t] # Null /\ Begin(c, "issue", t, Null, Null)
CmdRevoke(c) == \E k \in Tokens : Begin(c, "revoke", Null, k, Null)

\* rotate_by_id reads the sticker, without a lock, to learn its table.
RotateById(c, k) == token[k].status = "ACTIVE" /\ Begin(c, "rotate", token[k].table, k, Null)

CmdRotate(c) == \E k \in Tokens : RotateById(c, k)

\* A guest has scanned a sticker, maybe long ago.
BeginOrder(c) == \E k \in Tokens, p \in Products : Begin(c, "order", Null, k, p)

\* _table_number_taken and _clean_table_number refuse no fresh label.
CreateTable(c, s, t) ==
    /\ table[t] = Null
    /\ table' = [table EXCEPT ![t] = s]
    /\ token' \in {token, [token EXCEPT ![c] = NewToken(t)]}

PostTable(c) ==
    /\ stage[c] = "idle"
    /\ \E s \in Stores, t \in Tables : CreateTable(c, s, t)
    /\ Finish(c)
    /\ UNCHANGED menuVars

LockTable(c) ==
    /\ stage[c] = "begun" /\ call[c].op \in {"issue", "rotate"}
    /\ ~TableLocked(call[c].table)
    /\ Advance(c, "locked")
    /\ previous' = [previous EXCEPT ![c] = ActiveTokens(call[c].table)]
    /\ UNCHANGED <<catalog, offering, table, token, call>>

\* A sticker that is active already is refused.
IssueToken(c) ==
    /\ stage[c] = "locked" /\ call[c].op = "issue"
    /\ token' = IF previous[c] = {}
                THEN [token EXCEPT ![c] = NewToken(call[c].table)]
                ELSE token
    /\ Finish(c)
    /\ UNCHANGED <<catalog, offering, table>>

\* The old sticker is revoked, the new one is active, the lineage links them.
Rotated(c) ==
    [k \in Calls |->
        CASE k = c             -> NewToken(call[c].table)
          [] k \in previous[c] -> [token[k] EXCEPT !.status = "REVOKED", !.next = c]
          [] OTHER             -> token[k]]

RotateToken(c) ==
    /\ stage[c] = "locked" /\ call[c].op = "rotate"
    /\ \A k \in previous[c] : ~TokenLocked(k)
    /\ token' = Rotated(c)
    /\ Finish(c)
    /\ UNCHANGED <<catalog, offering, table>>

RevokeById(c) ==
    LET k == call[c].token IN
    /\ stage[c] = "begun" /\ call[c].op = "revoke"
    /\ ~TokenLocked(k)
    /\ token' = IF token[k].status = "ACTIVE"
                THEN [token EXCEPT ![k].status = "REVOKED"]
                ELSE token
    /\ Finish(c)
    /\ UNCHANGED <<catalog, offering, table>>

\* Table and branch come from the sticker, whose row stays locked.
ResolveToken(c) ==
    LET k == call[c].token IN
    /\ stage[c] = "begun" /\ call[c].op = "order"
    /\ ~TokenLocked(k)
    /\ IF token[k].status = "ACTIVE"
       THEN /\ Advance(c, "resolved")
            /\ call' = [call EXCEPT ![c].table = token[k].table]
            /\ UNCHANGED previous
       ELSE Finish(c)
    /\ UNCHANGED <<catalog, offering, table, token>>

\* _resolve_menu_products, in the branch of the sticker.
CheckMenu(c) ==
    /\ stage[c] = "resolved" /\ call[c].op = "order"
    /\ IF Orderable(table[call[c].table], call[c].product)
       THEN Advance(c, "checked") /\ UNCHANGED <<call, previous>>
       ELSE Finish(c)
    /\ UNCHANGED <<catalog, offering, table, token>>

\* The insert's foreign key takes FOR KEY SHARE on the table's row.
PlaceOrder(c) ==
    /\ stage[c] = "checked" /\ call[c].op = "order"
    /\ ~TableLocked(call[c].table)
    /\ Advance(c, "placed")
    /\ UNCHANGED <<catalog, offering, table, token, call, previous>>

\* An exception, a lost connection, or the victim PostgreSQL picks in a deadlock.
Fail(c) ==
    /\ stage[c] \notin {"idle", "done", "placed"}
    /\ Finish(c)
    /\ UNCHANGED <<catalog, offering, table, token>>

-----------------------------------------------------------------------------
(* The setup screen *)

TablesOf(s)       == {t \in Tables : table[t] = s}
TableOf(k)        == token[k].table

\* Mutant: every sticker ever printed makes its table scannable.
TablesEverScannable(s) == {TableOf(k) : k \in {l \in Tokens : TableOf(l) \in TablesOf(s)}}

TablesWithQr(s)   == {TableOf(k) : k \in {l \in Tokens :
                         token[l].status = "ACTIVE" /\ TableOf(l) \in TablesOf(s)}}

Ready(s) ==
    /\ Cardinality(TablesOf(s)) > 0
    /\ TablesWithQr(s) # {} /\ Cardinality(TablesWithQr(s)) = Cardinality(TablesOf(s))
    /\ Cardinality(Published(s)) > 0
    /\ Cardinality({p \in Published(s) :
           offering[s][p].available /\ catalog[p] = "active"}) > 0

-----------------------------------------------------------------------------
FrontInit ==
    /\ catalog  = [p \in Products |-> "absent"]
    /\ offering = [s \in Stores |-> [p \in Products |-> NotOffered]]
    /\ table    = [t \in Tables |-> Null]
    /\ token    = [c \in Calls |-> NoToken]
    /\ call     = [c \in Calls |-> NoCall]
    /\ stage    = [c \in Calls |-> "idle"]
    /\ previous = [c \in Calls |-> {}]

FrontNext ==
    \/ Menu
    \/ \E c \in Calls :
        \/ PostTable(c) \/ PostQrToken(c) \/ PostRotateQr(c)
        \/ CmdIssue(c) \/ CmdRotate(c) \/ CmdRevoke(c)
        \/ BeginOrder(c) \/ LockTable(c) \/ IssueToken(c) \/ RotateToken(c) \/ RevokeById(c)
        \/ ResolveToken(c) \/ CheckMenu(c) \/ PlaceOrder(c) \/ Fail(c)

FrontSpec == FrontInit /\ [][FrontNext]_frontVars

-----------------------------------------------------------------------------
(* Properties *)

\* The variables hold what the tables and the requests can hold.
FrontTypeOK ==
    /\ catalog  \in [Products -> {"absent", "active", "inactive"}]
    /\ offering \in [Stores -> [Products ->
           [published : BOOLEAN, available : BOOLEAN, sort : 0..MaxSort]]]
    /\ table    \in [Tables -> Stores \cup {Null}]
    /\ token    \in [Calls -> [status : {"ABSENT", "ACTIVE", "REVOKED"},
                               table : Tables \cup {Null}, next : Calls \cup {Null}]]
    /\ call     \in [Calls -> [op : {"none", "issue", "rotate", "revoke", "order"},
                               table : Tables \cup {Null}, token : Calls \cup {Null},
                               product : Products \cup {Null}]]
    /\ stage    \in [Calls -> {"idle", "begun", "locked", "resolved", "checked", "placed", "done"}]
    /\ previous \in [Calls -> SUBSET Calls]

\* A table never has two working stickers, and the lineage of its stickers is a
\* chain: only a dead sticker has a successor, of the same table, of its own.
\* The table lock alone has to guarantee it, without the unique index.
StickersAreSound ==
    /\ FrontTypeOK
    /\ \A t \in Tables : Cardinality(ActiveTokens(t)) <= 1
    /\ \A k \in Tokens : token[k].next # Null =>
           /\ token[k].status = "REVOKED"
           /\ token[token[k].next].status # "ABSENT"
           /\ TableOf(token[k].next) = TableOf(k)
           /\ \A l \in Tokens \ {k} : token[l].next # token[k].next

\* A guest who scans a sticker of table t can order a product now.
CanOrder(t) ==
    \E k \in Tokens, p \in Products :
        /\ TableOf(k) = t /\ token[k].status = "ACTIVE"
        /\ p \in GuestMenu(table[t]) /\ Orderable(table[t], p)

\* The setup screen says "ready" exactly when a guest at any table of the branch
\* can scan, see a product and order it; and the three queries that decide what
\* is on the menu (setup screen, phone, order) agree on every product.
SetupTellsTruth ==
    \A s \in Stores :
        /\ Ready(s) <=> TablesOf(s) # {} /\ \A t \in TablesOf(s) : CanOrder(t)
        /\ {r.product : r \in {m \in MenuRows(s) : m.visible}} = GuestMenu(s)
        /\ GuestMenu(s) = {p \in Products : Orderable(s, p)}

\* An order commits only while its sticker still works: a revocation or a
\* rotation waits for the order, or the order is refused.
OldStickerOrdersNothing ==
    [][\A c \in Calls : stage'[c] = "placed" /\ stage[c] # "placed" =>
           token[call[c].token].status = "ACTIVE" /\ TableOf(call[c].token) = call[c].table
      ]_frontVars

\* "Targeting the exact record guarantees a rotate acts on one unambiguous
\* token": a rotation by id kills no other sticker than the one it was given.
RotateHitsItsToken ==
    [][\A c \in Calls, k \in Calls :
           /\ call[c].op = "rotate" /\ call[c].token # Null
           /\ token'[k].next = c /\ token[k].next # c
           => k = call[c].token
      ]_frontVars

=============================================================================
