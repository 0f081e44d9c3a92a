-------------------------- MODULE StoreFrontProofs --------------------------
(***************************************************************************)
(* The invariants of StoreFront, for any number of branches, tables,       *)
(* products and calls, and those of the owner's panel of a branch          *)
(* (OwnerFeed), for any number of decisions and requests. The two share    *)
(* no state.                                                               *)
(***************************************************************************)
EXTENDS StoreFront, OwnerFeed, BoundedSumsProofs, FiniteSetTheorems,
        WellFoundedInduction, TLAPS

-----------------------------------------------------------------------------
(* The inductive invariant. One working sticker per table is not inductive:  *)
(* what protects it is that whoever holds a table's lock holds it alone, and *)
(* that the stickers it has read as active are still all there are.          *)

\* A sticker has the id of the finished call that printed it, and hangs on a table.
StickersHaveTables ==
    \A k \in Calls :
        /\ token[k].status = "ABSENT" => token[k] = NoToken
        /\ token[k].status # "ABSENT" => /\ stage[k] = "done"
                                         /\ token[k].table \in Tables
                                         /\ table[token[k].table] # Null

\* A table has one working sticker; only a dead sticker has a successor, its own.
StickersFormChains ==
    \A k, l \in Calls :
        /\ /\ token[k].status = "ACTIVE" /\ token[l].status = "ACTIVE"
           /\ token[k].table = token[l].table
           => k = l
        /\ token[k].status = "ACTIVE" => token[k].next = Null
        /\ token[k].next = l => /\ token[l].status # "ABSENT"
                                /\ token[l].table = token[k].table
                                /\ \A m \in Calls : token[m].next = l => m = k

Busy(c) == stage[c] \in {"begun", "locked", "resolved", "checked"}

\* What a call that is under way may rely on.
CallsKnowTheirRows ==
    \A c \in Calls :
        /\ Busy(c) /\ call[c].op \in {"issue", "rotate"} =>
              call[c].table \in Tables /\ table[call[c].table] # Null
        /\ Busy(c) /\ call[c].op \in {"revoke", "order"} =>
              call[c].token \in Calls /\ token[call[c].token].status # "ABSENT"
        /\ stage[c] = "locked" => call[c].op \in {"issue", "rotate"}

\* FOR UPDATE on the table: the holder is alone, and what it read is still so, except
\* that a sticker it read as active may have been revoked by its id since.
LockHoldersKnowTheTable ==
    \A c \in Calls : stage[c] = "locked" =>
        /\ \A d \in Calls : stage[d] = "locked" /\ call[d].table = call[c].table => d = c
        /\ ActiveTokens(call[c].table) \subseteq previous[c]
        /\ \A k, l \in previous[c] : k = l
        /\ \A k \in previous[c] : /\ token[k].status # "ABSENT"
                                  /\ token[k].table = call[c].table
                                  /\ token[k].next = Null

\* FOR UPDATE on the sticker: from the scan to the insert it stays active.
OrdersHoldTheirSticker ==
    \A c \in Calls : stage[c] \in {"resolved", "checked"} =>
        /\ call[c].op = "order"
        /\ token[call[c].token].status = "ACTIVE"
        /\ token[call[c].token].table = call[c].table

IInv ==
    /\ FrontTypeOK
    /\ StickersHaveTables
    /\ StickersFormChains
    /\ CallsKnowTheirRows
    /\ LockHoldersKnowTheTable
    /\ OrdersHoldTheirSticker

-----------------------------------------------------------------------------
(* The menu *)

LEMMA NextSortOrderType ==
    ASSUME FrontTypeOK, NEW s \in Stores
    PROVE  NextSortOrder(s) \in Nat
<1> DEFINE Sorts == {offering[s][p].sort : p \in Published(s)}
<1>1. Sorts \subseteq 0..MaxSort
  BY DEF FrontTypeOK, Published
<1>2. CASE Published(s) = {}
  BY <1>2 DEF NextSortOrder
<1>3. CASE Published(s) # {}
  <2>1. Sorts # {}
    BY <1>3
  <2>2. NextSortOrder(s) = Max(Sorts) + 1
    BY <1>3 DEF NextSortOrder
  <2> HIDE DEF Sorts
  <2>3. \E m \in Sorts : \A n \in Sorts : n <= m
    <3>1. IsFiniteSet(Sorts) /\ Sorts \subseteq Nat
      <4> DEFINE zero == 0
                 all == zero..MaxSort
      <4>1. zero \in Int /\ MaxSort \in Int
        BY MaxSortIsNat
      <4>2. Sorts \subseteq all /\ all \subseteq Nat
        BY <1>1, MaxSortIsNat
      <4> HIDE DEF zero
      <4>3. IsFiniteSet(all)
        BY <4>1, FS_Interval
      <4> HIDE DEF all
      <4> QED
        BY <4>2, <4>3, FS_Subset
    <3> QED
      BY <2>1, <3>1, LargestExists
  <2>4. \E m \in Sorts : \A n \in Sorts : m >= n
    BY <1>1, <2>3, MaxSortIsNat
  <2>5. Max(Sorts) \in Sorts
    BY <2>4 DEF Max
  <2>6. PICK m \in Sorts : m = Max(Sorts)
    BY <2>5
  <2>7. m \in Nat /\ NextSortOrder(s) = m + 1
    BY <1>1, <2>2, <2>6, MaxSortIsNat
  <2> QED
    BY <2>7
<1> QED
  BY <1>2, <1>3

\* The menu's calls leave tables, stickers and calls alone.
LEMMA MenuKeeps ==
    ASSUME IInv, Menu
    PROVE  IInv'
<1> DEFINE Row == [published : BOOLEAN, available : BOOLEAN, sort : 0..MaxSort]
<1>1. /\ FrontTypeOK /\ catalog \in [Products -> {"absent", "active", "inactive"}]
      /\ offering \in [Stores -> [Products -> Row]]
  BY DEF IInv, FrontTypeOK
<1>2. ASSUME NEW s \in Stores, NEW p \in Products, NEW entry \in Row,
             offering' = [offering EXCEPT ![s] = [offering[s] EXCEPT ![p] = entry]]
      PROVE  offering' \in [Stores -> [Products -> Row]]
  <2>1. [offering[s] EXCEPT ![p] = entry] \in [Products -> Row]
    BY <1>1
  <2> QED
    BY <1>1, <1>2, <2>1
<1>3. ASSUME NEW s \in Stores, NEW p \in Products, InsertOffering(s, p)
      PROVE  offering' \in [Stores -> [Products -> Row]]
  <2> DEFINE entry == [published |-> TRUE, available |-> TRUE, sort |-> NextSortOrder(s)]
  <2>1. NextSortOrder(s) \in 0..MaxSort
    BY <1>1, <1>3, NextSortOrderType, MaxSortIsNat DEF InsertOffering
  <2>2. entry \in Row
    BY <2>1
  <2>3. offering' = [offering EXCEPT ![s] = [offering[s] EXCEPT ![p] = entry]]
    BY <1>3 DEF InsertOffering
  <2> HIDE DEF entry, Row
  <2> QED
    BY <1>2, <2>2, <2>3
<1>4. ASSUME NEW s \in Stores, NEW p \in Products, UnpublishProduct(s, p)
      PROVE  offering' \in [Stores -> [Products -> Row]]
  <2>1. NotOffered \in Row
    BY MaxSortIsNat DEF NotOffered
  <2>2. offering' = [offering EXCEPT ![s] = [offering[s] EXCEPT ![p] = NotOffered]]
    BY <1>4 DEF UnpublishProduct
  <2> QED
    BY <1>2, <2>1, <2>2
<1>5. ASSUME NEW s \in Stores, NEW p \in Products, SetAvailability(s, p)
      PROVE  offering' \in [Stores -> [Products -> Row]]
  <2> DEFINE entry == [offering[s][p] EXCEPT !.available = ~offering[s][p].available]
  <2>1. offering[s][p] \in Row
    BY <1>1
  <2>2. entry \in Row
    BY <2>1
  <2>3. offering' = [offering EXCEPT ![s] = [offering[s] EXCEPT ![p] = entry]]
    BY <1>5 DEF SetAvailability
  <2> HIDE DEF entry, Row
  <2> QED
    BY <1>2, <2>2, <2>3
<1>6. ASSUME NEW s \in Stores, NEW p \in Products, SetSortOrder(s, p)
      PROVE  offering' \in [Stores -> [Products -> Row]]
  <2>1. PICK n \in 0..MaxSort : offering' = [offering EXCEPT ![s][p].sort = n]
    BY <1>6 DEF SetSortOrder
  <2> DEFINE entry == [offering[s][p] EXCEPT !.sort = n]
  <2>2. offering[s][p] \in Row
    BY <1>1
  <2>3. entry \in Row
    BY <2>2
  <2>4. offering' = [offering EXCEPT ![s] = [offering[s] EXCEPT ![p] = entry]]
    BY <2>1
  <2> HIDE DEF entry, Row
  <2> QED
    BY <1>2, <2>3, <2>4
<1>7. /\ catalog' \in [Products -> {"absent", "active", "inactive"}]
      /\ offering' \in [Stores -> [Products -> Row]]
  <2>1. CASE PatchProduct
    BY <1>1, <2>1 DEF PatchProduct, UpdateProduct
  <2>2. ASSUME NEW s \in Stores, PostProduct(s)
        PROVE  <1>7!1 /\ <1>7!2
    BY <1>1, <1>3, <2>2 DEF PostProduct, CreateProduct
  <2>3. ASSUME NEW s \in Stores,
               PostPublish(s) \/ PostUnpublish(s) \/ PatchAvailability(s) \/ PatchSortOrder(s)
        PROVE  <1>7!1 /\ <1>7!2
    BY <1>1, <1>3, <1>4, <1>5, <1>6, <2>3
       DEF PostPublish, PostUnpublish, PatchAvailability, PatchSortOrder,
           PublishProduct, UnpublishProduct, SetAvailability, SetSortOrder
  <2> QED
    BY <2>1, <2>2, <2>3 DEF Menu
<1>8. UNCHANGED <<table, token, call, stage, previous>>
  BY DEF Menu
<1>9. FrontTypeOK'
  BY <1>7, <1>8 DEF IInv, FrontTypeOK
<1> QED
  BY <1>8, <1>9 DEF IInv, StickersHaveTables, StickersFormChains, CallsKnowTheirRows,
     LockHoldersKnowTheTable, OrdersHoldTheirSticker, Busy, ActiveTokens, Tokens

-----------------------------------------------------------------------------
(* Calls come and go *)

\* A call begins with the rows its endpoint has looked up.
LEMMA BeginKeeps ==
    ASSUME IInv, NEW c \in Calls, NEW op \in {"issue", "rotate", "revoke", "order"},
           NEW t \in Tables \cup {Null}, NEW k \in Calls \cup {Null},
           NEW p \in Products \cup {Null},
           op \in {"issue", "rotate"} => t \in Tables /\ table[t] # Null,
           op \in {"revoke", "order"} => k \in Calls /\ token[k].status # "ABSENT",
           Begin(c, op, t, k, p)
    PROVE  IInv'
<1> DEFINE new == [op |-> op, table |-> t, token |-> k, product |-> p]
<1>1. /\ stage[c] = "idle" /\ call' = [call EXCEPT ![c] = new]
      /\ stage' = [stage EXCEPT ![c] = "begun"]
      /\ UNCHANGED <<catalog, offering, table, token, previous>>
  BY DEF Begin, Advance
<1>2. /\ call \in [Calls -> [op : {"none", "issue", "rotate", "revoke", "order"},
                             table : Tables \cup {Null}, token : Calls \cup {Null},
                             product : Products \cup {Null}]]
      /\ stage \in [Calls -> {"idle", "begun", "locked", "resolved", "checked", "placed", "done"}]
  BY DEF IInv, FrontTypeOK
<1>3. /\ call'[c] = new /\ stage'[c] = "begun"
      /\ \A d \in Calls : d # c => call'[d] = call[d] /\ stage'[d] = stage[d]
  BY <1>1, <1>2
<1>4. FrontTypeOK'
  <2>1. new \in [op : {"none", "issue", "rotate", "revoke", "order"},
                 table : Tables \cup {Null}, token : Calls \cup {Null},
                 product : Products \cup {Null}]
    OBVIOUS
  <2> HIDE DEF new
  <2> QED
    BY <1>1, <2>1 DEF IInv, FrontTypeOK
<1>5. StickersHaveTables'
  BY <1>1, <1>3 DEF IInv, StickersHaveTables
<1>6. StickersFormChains'
  BY <1>1 DEF IInv, StickersFormChains
<1>7. CallsKnowTheirRows'
  BY <1>1, <1>3 DEF IInv, CallsKnowTheirRows, Busy
<1>8. LockHoldersKnowTheTable'
  BY <1>1, <1>3 DEF IInv, LockHoldersKnowTheTable, ActiveTokens, Tokens
<1>9. OrdersHoldTheirSticker'
  BY <1>1, <1>3 DEF IInv, OrdersHoldTheirSticker
<1> QED
  BY <1>4, <1>5, <1>6, <1>7, <1>8, <1>9 DEF IInv

\* The setup screen, the script and the guests' phones look up their rows.
LEMMA RequestsKeep ==
    ASSUME IInv, NEW c \in Calls,
           \/ PostQrToken(c) \/ PostRotateQr(c) \/ CmdIssue(c)
           \/ CmdRotate(c) \/ CmdRevoke(c) \/ BeginOrder(c)
    PROVE  IInv'
<1>1. \A k \in Calls : token[k].status # "ABSENT" =>
          token[k].table \in Tables /\ table[token[k].table] # Null
  BY DEF IInv, StickersHaveTables
<1>2. Null \notin Stores
  BY NullIsNoId
<1>3. CASE PostQrToken(c) \/ PostRotateQr(c) \/ CmdIssue(c)
  <2>1. PICK t \in Tables, op \in {"issue", "rotate"} :
            table[t] # Null /\ Begin(c, op, t, Null, Null)
    BY <1>2, <1>3 DEF PostQrToken, PostRotateQr, CmdIssue, IssueTableQr, RotateTableQr
  <2> QED
    BY <2>1, BeginKeeps
<1>4. CASE CmdRotate(c)
  <2>1. PICK k \in Tokens : token[k].status = "ACTIVE" /\ Begin(c, "rotate", token[k].table, k, Null)
    BY <1>4 DEF CmdRotate, RotateById
  <2>2. k \in Calls /\ token[k].table \in Tables /\ table[token[k].table] # Null
    BY <1>1, <2>1 DEF Tokens
  <2> QED
    BY <2>1, <2>2, BeginKeeps
<1>5. CASE CmdRevoke(c)
  <2>1. PICK k \in Tokens : Begin(c, "revoke", Null, k, Null)
    BY <1>5 DEF CmdRevoke
  <2> QED
    BY <2>1, BeginKeeps DEF Tokens
<1>6. CASE BeginOrder(c)
  <2>1. PICK k \in Tokens, p \in Products : Begin(c, "order", Null, k, p)
    BY <1>6 DEF BeginOrder
  <2> QED
    BY <2>1, BeginKeeps DEF Tokens
<1> QED
  BY <1>3, <1>4, <1>5, <1>6

\* A call that ends without a change to the stickers lets go of its locks; it may
\* have put up tables that were not there.
LEMMA LeavingKeeps ==
    ASSUME IInv, NEW c \in Calls, stage[c] # "done", Finish(c),
           table' \in [Tables -> Stores \cup {Null}],
           \A t \in Tables : table[t] # Null => table'[t] # Null,
           UNCHANGED <<catalog, offering, token>>
    PROVE  IInv'
<1>1. /\ stage' = [stage EXCEPT ![c] = "done"] /\ previous' = [previous EXCEPT ![c] = {}]
      /\ UNCHANGED <<catalog, offering, token, call>>
  BY DEF Finish, Advance
<1>2. /\ stage \in [Calls -> {"idle", "begun", "locked", "resolved", "checked", "placed", "done"}]
      /\ previous \in [Calls -> SUBSET Calls]
  BY DEF IInv, FrontTypeOK
<1>3. /\ stage'[c] = "done"
      /\ \A d \in Calls : d # c => stage'[d] = stage[d] /\ previous'[d] = previous[d]
  BY <1>1, <1>2
<1>4. FrontTypeOK'
  BY <1>1, <1>2 DEF IInv, FrontTypeOK
<1>5. StickersHaveTables'
  BY <1>1, <1>3 DEF IInv, StickersHaveTables
<1>6. StickersFormChains'
  BY <1>1 DEF IInv, StickersFormChains
<1>7. CallsKnowTheirRows'
  BY <1>1, <1>3 DEF IInv, CallsKnowTheirRows, Busy
<1>8. LockHoldersKnowTheTable'
  BY <1>1, <1>3 DEF IInv, LockHoldersKnowTheTable, ActiveTokens, Tokens
<1>9. OrdersHoldTheirSticker'
  BY <1>1, <1>3 DEF IInv, OrdersHoldTheirSticker
<1> QED
  BY <1>4, <1>5, <1>6, <1>7, <1>8, <1>9 DEF IInv

\* An order moves on with its sticker locked.
LEMMA OrderMovesOn ==
    ASSUME IInv, NEW c \in Calls,
           \/ stage[c] = "resolved" /\ Advance(c, "checked")
           \/ stage[c] = "checked" /\ Advance(c, "placed"),
           UNCHANGED <<catalog, offering, table, token, call, previous>>
    PROVE  IInv'
<1>1. stage \in [Calls -> {"idle", "begun", "locked", "resolved", "checked", "placed", "done"}]
  BY DEF IInv, FrontTypeOK
<1>2. /\ stage'[c] \in {"checked", "placed"} /\ stage[c] \in {"resolved", "checked"}
      /\ \A d \in Calls : d # c => stage'[d] = stage[d]
      /\ stage' \in [Calls -> {"idle", "begun", "locked", "resolved", "checked", "placed", "done"}]
  BY <1>1 DEF Advance
<1>3. FrontTypeOK'
  BY <1>2 DEF IInv, FrontTypeOK
<1>4. StickersHaveTables'
  BY <1>2 DEF IInv, StickersHaveTables
<1>5. StickersFormChains'
  BY DEF IInv, StickersFormChains
<1>6. CallsKnowTheirRows'
  BY <1>2 DEF IInv, CallsKnowTheirRows, Busy
<1>7. LockHoldersKnowTheTable'
  BY <1>2 DEF IInv, LockHoldersKnowTheTable, ActiveTokens, Tokens
<1>8. OrdersHoldTheirSticker'
  BY <1>2 DEF IInv, OrdersHoldTheirSticker
<1> QED
  BY <1>3, <1>4, <1>5, <1>6, <1>7, <1>8 DEF IInv

\* A finished call's sticker has a row of its own, which no lineage names yet.
LEMMA NoStickerYet ==
    ASSUME IInv, NEW c \in Calls, stage[c] # "done"
    PROVE  /\ token[c] = NoToken
           /\ \A k \in Calls : token[k].next # c
<1>1. token[c].status = "ABSENT" /\ token[c] = NoToken
  BY DEF IInv, StickersHaveTables
<1> QED
  BY <1>1 DEF IInv, StickersFormChains

\* A new sticker goes up at a table that has none, and that nobody else has locked.
LEMMA PrintKeeps ==
    ASSUME IInv, NEW c \in Calls, NEW t \in Tables, stage[c] # "done",
           ActiveTokens(t) = {},
           \A d \in Calls \ {c} : stage[d] = "locked" => call[d].table # t,
           table' \in [Tables -> Stores \cup {Null}], table'[t] # Null,
           \A u \in Tables : table[u] # Null => table'[u] # Null,
           token' = [token EXCEPT ![c] = NewToken(t)],
           Finish(c), UNCHANGED <<catalog, offering>>
    PROVE  IInv'
<1>1. /\ stage' = [stage EXCEPT ![c] = "done"] /\ previous' = [previous EXCEPT ![c] = {}]
      /\ UNCHANGED <<catalog, offering, call>>
  BY DEF Finish, Advance
<1>2. /\ stage \in [Calls -> {"idle", "begun", "locked", "resolved", "checked", "placed", "done"}]
      /\ previous \in [Calls -> SUBSET Calls]
      /\ token \in [Calls -> [status : {"ABSENT", "ACTIVE", "REVOKED"},
                              table : Tables \cup {Null}, next : Calls \cup {Null}]]
  BY DEF IInv, FrontTypeOK
<1>3. /\ stage'[c] = "done" /\ previous'[c] = {}
      /\ \A d \in Calls : d # c => stage'[d] = stage[d] /\ previous'[d] = previous[d]
  BY <1>1, <1>2
<1>4. /\ token'[c].status = "ACTIVE" /\ token'[c].table = t /\ token'[c].next = Null
      /\ \A k \in Calls : k # c => token'[k] = token[k]
      /\ NewToken(t) \in [status : {"ABSENT", "ACTIVE", "REVOKED"},
                          table : Tables \cup {Null}, next : Calls \cup {Null}]
  BY <1>2 DEF NewToken
<1>5. /\ token[c].status = "ABSENT" /\ c # Null
      /\ \A k \in Calls : token[k].next # c
      /\ \A k \in Calls : token[k].status = "ACTIVE" => token[k].table # t
  BY NoStickerYet, NullIsNoId DEF NoToken, ActiveTokens, Tokens
<1>6. FrontTypeOK'
  BY <1>1, <1>2, <1>4 DEF IInv, FrontTypeOK
<1>7. StickersHaveTables'
  BY <1>3, <1>4 DEF IInv, StickersHaveTables
<1>8. StickersFormChains'
  <2> SUFFICES ASSUME NEW k \in Calls, NEW l \in Calls
               PROVE  /\ /\ token'[k].status = "ACTIVE" /\ token'[l].status = "ACTIVE"
                         /\ token'[k].table = token'[l].table
                         => k = l
                      /\ token'[k].status = "ACTIVE" => token'[k].next = Null
                      /\ token'[k].next = l => /\ token'[l].status # "ABSENT"
                                               /\ token'[l].table = token'[k].table
                                               /\ \A m \in Calls : token'[m].next = l => m = k
    BY DEF StickersFormChains
  <2>1. l # Null
    BY NullIsNoId
  <2> QED
    BY <1>4, <1>5, <2>1 DEF IInv, StickersFormChains
<1>9. CallsKnowTheirRows'
  BY <1>1, <1>3, <1>4 DEF IInv, CallsKnowTheirRows, Busy
<1>10. LockHoldersKnowTheTable'
  <2> SUFFICES ASSUME NEW d \in Calls, stage'[d] = "locked"
               PROVE  /\ \A e \in Calls : stage'[e] = "locked" /\ call'[e].table = call'[d].table
                             => e = d
                      /\ ActiveTokens(call[d].table)' \subseteq previous'[d]
                      /\ \A k, l \in previous'[d] : k = l
                      /\ \A k \in previous'[d] : /\ token'[k].status # "ABSENT"
                                                 /\ token'[k].table = call'[d].table
                                                 /\ token'[k].next = Null
    BY DEF LockHoldersKnowTheTable
  <2>1. d # c /\ stage[d] = "locked" /\ call[d].table # t /\ call' = call
    BY <1>1, <1>3
  <2>2. ActiveTokens(call[d].table)' = ActiveTokens(call[d].table)
    BY <1>4, <1>5, <2>1 DEF ActiveTokens, Tokens
  <2>3. c \notin previous[d] /\ previous[d] \subseteq Calls
    BY <1>2, <1>5, <2>1 DEF IInv, LockHoldersKnowTheTable
  <2> QED
    BY <1>3, <1>4, <2>1, <2>2, <2>3 DEF IInv, LockHoldersKnowTheTable
<1>11. OrdersHoldTheirSticker'
  BY <1>1, <1>3, <1>4, <1>5 DEF IInv, OrdersHoldTheirSticker, CallsKnowTheirRows, Busy
<1> QED
  BY <1>6, <1>7, <1>8, <1>9, <1>10, <1>11 DEF IInv

LEMMA PostTableKeeps ==
    ASSUME IInv, NEW c \in Calls, PostTable(c)
    PROVE  IInv'
<1>1. PICK s \in Stores, t \in Tables : CreateTable(c, s, t)
  BY DEF PostTable
<1>2. /\ stage[c] = "idle" /\ Finish(c) /\ UNCHANGED <<catalog, offering>>
      /\ table[t] = Null /\ table' = [table EXCEPT ![t] = s]
      /\ token' \in {token, [token EXCEPT ![c] = NewToken(t)]}
  BY <1>1 DEF PostTable, CreateTable, menuVars
<1>3. /\ table' \in [Tables -> Stores \cup {Null}] /\ table'[t] # Null
      /\ \A u \in Tables : table[u] # Null => table'[u] # Null
  BY <1>2, NullIsNoId DEF IInv, FrontTypeOK
<1>4. ActiveTokens(t) = {}
  BY <1>2 DEF IInv, StickersHaveTables, ActiveTokens, Tokens
<1>5. \A d \in Calls \ {c} : stage[d] = "locked" => call[d].table # t
  BY <1>2 DEF IInv, CallsKnowTheirRows, Busy
<1> QED
  BY <1>2, <1>3, <1>4, <1>5, LeavingKeeps, PrintKeeps

LEMMA IssueTokenKeeps ==
    ASSUME IInv, NEW c \in Calls, IssueToken(c)
    PROVE  IInv'
<1> DEFINE t == call[c].table
<1>1. /\ stage[c] = "locked" /\ Finish(c) /\ UNCHANGED <<catalog, offering, table>>
      /\ token' = IF previous[c] = {} THEN [token EXCEPT ![c] = NewToken(t)] ELSE token
  BY DEF IssueToken
<1>2. /\ t \in Tables /\ table[t] # Null
      /\ table' \in [Tables -> Stores \cup {Null}] /\ table' = table
  BY <1>1 DEF IInv, CallsKnowTheirRows, Busy, FrontTypeOK, IssueToken
<1>3. /\ ActiveTokens(t) \subseteq previous[c]
      /\ \A d \in Calls \ {c} : stage[d] = "locked" => call[d].table # t
  BY <1>1 DEF IInv, LockHoldersKnowTheTable
<1>4. CASE previous[c] = {}
  <2> HIDE DEF t
  <2>1. ActiveTokens(t) = {} /\ token' = [token EXCEPT ![c] = NewToken(t)]
    BY <1>1, <1>3, <1>4
  <2> QED
    BY <1>1, <1>2, <1>3, <2>1, PrintKeeps
<1>5. CASE previous[c] # {}
  BY <1>1, <1>2, <1>5, LeavingKeeps
<1> QED
  BY <1>4, <1>5

-----------------------------------------------------------------------------
(* Tables, stickers and their locks *)

LEMMA LockTableKeeps ==
    ASSUME IInv, NEW c \in Calls, LockTable(c)
    PROVE  IInv'
<1> DEFINE t == call[c].table
<1>1. /\ stage[c] = "begun" /\ call[c].op \in {"issue", "rotate"} /\ ~TableLocked(t)
      /\ stage' = [stage EXCEPT ![c] = "locked"]
      /\ previous' = [previous EXCEPT ![c] = ActiveTokens(t)]
      /\ UNCHANGED <<catalog, offering, table, token, call>>
  BY DEF LockTable, Advance
<1>2. /\ stage \in [Calls -> {"idle", "begun", "locked", "resolved", "checked", "placed", "done"}]
      /\ previous \in [Calls -> SUBSET Calls]
      /\ ActiveTokens(t) \in SUBSET Calls
  BY DEF IInv, FrontTypeOK, ActiveTokens, Tokens
<1>3. /\ stage'[c] = "locked" /\ previous'[c] = ActiveTokens(t)
      /\ \A d \in Calls : d # c => stage'[d] = stage[d] /\ previous'[d] = previous[d]
      /\ \A u : ActiveTokens(u)' = ActiveTokens(u)
  BY <1>1, <1>2 DEF ActiveTokens, Tokens
<1>4. FrontTypeOK'
  BY <1>1, <1>2 DEF IInv, FrontTypeOK
<1>5. StickersHaveTables'
  BY <1>1, <1>3 DEF IInv, StickersHaveTables
<1>6. StickersFormChains'
  BY <1>1 DEF IInv, StickersFormChains
<1>7. CallsKnowTheirRows'
  BY <1>1, <1>3 DEF IInv, CallsKnowTheirRows, Busy
<1>8. LockHoldersKnowTheTable'
  <2>1. \A d \in Calls : stage[d] = "locked" => call[d].table # t
    BY <1>1 DEF IInv, CallsKnowTheirRows, TableLocked
  <2>2. /\ \A k, l \in ActiveTokens(t) : k = l
        /\ \A k \in ActiveTokens(t) : /\ token[k].status # "ABSENT" /\ token[k].table = t
                                      /\ token[k].next = Null
    BY DEF IInv, StickersFormChains, ActiveTokens, Tokens
  <2> QED
    BY <1>1, <1>3, <2>1, <2>2 DEF IInv, LockHoldersKnowTheTable
<1>9. OrdersHoldTheirSticker'
  BY <1>1, <1>3 DEF IInv, OrdersHoldTheirSticker
<1> QED
  BY <1>4, <1>5, <1>6, <1>7, <1>8, <1>9 DEF IInv

LEMMA ResolveTokenKeeps ==
    ASSUME IInv, NEW c \in Calls, ResolveToken(c)
    PROVE  IInv'
<1> DEFINE k == call[c].token
           new == [call[c] EXCEPT !.table = token[k].table]
<1>1. /\ stage[c] = "begun" /\ call[c].op = "order"
      /\ UNCHANGED <<catalog, offering, table, token>>
  BY DEF ResolveToken
<1>2. /\ call \in [Calls -> [op : {"none", "issue", "rotate", "revoke", "order"},
                             table : Tables \cup {Null}, token : Calls \cup {Null},
                             product : Products \cup {Null}]]
      /\ stage \in [Calls -> {"idle", "begun", "locked", "resolved", "checked", "placed", "done"}]
      /\ k \in Calls /\ token[k].table \in Tables
      /\ table' \in [Tables -> Stores \cup {Null}]
  BY <1>1 DEF IInv, FrontTypeOK, CallsKnowTheirRows, StickersHaveTables, Busy
<1>3. CASE token[k].status = "ACTIVE"
  <2>1. /\ stage' = [stage EXCEPT ![c] = "resolved"] /\ call' = [call EXCEPT ![c] = new]
        /\ UNCHANGED previous
    BY <1>3 DEF ResolveToken, Advance
  <2>2. /\ stage'[c] = "resolved" /\ call'[c].op = "order" /\ call'[c].token = k
        /\ call'[c].table = token[k].table
        /\ \A d \in Calls : d # c => stage'[d] = stage[d] /\ call'[d] = call[d]
        /\ \A u : ActiveTokens(u)' = ActiveTokens(u)
    BY <1>1, <1>2, <2>1 DEF ActiveTokens, Tokens
  <2>3. FrontTypeOK'
    <3>1. new \in [op : {"none", "issue", "rotate", "revoke", "order"},
                   table : Tables \cup {Null}, token : Calls \cup {Null},
                   product : Products \cup {Null}]
      BY <1>2
    <3> HIDE DEF new
    <3> QED
      BY <1>1, <1>2, <2>1, <3>1 DEF IInv, FrontTypeOK
  <2>4. StickersHaveTables'
    BY <1>1, <2>2 DEF IInv, StickersHaveTables
  <2>5. StickersFormChains'
    BY <1>1 DEF IInv, StickersFormChains
  <2>6. CallsKnowTheirRows'
    BY <1>1, <1>2, <1>3, <2>2 DEF IInv, CallsKnowTheirRows, Busy
  <2>7. LockHoldersKnowTheTable'
    BY <1>1, <2>1, <2>2 DEF IInv, LockHoldersKnowTheTable
  <2>8. OrdersHoldTheirSticker'
    BY <1>1, <1>3, <2>2 DEF IInv, OrdersHoldTheirSticker
  <2> QED
    BY <2>3, <2>4, <2>5, <2>6, <2>7, <2>8 DEF IInv
<1>4. CASE token[k].status # "ACTIVE"
  <2>1. Finish(c)
    BY <1>4 DEF ResolveToken
  <2> QED
    BY <1>1, <1>2, <2>1, LeavingKeeps
<1> QED
  BY <1>3, <1>4

\* A sticker dies by its id, unless an order holds it.
LEMMA RevokeByIdKeeps ==
    ASSUME IInv, NEW c \in Calls, RevokeById(c)
    PROVE  IInv'
<1> DEFINE k == call[c].token
           dead == [token[k] EXCEPT !.status = "REVOKED"]
<1>1. /\ stage[c] = "begun" /\ call[c].op = "revoke" /\ ~TokenLocked(k)
      /\ Finish(c) /\ UNCHANGED <<catalog, offering, table>>
  BY DEF RevokeById
<1>2. /\ stage \in [Calls -> {"idle", "begun", "locked", "resolved", "checked", "placed", "done"}]
      /\ previous \in [Calls -> SUBSET Calls]
      /\ token \in [Calls -> [status : {"ABSENT", "ACTIVE", "REVOKED"},
                              table : Tables \cup {Null}, next : Calls \cup {Null}]]
      /\ table' \in [Tables -> Stores \cup {Null}] /\ table' = table
      /\ k \in Calls /\ token[k].status # "ABSENT"
  BY <1>1 DEF IInv, FrontTypeOK, CallsKnowTheirRows, Busy
<1>3. CASE token[k].status = "ACTIVE"
  <2>1. /\ token' = [token EXCEPT ![k] = dead]
        /\ stage' = [stage EXCEPT ![c] = "done"] /\ previous' = [previous EXCEPT ![c] = {}]
        /\ call' = call
    BY <1>3 DEF RevokeById, Finish, Advance
  <2>2. /\ stage'[c] = "done"
        /\ \A d \in Calls : d # c => stage'[d] = stage[d] /\ previous'[d] = previous[d]
        /\ token'[k].status = "REVOKED"
        /\ \A l \in Calls : /\ token'[l].table = token[l].table /\ token'[l].next = token[l].next
                            /\ token[l].status # "ABSENT" <=> token'[l].status # "ABSENT"
                            /\ token'[l].status = "ACTIVE" => token[l].status = "ACTIVE"
                            /\ l # k => token'[l] = token[l]
    BY <1>2, <2>1
  <2>3. FrontTypeOK'
    <3>1. dead \in [status : {"ABSENT", "ACTIVE", "REVOKED"},
                    table : Tables \cup {Null}, next : Calls \cup {Null}]
      BY <1>2
    <3> HIDE DEF dead, k
    <3> QED
      BY <1>1, <1>2, <2>1, <3>1 DEF IInv, FrontTypeOK
  <2>4. StickersHaveTables'
    <3>1. \A l \in Calls : token[l].status # "ABSENT" => stage'[l] = "done"
      BY <1>1, <2>2 DEF IInv, StickersHaveTables
    <3> QED
      BY <1>2, <2>2, <3>1 DEF IInv, StickersHaveTables
  <2>5. StickersFormChains'
    BY <2>2 DEF IInv, StickersFormChains
  <2>6. CallsKnowTheirRows'
    <3>1. \A d \in Calls : Busy(d)' => Busy(d) /\ d # c /\ call'[d] = call[d]
      BY <2>1, <2>2 DEF Busy
    <3> QED
      BY <1>2, <2>1, <2>2, <3>1 DEF IInv, CallsKnowTheirRows
  <2>7. LockHoldersKnowTheTable'
    <3>1. \A u : ActiveTokens(u)' \subseteq ActiveTokens(u)
      BY <2>2 DEF ActiveTokens, Tokens
    <3> QED
      BY <1>2, <2>1, <2>2, <3>1 DEF IInv, LockHoldersKnowTheTable
  <2>8. OrdersHoldTheirSticker'
    <3>1. \A d \in Calls : stage[d] \in {"resolved", "checked"} => call[d].token # k
      BY <1>1 DEF IInv, OrdersHoldTheirSticker, TokenLocked
    <3>2. \A d \in Calls : stage[d] \in {"resolved", "checked"} => call[d].token \in Calls
      BY DEF IInv, CallsKnowTheirRows, OrdersHoldTheirSticker, Busy
    <3> QED
      BY <2>1, <2>2, <3>1, <3>2 DEF IInv, OrdersHoldTheirSticker
  <2> QED
    BY <2>3, <2>4, <2>5, <2>6, <2>7, <2>8 DEF IInv
<1>4. CASE token[k].status # "ACTIVE"
  <2>1. UNCHANGED token
    BY <1>4 DEF RevokeById
  <2> QED
    BY <1>1, <1>2, <2>1, LeavingKeeps
<1> QED
  BY <1>3, <1>4

\* The sticker of a table is replaced: the table's lock makes what was read so still,
\* the sticker's lock keeps orders off it.
LEMMA RotateTokenKeeps ==
    ASSUME IInv, NEW c \in Calls, RotateToken(c)
    PROVE  IInv'
<1> DEFINE t == call[c].table
           Row == [status : {"ABSENT", "ACTIVE", "REVOKED"},
                   table : Tables \cup {Null}, next : Calls \cup {Null}]
<1>1. /\ stage[c] = "locked" /\ \A k \in previous[c] : ~TokenLocked(k)
      /\ token' = Rotated(c) /\ call' = call
      /\ stage' = [stage EXCEPT ![c] = "done"] /\ previous' = [previous EXCEPT ![c] = {}]
      /\ UNCHANGED <<catalog, offering, table>>
  BY DEF RotateToken, Finish, Advance
<1>2. /\ stage \in [Calls -> {"idle", "begun", "locked", "resolved", "checked", "placed", "done"}]
      /\ previous \in [Calls -> SUBSET Calls] /\ token \in [Calls -> Row]
      /\ c # Null /\ t \in Tables /\ table[t] # Null
  BY <1>1, NullIsNoId DEF IInv, FrontTypeOK, CallsKnowTheirRows, Busy
<1>3. /\ stage'[c] = "done" /\ previous'[c] = {}
      /\ \A d \in Calls : d # c => stage'[d] = stage[d] /\ previous'[d] = previous[d]
  BY <1>1, <1>2
<1>4. /\ ActiveTokens(t) \subseteq previous[c]
      /\ \A k, l \in previous[c] : k = l
      /\ \A k \in previous[c] : /\ token[k].status # "ABSENT" /\ token[k].table = t
                                /\ token[k].next = Null
      /\ \A d \in Calls \ {c} : stage[d] = "locked" => call[d].table # t
  BY <1>1 DEF IInv, LockHoldersKnowTheTable
<1>5. /\ token[c].status = "ABSENT" /\ c \notin previous[c]
      /\ \A k \in Calls : token[k].next # c
      /\ \A k \in Calls \ previous[c] : token[k].status = "ACTIVE" => token[k].table # t
  BY <1>1, <1>4, NoStickerYet DEF NoToken, ActiveTokens, Tokens
<1>6. /\ token' \in [Calls -> Row]
      /\ token'[c].status = "ACTIVE" /\ token'[c].table = t /\ token'[c].next = Null
      /\ \A k \in previous[c] : /\ token'[k].status = "REVOKED" /\ token'[k].table = t
                                /\ token'[k].next = c
      /\ \A k \in Calls \ previous[c] : k # c => token'[k] = token[k]
  <2>1. NewToken(t) \in Row
    BY <1>2 DEF NewToken
  <2>2. \A k \in Calls : [token[k] EXCEPT !.status = "REVOKED", !.next = c] \in Row
    BY <1>2
  <2>3. /\ token'[c] = NewToken(t)
        /\ \A k \in previous[c] : token'[k] = [token[k] EXCEPT !.status = "REVOKED", !.next = c]
        /\ \A k \in Calls \ previous[c] : k # c => token'[k] = token[k]
    BY <1>1, <1>2, <1>5 DEF Rotated
  <2>4. \A k \in Calls : token'[k] \in Row
    <3> HIDE DEF Row, t
    <3> QED
      BY <1>2, <2>1, <2>2, <2>3
  <2>5. token' \in [Calls -> Row]
    <3> HIDE DEF Row
    <3> QED
      BY <1>1, <2>4 DEF Rotated
  <2>6. \A k \in previous[c] : k \in Calls /\ token[k].table = t
    BY <1>2, <1>4
  <2>7. \A k \in previous[c] : /\ token'[k].status = "REVOKED" /\ token'[k].table = t
                                /\ token'[k].next = c
    <3>1. ASSUME NEW k \in previous[c]
          PROVE  /\ token'[k].status = "REVOKED" /\ token'[k].table = t
                 /\ token'[k].next = c
      <4>1. token'[k] = [token[k] EXCEPT !.status = "REVOKED", !.next = c]
        BY <2>3
      <4>2. token[k] \in Row /\ token[k].table = t
        BY <1>2, <2>6
      <4> QED
        BY <4>1, <4>2
    <3> QED
      BY <3>1
  <2>8. token'[c].status = "ACTIVE" /\ token'[c].table = t /\ token'[c].next = Null
    <3>1. token'[c] = NewToken(t)
      BY <2>3
    <3> HIDE DEF Row, t
    <3> QED
      BY <3>1 DEF NewToken
  <2> QED
    BY <2>3, <2>5, <2>7, <2>8
<1>7. FrontTypeOK'
  BY <1>1, <1>2, <1>6 DEF IInv, FrontTypeOK
<1>8. StickersHaveTables'
  BY <1>1, <1>2, <1>3, <1>4, <1>6 DEF IInv, StickersHaveTables
<1>9. StickersFormChains'
  <2> SUFFICES ASSUME NEW k \in Calls, NEW l \in Calls
               PROVE  /\ /\ token'[k].status = "ACTIVE" /\ token'[l].status = "ACTIVE"
                         /\ token'[k].table = token'[l].table
                         => k = l
                      /\ token'[k].status = "ACTIVE" => token'[k].next = Null
                      /\ token'[k].next = l => /\ token'[l].status # "ABSENT"
                                               /\ token'[l].table = token'[k].table
                                               /\ \A m \in Calls : token'[m].next = l => m = k
    BY DEF StickersFormChains
  <2>1. l # Null
    BY NullIsNoId
  <2>2. /\ token'[k].status = "ACTIVE" => k = c \/ (token'[k] = token[k] /\ token[k].table # t)
        /\ token'[l].status = "ACTIVE" => l = c \/ (token'[l] = token[l] /\ token[l].table # t)
    BY <1>5, <1>6
  <2>3. CASE k \in previous[c]
    BY <1>4, <1>5, <1>6, <2>1, <2>3
  <2>4. CASE k = c
    BY <1>5, <1>6, <2>1, <2>2, <2>4
  <2>5. CASE k \notin previous[c] /\ k # c
    <3>1. token'[k] = token[k]
      BY <1>6, <2>5
    <3>2. ASSUME token[k].next = l
          PROVE  /\ token'[l].status # "ABSENT" /\ token'[l].table = token'[k].table
                 /\ \A m \in Calls : token'[m].next = l => m = k
      BY <1>4, <1>5, <1>6, <2>1, <2>5, <3>1, <3>2 DEF IInv, StickersFormChains
    <3> QED
      BY <1>6, <2>2, <2>5, <3>1, <3>2 DEF IInv, StickersFormChains
  <2> QED
    BY <2>3, <2>4, <2>5
<1>10. CallsKnowTheirRows'
  <2>1. \A k \in Calls : token[k].status # "ABSENT" => token'[k].status # "ABSENT"
    BY <1>4, <1>6
  <2>2. \A d \in Calls : Busy(d)' => Busy(d) /\ call'[d] = call[d]
    BY <1>1, <1>3 DEF Busy
  <2> QED
    BY <1>1, <1>3, <2>1, <2>2 DEF IInv, CallsKnowTheirRows
<1>11. LockHoldersKnowTheTable'
  <2> SUFFICES ASSUME NEW d \in Calls, stage'[d] = "locked"
               PROVE  /\ \A e \in Calls : stage'[e] = "locked" /\ call'[e].table = call'[d].table
                             => e = d
                      /\ ActiveTokens(call[d].table)' \subseteq previous'[d]
                      /\ \A k, l \in previous'[d] : k = l
                      /\ \A k \in previous'[d] : /\ token'[k].status # "ABSENT"
                                                 /\ token'[k].table = call'[d].table
                                                 /\ token'[k].next = Null
    BY DEF LockHoldersKnowTheTable
  <2>1. d # c /\ stage[d] = "locked" /\ call[d].table # t
    BY <1>3, <1>4
  <2>2. ActiveTokens(call[d].table)' \subseteq ActiveTokens(call[d].table)
    BY <1>1, <1>6, <2>1 DEF ActiveTokens, Tokens
  <2>3. /\ previous[d] \subseteq Calls
        /\ \A k \in previous[d] : token[k].status # "ABSENT" /\ token[k].table = call[d].table
    BY <1>2, <2>1 DEF IInv, LockHoldersKnowTheTable
  <2>4. \A k \in previous[d] : k # c /\ k \notin previous[c]
    BY <1>4, <1>5, <2>1, <2>3
  <2>5. \A k \in previous[d] : token'[k] = token[k]
    BY <1>6, <2>3, <2>4
  <2> QED
    BY <1>1, <1>3, <2>1, <2>2, <2>5 DEF IInv, LockHoldersKnowTheTable
<1>12. OrdersHoldTheirSticker'
  <2> SUFFICES ASSUME NEW d \in Calls, stage'[d] \in {"resolved", "checked"}
               PROVE  /\ call'[d].op = "order"
                      /\ token'[call'[d].token].status = "ACTIVE"
                      /\ token'[call'[d].token].table = call'[d].table
    BY DEF OrdersHoldTheirSticker
  <2> DEFINE k == call[d].token
  <2>1. /\ stage[d] = stage'[d] /\ call[d].op = "order" /\ k \in Calls
        /\ token[k].status = "ACTIVE" /\ token[k].table = call[d].table
    BY <1>3 DEF IInv, OrdersHoldTheirSticker, CallsKnowTheirRows, Busy
  <2>2. TokenLocked(k)
    BY <2>1 DEF TokenLocked
  <2>3. k \notin previous[c] /\ k # c
    BY <1>1, <1>5, <2>1, <2>2
  <2> QED
    BY <1>1, <1>6, <2>1, <2>3
<1> QED
  BY <1>7, <1>8, <1>9, <1>10, <1>11, <1>12 DEF IInv

-----------------------------------------------------------------------------
LEMMA InitIsGood ==
    ASSUME FrontInit
    PROVE  IInv
<1>1. FrontTypeOK
  BY MaxSortIsNat DEF FrontInit, FrontTypeOK, NotOffered, NoToken, NoCall
<1>2. \A k \in Calls : token[k] = NoToken /\ stage[k] = "idle"
  BY DEF FrontInit
<1>3. StickersHaveTables
  BY <1>2 DEF StickersHaveTables, NoToken
<1>4. StickersFormChains
  BY <1>2, NullIsNoId DEF StickersFormChains, NoToken
<1> QED
  BY <1>1, <1>2, <1>3, <1>4
     DEF IInv, CallsKnowTheirRows, LockHoldersKnowTheTable, OrdersHoldTheirSticker, Busy

LEMMA StepKeeps ==
    ASSUME IInv, [FrontNext]_frontVars
    PROVE  IInv'
<1>1. CASE Menu
  BY <1>1, MenuKeeps
<1>2. ASSUME NEW c \in Calls,
             PostQrToken(c) \/ PostRotateQr(c) \/ CmdIssue(c)
             \/ CmdRotate(c) \/ CmdRevoke(c) \/ BeginOrder(c)
      PROVE  IInv'
  BY <1>2, RequestsKeep
<1>3. ASSUME NEW c \in Calls,
             PostTable(c) \/ LockTable(c) \/ IssueToken(c) \/ RotateToken(c)
             \/ RevokeById(c) \/ ResolveToken(c)
      PROVE  IInv'
  BY <1>3, PostTableKeeps, LockTableKeeps, IssueTokenKeeps, RotateTokenKeeps,
     RevokeByIdKeeps, ResolveTokenKeeps
<1>4. table \in [Tables -> Stores \cup {Null}]
  BY DEF IInv, FrontTypeOK
<1>5. ASSUME NEW c \in Calls, CheckMenu(c) \/ PlaceOrder(c)
      PROVE  IInv'
  <2>1. UNCHANGED <<catalog, offering, table, token>>
    BY <1>5 DEF CheckMenu, PlaceOrder
  <2>2. CASE Finish(c)
    <3>1. stage[c] # "done"
      BY <1>5 DEF CheckMenu, PlaceOrder
    <3> QED
      BY <1>4, <2>1, <2>2, <3>1, LeavingKeeps
  <2>3. CASE ~Finish(c)
    BY <1>5, <2>1, <2>3, OrderMovesOn DEF CheckMenu, PlaceOrder
  <2> QED
    BY <2>2, <2>3
<1>6. ASSUME NEW c \in Calls, Fail(c)
      PROVE  IInv'
  BY <1>4, <1>6, LeavingKeeps DEF Fail
<1>7. CASE UNCHANGED frontVars
  BY <1>7 DEF frontVars, IInv, FrontTypeOK, StickersHaveTables, StickersFormChains,
     CallsKnowTheirRows, LockHoldersKnowTheTable, OrdersHoldTheirSticker, Busy,
     ActiveTokens, Tokens
<1> QED
  BY <1>1, <1>2, <1>3, <1>5, <1>6, <1>7 DEF FrontNext

\* Every state the branch reaches satisfies the inductive invariant.
THEOREM FrontIsInOrder == FrontSpec => []IInv
<1>1. FrontInit => IInv
  BY InitIsGood
<1>2. IInv /\ [FrontNext]_frontVars => IInv'
  BY StepKeeps
<1> QED
  BY <1>1, <1>2, PTL DEF FrontSpec

-----------------------------------------------------------------------------
(* What the branch can rely on *)

LEMMA AtMostOne ==
    ASSUME NEW S, \A x, y \in S : x = y
    PROVE  Cardinality(S) <= 1
<1>1. CASE S = {}
  BY <1>1, FS_EmptySet
<1>2. CASE S # {}
  <2>1. PICK x \in S : S = {x}
    BY <1>2
  <2> QED
    BY <2>1, FS_Singleton
<1> QED
  BY <1>1, <1>2

LEMMA StickersAreSoundNow == IInv => StickersAreSound
<1> SUFFICES ASSUME IInv PROVE StickersAreSound
  OBVIOUS
<1>1. ASSUME NEW t \in Tables PROVE Cardinality(ActiveTokens(t)) <= 1
  <2>1. \A k, l \in ActiveTokens(t) : k = l
    BY DEF IInv, StickersFormChains, ActiveTokens, Tokens
  <2> QED
    BY <2>1, AtMostOne
<1>2. ASSUME NEW k \in Tokens, token[k].next # Null
      PROVE  /\ token[k].status = "REVOKED"
             /\ token[token[k].next].status # "ABSENT"
             /\ TableOf(token[k].next) = TableOf(k)
             /\ \A l \in Tokens \ {k} : token[l].next # token[k].next
  <2>1. k \in Calls /\ token[k].next \in Calls /\ token[k].status \in {"ACTIVE", "REVOKED"}
    BY <1>2 DEF Tokens, IInv, FrontTypeOK
  <2>2. /\ token[k].status # "ACTIVE" /\ token[token[k].next].status # "ABSENT"
        /\ token[token[k].next].table = token[k].table
        /\ \A l \in Calls : token[l].next = token[k].next => l = k
    BY <1>2, <2>1 DEF IInv, StickersFormChains
  <2> QED
    BY <2>1, <2>2 DEF Tokens, TableOf
<1> QED
  BY <1>1, <1>2 DEF IInv, StickersAreSound

LEMMA MenuQueriesAgree ==
    ASSUME NEW s \in Stores
    PROVE  /\ {r.product : r \in {m \in MenuRows(s) : m.visible}} = GuestMenu(s)
           /\ GuestMenu(s) = {p \in Products : Orderable(s, p)}
           /\ GuestMenu(s) = {p \in Published(s) :
                                 offering[s][p].available /\ catalog[p] = "active"}
<1> DEFINE RowOf(p) == [product |-> p, published |-> offering[s][p].published,
                        visible |-> OnCustomerMenu(s, p)]
           Shown    == {r.product : r \in {m \in MenuRows(s) : m.visible}}
<1>1. MenuRows(s) = {RowOf(p) : p \in {q \in Products : catalog[q] # "absent"}}
  BY DEF MenuRows
<1>2. \A p : RowOf(p).product = p /\ (RowOf(p).visible <=> OnCustomerMenu(s, p))
  OBVIOUS
<1> HIDE DEF RowOf
<1>3. ASSUME NEW p \in Shown PROVE p \in GuestMenu(s)
  <2>1. PICK r \in MenuRows(s) : r.visible /\ p = r.product
    OBVIOUS
  <2>2. PICK q \in Products : r = RowOf(q)
    BY <1>1, <2>1
  <2>3. p \in Products /\ OnCustomerMenu(s, p)
    BY <1>2, <2>1, <2>2
  <2> QED
    BY <2>3 DEF OnCustomerMenu, GuestMenu
<1>4. ASSUME NEW p \in GuestMenu(s) PROVE p \in Shown
  <2>1. p \in Products /\ catalog[p] # "absent" /\ OnCustomerMenu(s, p)
    BY DEF GuestMenu, OnCustomerMenu
  <2>2. RowOf(p) \in MenuRows(s) /\ RowOf(p).visible /\ RowOf(p).product = p
    BY <1>1, <1>2, <2>1
  <2> QED
    BY <2>2
<1>5. Shown = GuestMenu(s)
  <2> HIDE DEF Shown
  <2> QED
    BY <1>3, <1>4
<1>6. GuestMenu(s) = {p \in Products : Orderable(s, p)}
  BY DEF GuestMenu, Orderable
<1>7. GuestMenu(s) = {p \in Published(s) :
                         offering[s][p].available /\ catalog[p] = "active"}
  BY DEF GuestMenu, Published
<1> QED
  BY <1>5, <1>6, <1>7

\* The screen counts tables and products; the guests need them one by one.
LEMMA ReadyMeansEveryTable ==
    ASSUME NEW s \in Stores
    PROVE  Ready(s) <=> TablesOf(s) # {} /\ \A t \in TablesOf(s) : CanOrder(t)
<1>1. /\ IsFiniteSet(TablesOf(s)) /\ TablesWithQr(s) \subseteq TablesOf(s)
      /\ IsFiniteSet(Published(s)) /\ IsFiniteSet(GuestMenu(s))
  <2>1. /\ TablesOf(s) \subseteq Tables /\ Published(s) \subseteq Products
        /\ GuestMenu(s) \subseteq Products
    BY DEF TablesOf, Published, GuestMenu
  <2>2. TablesWithQr(s) \subseteq TablesOf(s)
    BY DEF TablesWithQr
  <2> QED
    BY <2>1, <2>2, FiniteRows, FS_Subset
<1>2. \A S : IsFiniteSet(S) => (Cardinality(S) > 0 <=> S # {})
  BY FS_EmptySet, FS_CardinalityType
<1>3. Cardinality(TablesWithQr(s)) = Cardinality(TablesOf(s)) <=> TablesWithQr(s) = TablesOf(s)
  BY <1>1, FS_Subset
<1>4. GuestMenu(s) # {} => Published(s) # {}
  BY DEF GuestMenu, Published
<1>5. Ready(s) <=> TablesOf(s) # {} /\ TablesWithQr(s) = TablesOf(s) /\ GuestMenu(s) # {}
  BY <1>1, <1>2, <1>3, <1>4, MenuQueriesAgree DEF Ready
<1>6. \A t \in TablesOf(s) : CanOrder(t) <=> t \in TablesWithQr(s) /\ GuestMenu(s) # {}
  <2> SUFFICES ASSUME NEW t \in TablesOf(s)
               PROVE  CanOrder(t) <=> t \in TablesWithQr(s) /\ GuestMenu(s) # {}
    OBVIOUS
  <2>1. table[t] = s
    BY DEF TablesOf
  <2>2. t \in TablesWithQr(s) <=> \E k \in Tokens : TableOf(k) = t /\ token[k].status = "ACTIVE"
    BY DEF TablesWithQr
  <2>3. \A p : p \in GuestMenu(s) => p \in Products /\ Orderable(s, p)
    BY MenuQueriesAgree
  <2> QED
    BY <2>1, <2>2, <2>3 DEF CanOrder
<1> QED
  BY <1>1, <1>5, <1>6

\* However stickers are issued, rotated and revoked, one at most works at a table,
\* and their lineage is a chain: the table's lock is enough, without the index.
THEOREM OneStickerPerTable == FrontSpec => []StickersAreSound
BY FrontIsInOrder, StickersAreSoundNow, PTL

\* The setup screen's verdict, from counts, is what guests meet at every table; the
\* three queries for the menu agree.
THEOREM SetupIsHonest == FrontSpec => []SetupTellsTruth
<1>1. SetupTellsTruth
  BY MenuQueriesAgree, ReadyMeansEveryTable DEF SetupTellsTruth
<1> QED
  BY <1>1, PTL

\* No order commits on a dead sticker, nor at a table other than the sticker's.
THEOREM DeadStickersStayDead == FrontSpec => OldStickerOrdersNothing
<1> DEFINE Live == \A c \in Calls : stage'[c] = "placed" /\ stage[c] # "placed" =>
               token[call[c].token].status = "ACTIVE" /\ TableOf(call[c].token) = call[c].table
<1>1. IInv /\ [FrontNext]_frontVars => Live
  <2> SUFFICES ASSUME IInv, FrontNext, NEW c \in Calls,
                      stage'[c] = "placed", stage[c] # "placed"
               PROVE  /\ token[call[c].token].status = "ACTIVE"
                      /\ TableOf(call[c].token) = call[c].table
    BY DEF frontVars
  <2>1. stage \in [Calls -> {"idle", "begun", "locked", "resolved", "checked", "placed", "done"}]
    BY DEF IInv, FrontTypeOK
  <2>2. ~Menu
    BY DEF Menu
  <2>3. \A d \in Calls, to \in {"begun", "locked", "resolved", "checked", "done"} : ~Advance(d, to)
    BY <2>1 DEF Advance
  <2>4. PICK d \in Calls : PlaceOrder(d)
    BY <2>2, <2>3 DEF FrontNext, PostTable, PostQrToken, PostRotateQr, IssueTableQr,
       RotateTableQr, CmdIssue, CmdRotate, RotateById, CmdRevoke, BeginOrder, Begin, LockTable,
       IssueToken, RotateToken, RevokeById, ResolveToken, CheckMenu, Fail, Finish
  <2>5. d = c /\ stage[c] = "checked"
    BY <2>1, <2>4 DEF PlaceOrder, Advance
  <2> QED
    BY <2>5 DEF IInv, OrdersHoldTheirSticker, TableOf
<1> QED
  BY <1>1, FrontIsInOrder, PTL DEF FrontSpec, OldStickerOrdersNothing

-----------------------------------------------------------------------------
(* The owner's panel. What a request has read is still true, or the request  *)
(* knows that somebody has closed the row since; what it has drafted is its  *)
(* alone.                                                                    *)

Patches == {"acknowledge", "complete", "dismiss"}

\* A copy or a draft of a row that has become "now" in the meantime.
CopyFits(copy, now)   == ~Suppressed(now) /\ (Closed(now) => Closed(copy))
DraftFits(change, now) == /\ change # "none" => ~Suppressed(now)
                          /\ change = "refresh" => ~Closed(now)

Holds(q) == q.stage \in Patches \cup {"write"}

FeedRequestIsSound(q, rows) ==
    /\ Holds(q) => q.at \in Decisions
    /\ q.stage = "write" => q.at \in q.todo
    /\ \A d \in q.todo : q.draft[d] = "none"
    /\ q.stage \in Patches \cup {"idle"} => q.draft = NoDraft
    /\ q.stage \in Patches => ~Closed(q.copy)
    /\ \A d \in q.overtaken : rows[d].cooling
    /\ Holds(q) => q.at \in q.overtaken \/ CopyFits(q.copy, rows[q.at])
    /\ \A d \in Decisions : d \in q.overtaken \/ DraftFits(q.draft[d], rows[d])

DraftsAreAlone ==
    \A q, r \in Requests : \A d \in Decisions :
        q # r => request[q].draft[d] = "none" \/ request[r].draft[d] = "none"

FeedInv ==
    /\ FeedTypeOK
    /\ RowsTellWhen
    /\ DraftsAreAlone
    /\ \A r \in Requests : FeedRequestIsSound(request[r], row)

LEMMA PatchesAreTransitions == DOMAIN VALID_TRANSITIONS = Patches
BY DEF VALID_TRANSITIONS, Patches

LEMMA StageFacts ==
    /\ "write" \notin Patches /\ "get" \notin Patches /\ "idle" \notin Patches
    /\ ~Holds(NoRequest)
    /\ NoRequest = [stage |-> "idle", todo |-> {}, at |-> None, copy |-> NoRow,
                    draft |-> NoDraft, broken |-> FALSE, overtaken |-> {}]
BY DEF Patches, Holds, NoRequest

LEMMA FirstSignal ==
    ASSUME NEW S, S \subseteq Decisions, S # {}
    PROVE  Min(S) \in S
<1>1. S \subseteq Nat
  BY DecisionsAreNat
<1>2. \E n \in S : \A m \in S : ~(<<m, n>> \in OpToRel(<, Nat))
  BY <1>1, NatLessThanWellFounded, WFMin
<1>3. PICK n \in S : \A m \in S : ~(m < n)
  BY <1>1, <1>2 DEF OpToRel
<1>4. \A m \in S : n <= m
  BY <1>1, <1>3
<1> QED
  BY <1>4 DEF Min

\* What writing onto a row makes of it.
LEMMA WrittenFacts ==
    ASSUME NEW d \in Rows, NEW change \in Changes
    PROVE  /\ Written(change, d) \in Rows
           /\ change = "none" => Written(change, d) = d
           /\ change # "none" => Written(change, d).cooling
           /\ change \in {"insert", "reset"} => /\ Written(change, d).status = "pending"
                                                /\ ~Written(change, d).done
           /\ change = "refresh" => /\ Written(change, d).status = d.status
                                    /\ Written(change, d).done = d.done
BY DEF Written, Rows, Changes, NewRow, Reset

LEMMA PatchedFacts ==
    ASSUME NEW d \in Rows, NEW action \in Patches
    PROVE  /\ Patched(action, d) \in Rows
           /\ Patched(action, d).cooling
           /\ action = "acknowledge" => /\ Patched(action, d).status = "acknowledged"
                                        /\ Patched(action, d).done = d.done
           /\ action # "acknowledge" => /\ Patched(action, d).status \in {"completed", "dismissed"}
                                        /\ Patched(action, d).done
BY DEF Patched, Rows, Patches

\* A row that is left alone, or whose cooldown ends, upsets nobody who has not
\* been overtaken on it.
LEMMA CoolerStillFits ==
    ASSUME NEW old \in Rows, NEW new \in Rows, new.status = old.status, new.cooling => old.cooling,
           NEW copy, NEW change
    PROVE  /\ CopyFits(copy, old) => CopyFits(copy, new)
           /\ DraftFits(change, old) => DraftFits(change, new)
BY DEF CopyFits, DraftFits, Suppressed, Closed, Rows

LEMMA OpenFits ==
    ASSUME NEW now, ~Closed(now), NEW copy, NEW change
    PROVE  CopyFits(copy, now) /\ DraftFits(change, now)
BY DEF CopyFits, DraftFits, Suppressed

LEMMA FeedInitIsGood == FeedInit => FeedInv
<1> SUFFICES ASSUME FeedInit PROVE FeedInv
  OBVIOUS
<1>1. /\ NoRow \in Rows /\ NoDraft \in [Decisions -> Changes] /\ ~Closed(NoRow)
      /\ NoRow.status = "absent" /\ ~NoRow.done
  BY DEF NoRow, Rows, NoDraft, Changes, Closed
<1>2. /\ row = [d \in Decisions |-> NoRow] /\ request = [r \in Requests |-> NoRequest]
      /\ firing \subseteq Decisions
  BY DecisionsAreNat DEF FeedInit
<1>3. FeedTypeOK
  BY <1>1, <1>2, StageFacts DEF FeedTypeOK, RequestRows
<1>4. RowsTellWhen
  BY <1>1, <1>2 DEF RowsTellWhen
<1>5. DraftsAreAlone
  BY <1>2, StageFacts DEF DraftsAreAlone, NoDraft
<1>6. FeedRequestIsSound(NoRequest, row)
  BY <1>1, <1>2, StageFacts, OpenFits DEF FeedRequestIsSound
<1> QED
  BY <1>2, <1>3, <1>4, <1>5, <1>6 DEF FeedInv

\* A request that goes on, when no row changes.
LEMMA RequestStep ==
    ASSUME FeedInv, NEW r \in Requests, NEW q,
           request' = [request EXCEPT ![r] = q], UNCHANGED <<firing, row>>,
           q \in RequestRows,
           FeedRequestIsSound(q, row),
           \A d \in Decisions : q.draft[d] = "none" \/ q.draft[d] = request[r].draft[d] \/ ~Locked(r, d)
    PROVE  FeedInv'
<1>1. FeedTypeOK'
  BY DEF FeedInv, FeedTypeOK
<1>2. RowsTellWhen'
  BY DEF FeedInv, RowsTellWhen
<1>3. /\ request'[r] = q
      /\ \A s \in Requests : s # r => request'[s] = request[s]
  BY DEF FeedInv, FeedTypeOK
<1>4. DraftsAreAlone'
  <2> SUFFICES ASSUME NEW s \in Requests, NEW t \in Requests, NEW d \in Decisions, s # t
               PROVE  request'[s].draft[d] = "none" \/ request'[t].draft[d] = "none"
    BY DEF DraftsAreAlone
  <2>1. request[s].draft[d] = "none" \/ request[t].draft[d] = "none"
    BY DEF FeedInv, DraftsAreAlone
  <2>2. ~Locked(r, d) => \A x \in Requests : x # r => request[x].draft[d] = "none"
    BY DEF Locked
  <2> QED
    BY <1>3, <2>1, <2>2
<1>5. \A s \in Requests : FeedRequestIsSound(request[s], row)'
  BY <1>3 DEF FeedInv, FeedRequestIsSound
<1> QED
  BY <1>1, <1>2, <1>4, <1>5 DEF FeedInv

LEMMA RequestTypes ==
    ASSUME FeedInv, NEW r \in Requests
    PROVE  /\ request[r] \in RequestRows
           /\ FeedRequestIsSound(request[r], row)
           /\ \A d \in Decisions : row[d] \in Rows
           /\ request \in [Requests -> RequestRows]
           /\ firing \subseteq Decisions
BY DEF FeedInv, FeedTypeOK

LEMMA NoRequestFacts ==
    /\ NoRequest \in RequestRows
    /\ \A rows : FeedRequestIsSound(NoRequest, rows)
    /\ NoRequest.overtaken = {} /\ \A d \in Decisions : NoRequest.draft[d] = "none"
<1>1. /\ NoRow \in Rows /\ NoDraft \in [Decisions -> Changes]
      /\ \A d \in Decisions : NoDraft[d] = "none"
  BY DEF NoRow, Rows, NoDraft, Changes
<1>2. \A now : DraftFits("none", now)
  BY DEF DraftFits
<1>3. \A rows : FeedRequestIsSound(NoRequest, rows)
  BY <1>1, <1>2, StageFacts DEF FeedRequestIsSound
<1> QED
  BY <1>1, <1>3, StageFacts DEF RequestRows

LEMMA StartGetKeeps ==
    ASSUME FeedInv, NEW r \in Requests, StartGet(r)
    PROVE  FeedInv'
<1> DEFINE q == [NoRequest EXCEPT !.stage = "get", !.todo = firing]
<1>1. request' = [request EXCEPT ![r] = q] /\ UNCHANGED <<firing, row>>
  BY DEF StartGet
<1>2. /\ q \in RequestRows /\ q.stage = "get" /\ q.overtaken = {} /\ q.draft = NoRequest.draft
  BY NoRequestFacts, RequestTypes DEF RequestRows
<1>3. ~Holds(q) /\ q.stage \notin Patches \cup {"idle"}
  BY <1>2, StageFacts DEF Holds, Patches
<1>4. \A d \in Decisions : q.draft[d] = "none"
  BY <1>2, NoRequestFacts
<1> HIDE DEF q
<1>5. FeedRequestIsSound(q, row)
  BY <1>2, <1>3, <1>4, RequestTypes DEF FeedRequestIsSound, DraftFits, RequestRows
<1>6. \A d \in Decisions : q.draft[d] = "none" \/ q.draft[d] = request[r].draft[d] \/ ~Locked(r, d)
  BY <1>4
<1> QED
  BY <1>1, <1>2, <1>5, <1>6, RequestStep

LEMMA StartPatchKeeps ==
    ASSUME FeedInv, NEW r \in Requests, StartPatch(r)
    PROVE  FeedInv'
<1>1. PICK d \in Decisions, action \in DOMAIN VALID_TRANSITIONS :
         /\ row[d].status \in VALID_TRANSITIONS[action]
         /\ request' = [request EXCEPT ![r] = [NoRequest EXCEPT !.stage = action, !.at = d,
                                                                !.copy = row[d]]]
  BY DEF StartPatch
<1> DEFINE q == [NoRequest EXCEPT !.stage = action, !.at = d, !.copy = row[d]]
<1>2. action \in Patches
  BY PatchesAreTransitions
<1>3. ~Closed(row[d])
  <2>1. row[d].status \in {"pending", "acknowledged"}
    BY <1>1, <1>2 DEF VALID_TRANSITIONS, Patches
  <2> QED
    BY <2>1 DEF Closed
<1>4. /\ q \in RequestRows /\ q.stage = action /\ q.at = d /\ q.copy = row[d]
      /\ q.overtaken = {} /\ q.todo = {} /\ q.draft = NoRequest.draft
  BY NoRequestFacts, StageFacts, RequestTypes DEF RequestRows
<1>5. q.draft = NoDraft /\ \A x \in Decisions : q.draft[x] = "none"
  BY <1>4, NoRequestFacts, StageFacts
<1>6. request' = [request EXCEPT ![r] = q] /\ UNCHANGED <<firing, row>>
  BY <1>1 DEF StartPatch
<1> HIDE DEF q
<1>7. CopyFits(q.copy, row[d])
  BY <1>3, OpenFits
<1>8. \A x \in Decisions : DraftFits(q.draft[x], row[x])
  BY <1>5 DEF DraftFits
<1>9. q.stage # "write" /\ q.at \in Decisions /\ ~Closed(q.copy)
  BY <1>2, <1>3, <1>4, StageFacts
<1>10. FeedRequestIsSound(q, row)
  BY <1>4, <1>5, <1>7, <1>8, <1>9 DEF FeedRequestIsSound
<1>11. \A x \in Decisions : q.draft[x] = "none" \/ q.draft[x] = request[r].draft[x] \/ ~Locked(r, x)
  BY <1>5
<1>12. q \in RequestRows
  BY <1>4
<1> QED
  BY <1>6, <1>10, <1>11, <1>12, RequestStep

LEMMA ReadRowKeeps ==
    ASSUME FeedInv, NEW r \in Requests, ReadRow(r)
    PROVE  FeedInv'
<1> DEFINE d == Next1(r)
           old == request[r]
           skip == [old EXCEPT !.todo = @ \ {d}]
           read == [old EXCEPT !.stage = "write", !.at = d, !.copy = row[d]]
<1>1. old \in RequestRows /\ FeedRequestIsSound(old, row) /\ old.stage = "get" /\ old.todo # {}
  BY RequestTypes DEF ReadRow
<1>2. d \in Decisions /\ row[d] \in Rows /\ d \in old.todo
  <2>1. d \in old.todo /\ old.todo \subseteq Decisions
    BY <1>1, FirstSignal DEF RequestRows, Next1
  <2> QED
    BY <2>1, RequestTypes
<1>3. ~Holds(old)
  BY <1>1, StageFacts DEF Holds
<1>4. CASE request' = [request EXCEPT ![r] = skip]
  <2>1. /\ skip \in RequestRows /\ skip.stage = old.stage /\ skip.overtaken = old.overtaken
        /\ skip.draft = old.draft /\ skip.todo \subseteq old.todo
    BY <1>1 DEF RequestRows
  <2>2. ~Holds(skip)
    BY <1>1, <2>1, StageFacts DEF Holds
  <2> HIDE DEF skip
  <2>3. FeedRequestIsSound(skip, row)
    BY <1>1, <2>1, <2>2, StageFacts DEF FeedRequestIsSound
  <2> QED
    BY <1>4, <2>1, <2>3, RequestStep DEF ReadRow
<1>5. CASE request' = [request EXCEPT ![r] = read] /\ ~Suppressed(row[d])
  <2>1. /\ read \in RequestRows /\ read.stage = "write" /\ read.at = d /\ read.copy = row[d]
        /\ read.overtaken = old.overtaken /\ read.draft = old.draft /\ read.todo = old.todo
    BY <1>1, <1>2 DEF RequestRows
  <2>2. CopyFits(row[d], row[d])
    BY <1>5 DEF CopyFits
  <2> HIDE DEF read
  <2>3. FeedRequestIsSound(read, row)
    <3> HIDE DEF d
    <3>1. /\ \A x \in old.overtaken : row[x].cooling
          /\ \A x \in old.todo : old.draft[x] = "none"
          /\ \A x \in Decisions : x \in old.overtaken \/ DraftFits(old.draft[x], row[x])
      BY <1>1 DEF FeedRequestIsSound
    <3> QED
      BY <1>2, <2>1, <2>2, <3>1, StageFacts DEF FeedRequestIsSound
  <2> QED
    BY <1>5, <2>1, <2>3, RequestStep DEF ReadRow
<1>6. request' = IF old.broken \/ Suppressed(row[d])
                 THEN [request EXCEPT ![r] = skip] ELSE [request EXCEPT ![r] = read]
  BY RequestTypes DEF ReadRow, RequestRows
<1> QED
  BY <1>4, <1>5, <1>6

LEMMA WriteRowKeeps ==
    ASSUME FeedInv, NEW r \in Requests, WriteRow(r)
    PROVE  FeedInv'
<1> DEFINE old == request[r]
           d == old.at
           next == [old EXCEPT !.stage = "get", !.todo = @ \ {d}, !.at = None, !.copy = NoRow]
           kept == [next EXCEPT !.overtaken = @ \ {d}]
           lost == [next EXCEPT !.draft = NoDraft, !.broken = TRUE]
           Made(change) == [next EXCEPT !.draft[d] = change]
<1>1. old \in RequestRows /\ FeedRequestIsSound(old, row) /\ old.stage = "write"
  BY RequestTypes DEF WriteRow
<1>2. /\ d \in Decisions /\ d \in old.todo /\ row[d] \in Rows /\ old.draft[d] = "none"
      /\ \A x \in old.overtaken : row[x].cooling
      /\ \A x \in old.todo : old.draft[x] = "none"
      /\ \A x \in Decisions : x \in old.overtaken \/ DraftFits(old.draft[x], row[x])
      /\ d \in old.overtaken \/ CopyFits(old.copy, row[d])
  BY <1>1, RequestTypes DEF FeedRequestIsSound, Holds
<1>3. /\ next \in RequestRows /\ next.stage = "get" /\ next.todo = old.todo \ {d}
      /\ next.draft = old.draft /\ next.overtaken = old.overtaken
  <2>1. NoRow \in Rows
    BY DEF NoRow, Rows
  <2> QED
    BY <1>1, <2>1 DEF RequestRows
<1> HIDE DEF next, d
<1>4. ASSUME NEW q, q.stage = "get" PROVE ~Holds(q) /\ q.stage \notin Patches \cup {"idle", "write"}
  BY <1>4, StageFacts DEF Holds, Patches
<1>5. ASSUME NEW q \in RequestRows, request' = [request EXCEPT ![r] = q], q.stage = "get",
             q.todo = old.todo \ {d}, q.overtaken \subseteq old.overtaken,
             \A x \in Decisions \ {d} : x \in old.overtaken => x \in q.overtaken,
             \/ q.draft = NoDraft
             \/ /\ \A x \in Decisions \ {d} : q.draft[x] = old.draft[x]
                /\ q.draft[d] = "none" \/ ~Locked(r, d)
                /\ d \in q.overtaken \/ DraftFits(q.draft[d], row[d])
      PROVE  FeedInv'
  <2>1. \A x \in Decisions : NoDraft[x] = "none" /\ DraftFits("none", row[x])
    BY DEF NoDraft, DraftFits
  <2>2. \A x \in q.todo : q.draft[x] = "none"
    BY <1>1, <1>2, <1>5, <2>1 DEF RequestRows
  <2>3. \A x \in Decisions : x \in q.overtaken \/ DraftFits(q.draft[x], row[x])
    BY <1>2, <1>5, <2>1
  <2>4. FeedRequestIsSound(q, row)
    BY <1>2, <1>4, <1>5, <2>2, <2>3 DEF FeedRequestIsSound
  <2>5. \A x \in Decisions : q.draft[x] = "none" \/ q.draft[x] = request[r].draft[x] \/ ~Locked(r, x)
    BY <1>5, <2>1
  <2>6. UNCHANGED <<firing, row>>
    BY DEF WriteRow
  <2> QED
    BY <1>5, <2>4, <2>5, <2>6, RequestStep
<1>6. ASSUME NEW change \in Changes, DraftFits(change, row[d]) \/ d \in old.overtaken, ~Locked(r, d),
             request' = [request EXCEPT ![r] = Made(change)]
      PROVE  FeedInv'
  <2>1. /\ Made(change) \in RequestRows /\ Made(change).stage = "get"
        /\ Made(change).todo = old.todo \ {d} /\ Made(change).overtaken = old.overtaken
        /\ Made(change).draft = [old.draft EXCEPT ![d] = change]
    BY <1>2, <1>3 DEF RequestRows
  <2>2. /\ \A x \in Decisions \ {d} : Made(change).draft[x] = old.draft[x]
        /\ Made(change).draft[d] = change
    BY <1>1, <1>2, <2>1 DEF RequestRows
  <2> HIDE DEF Made
  <2> QED
    BY <1>5, <1>6, <2>1, <2>2
<1>7. CASE /\ ~Locked(r, d) /\ old.copy # NoRow
           /\ request' = [request EXCEPT ![r] = Made(Upserted(old.copy))]
  <2>1. Upserted(old.copy) \in Changes
    BY DEF Upserted, Changes
  <2>2. CopyFits(old.copy, row[d]) => DraftFits(Upserted(old.copy), row[d])
    BY DEF CopyFits, DraftFits, Upserted
  <2> QED
    BY <1>2, <1>6, <1>7, <2>1, <2>2
<1>8. CASE /\ ~Locked(r, d) /\ row[d] = NoRow
           /\ request' = [request EXCEPT ![r] = Made("insert")]
  <2>1. ~Closed(NoRow) /\ "insert" \in Changes
    BY DEF Closed, NoRow, Changes
  <2> QED
    BY <1>6, <1>8, <2>1, OpenFits
<1>9. CASE request' = [request EXCEPT ![r] = lost]
  <2>1. /\ lost \in RequestRows /\ lost.stage = "get" /\ lost.todo = old.todo \ {d}
        /\ lost.overtaken = old.overtaken /\ lost.draft = NoDraft
    <3>1. NoDraft \in [Decisions -> Changes]
      BY DEF NoDraft, Changes
    <3> QED
      BY <1>3, <3>1 DEF RequestRows
  <2> HIDE DEF lost
  <2> QED
    BY <1>5, <1>9, <2>1
<1>10. CASE Active(old.copy) /\ request' = [request EXCEPT ![r] = kept]
  <2>1. /\ kept \in RequestRows /\ kept.stage = "get" /\ kept.todo = old.todo \ {d}
        /\ kept.overtaken = old.overtaken \ {d} /\ kept.draft = old.draft
    BY <1>3 DEF RequestRows
  <2>2. DraftFits("none", row[d])
    BY DEF DraftFits
  <2> HIDE DEF kept
  <2> QED
    BY <1>2, <1>5, <1>10, <2>1, <2>2
<1>11. \/ /\ ~Locked(r, d)
          /\ request' = [request EXCEPT ![r] =
                CASE old.copy # NoRow -> Made(Upserted(old.copy))
                  [] old.copy = NoRow /\ row[d] = NoRow -> Made("insert")
                  [] OTHER -> lost]
       \/ Active(old.copy) /\ request' = [request EXCEPT ![r] = kept]
  BY DEF WriteRow, next, d
<1> HIDE DEF Made, lost, kept
<1> QED
  BY <1>7, <1>8, <1>9, <1>10, <1>11

\* A request ends and its rows are seen by the others, who note what was closed.
LEMMA EndKeeps ==
    ASSUME FeedInv, NEW r \in Requests, NEW closed \in SUBSET Decisions, request' = Ended(r, closed),
           row' \in [Decisions -> Rows], firing' = firing, RowsTellWhen',
           \A d \in closed : row'[d].cooling,
           \A d \in Decisions : row[d].cooling => row'[d].cooling,
           \A q \in Requests \ {r} : \A d \in Decisions :
              request[q].draft[d] # "none" => row'[d] = row[d],
           \A q \in Requests \ {r} :
              LET at == request[q].at IN
              Holds(request[q]) /\ at \notin request[q].overtaken \cup closed =>
                  CopyFits(request[q].copy, row'[at])
    PROVE  FeedInv'
<1>1. ASSUME NEW q \in Requests
      PROVE  /\ request'[q] \in RequestRows
             /\ \/ request'[q] = NoRequest
                \/ /\ q # r
                   /\ request'[q].draft = request[q].draft /\ request'[q].at = request[q].at
                   /\ request'[q].stage = request[q].stage /\ request'[q].copy = request[q].copy
                   /\ request'[q].todo = request[q].todo
                   /\ request'[q].overtaken = request[q].overtaken \cup (closed \cap {request[q].at})
  <2>1. request[q] \in RequestRows
    BY RequestTypes
  <2>2. CASE q = r \/ request[q].stage = "idle"
    <3>1. request'[q] = NoRequest
      BY <2>2 DEF Ended
    <3> QED
      BY <3>1, NoRequestFacts
  <2>3. CASE q # r /\ request[q].stage # "idle"
    <3>1. request'[q] = [request[q] EXCEPT !.overtaken = @ \cup (closed \cap {request[q].at})]
      BY <2>3 DEF Ended
    <3> QED
      BY <2>1, <2>3, <3>1 DEF RequestRows
  <2> QED
    BY <2>2, <2>3
<1>2. FeedTypeOK'
  <2>1. request' \in [Requests -> RequestRows]
    <3>1. request' = [q \in Requests |-> request'[q]]
      BY DEF Ended
    <3> QED
      BY <1>1, <3>1
  <2> QED
    BY <2>1 DEF FeedInv, FeedTypeOK
<1>3. DraftsAreAlone'
  <2> SUFFICES ASSUME NEW s \in Requests, NEW t \in Requests, NEW d \in Decisions, s # t
               PROVE  request'[s].draft[d] = "none" \/ request'[t].draft[d] = "none"
    BY DEF DraftsAreAlone
  <2>1. request[s].draft[d] = "none" \/ request[t].draft[d] = "none"
    BY DEF FeedInv, DraftsAreAlone
  <2> QED
    BY <1>1, <2>1, NoRequestFacts
<1>4. ASSUME NEW q \in Requests PROVE FeedRequestIsSound(request[q], row)'
  <2> DEFINE old == request[q]
             new == request'[q]
  <2>1. CASE new = NoRequest
    BY <2>1, NoRequestFacts DEF FeedRequestIsSound
  <2>2. CASE new # NoRequest
    <3>1. /\ q # r /\ new.draft = old.draft /\ new.at = old.at /\ new.stage = old.stage
          /\ new.copy = old.copy /\ new.todo = old.todo
          /\ new.overtaken = old.overtaken \cup (closed \cap {old.at})
      BY <1>1, <2>2
    <3>2. old \in RequestRows /\ FeedRequestIsSound(old, row)
      BY RequestTypes
    <3>3. Holds(new) <=> Holds(old)
      BY <3>1 DEF Holds
    <3>4. \A d \in new.overtaken : row'[d].cooling
      <4>1. \A d \in old.overtaken : d \in Decisions /\ row[d].cooling
        BY <3>2 DEF RequestRows, FeedRequestIsSound
      <4> QED
        BY <3>1, <4>1
    <3>5. Holds(old) => new.at \in new.overtaken \/ CopyFits(new.copy, row'[new.at])
      BY <3>1
    <3>6. ASSUME NEW d \in Decisions PROVE d \in new.overtaken \/ DraftFits(new.draft[d], row'[d])
      <4>1. d \in old.overtaken \/ DraftFits(old.draft[d], row[d])
        BY <3>2 DEF FeedRequestIsSound
      <4>2. CASE old.draft[d] = "none"
        BY <3>1, <4>2 DEF DraftFits
      <4>3. CASE old.draft[d] # "none"
        BY <3>1, <4>1, <4>3
      <4> QED
        BY <4>2, <4>3
    <3> HIDE DEF old, new
    <3>7. FeedRequestIsSound(new, row')
      BY <3>1, <3>2, <3>3, <3>4, <3>5, <3>6 DEF FeedRequestIsSound
    <3> QED
      BY <3>7 DEF FeedRequestIsSound, new
  <2> QED
    BY <2>1, <2>2
<1> QED
  BY <1>2, <1>3, <1>4 DEF FeedInv

LEMMA CommitGetKeeps ==
    ASSUME FeedInv, NEW r \in Requests, CommitGet(r)
    PROVE  FeedInv'
<1> DEFINE draft == request[r].draft
<1>1. /\ request' = Ended(r, {}) /\ firing' = firing
      /\ row' = [d \in Decisions |-> Written(draft[d], row[d])]
  BY DEF CommitGet
<1>2. draft \in [Decisions -> Changes] /\ FeedRequestIsSound(request[r], row)
  BY RequestTypes DEF RequestRows
<1>3. ASSUME NEW d \in Decisions
      PROVE  /\ row[d] \in Rows /\ draft[d] \in Changes
             /\ row'[d] = Written(draft[d], row[d]) /\ row'[d] \in Rows
             /\ draft[d] = "none" => row'[d] = row[d]
             /\ draft[d] # "none" => row'[d].cooling
             /\ draft[d] \in {"insert", "reset"} => row'[d].status = "pending" /\ ~row'[d].done
             /\ draft[d] = "refresh" => row'[d].status = row[d].status /\ row'[d].done = row[d].done
  BY <1>1, <1>2, RequestTypes, WrittenFacts
<1>4. row' \in [Decisions -> Rows]
  BY <1>1, <1>3
<1>5. RowsTellWhen'
  <2> SUFFICES ASSUME NEW d \in Decisions
               PROVE  /\ Closed(row'[d]) => row'[d].done
                      /\ row'[d].status = "pending" => ~row'[d].done
    BY DEF RowsTellWhen, Closed
  <2>1. /\ Closed(row[d]) => row[d].done
        /\ row[d].status = "pending" => ~row[d].done
    BY DEF FeedInv, RowsTellWhen
  <2> QED
    BY <1>3, <2>1 DEF Closed, Changes
<1>6. \A d \in Decisions : row[d].cooling => row'[d].cooling
  BY <1>3
<1>7. ASSUME NEW q \in Requests \ {r}, NEW d \in Decisions, request[q].draft[d] # "none"
      PROVE  row'[d] = row[d]
  <2>1. draft[d] = "none"
    BY <1>7 DEF FeedInv, DraftsAreAlone
  <2> QED
    BY <1>3, <2>1
<1>8. ASSUME NEW q \in Requests \ {r}, Holds(request[q]),
             request[q].at \notin request[q].overtaken
      PROVE  CopyFits(request[q].copy, row'[request[q].at])
  <2> DEFINE at == request[q].at
             copy == request[q].copy
  <2>1. at \in Decisions /\ CopyFits(copy, row[at])
    BY <1>8, RequestTypes DEF FeedRequestIsSound
  <2> SUFFICES CopyFits(copy, row'[at])
    OBVIOUS
  <2> HIDE DEF at, copy
  <2>2. CASE draft[at] = "none"
    BY <1>3, <2>1, <2>2
  <2>3. CASE draft[at] \in {"insert", "reset"}
    <3>1. ~Closed(row'[at])
      BY <1>3, <2>1, <2>3 DEF Closed
    <3> QED
      BY <3>1, OpenFits
  <2>4. CASE draft[at] = "refresh"
    <3>1. Closed(row[at]) => row[at].cooling
      BY <1>2, <2>1, <2>4 DEF FeedRequestIsSound, DraftFits
    <3>2. ~Closed(row[at])
      BY <2>1, <3>1 DEF CopyFits, Suppressed
    <3>3. ~Closed(row'[at])
      BY <1>3, <2>1, <2>4, <3>2 DEF Closed
    <3> QED
      BY <3>3, OpenFits
  <2>5. draft[at] \in {"none", "insert", "reset", "refresh"}
    BY <1>3, <2>1 DEF Changes
  <2> QED
    BY <2>2, <2>3, <2>4, <2>5
<1> HIDE DEF draft
<1> QED
  BY <1>1, <1>4, <1>5, <1>6, <1>7, <1>8, EndKeeps

LEMMA PatchKeeps ==
    ASSUME FeedInv, NEW r \in Requests, ApplyDecisionAction(r)
    PROVE  FeedInv'
<1> DEFINE d == request[r].at
           action == request[r].stage
           closed == IF action = "acknowledge" THEN {} ELSE {d}
<1>1. action \in Patches /\ d \in Decisions /\ row[d] \in Rows
  BY RequestTypes, PatchesAreTransitions DEF ApplyDecisionAction, FeedRequestIsSound, Holds
<1>2. /\ request' = Ended(r, closed) /\ firing' = firing
      /\ row' = [row EXCEPT ![d] = Patched(action, @)]
      /\ \A q \in Requests \ {r} : request[q].draft[d] = "none"
  BY DEF ApplyDecisionAction, Locked
<1> HIDE DEF d, action, closed
<1>3. /\ row'[d] = Patched(action, row[d]) /\ row'[d] \in Rows /\ row'[d].cooling
      /\ \A x \in Decisions : x # d => row'[x] = row[x]
      /\ row' \in [Decisions -> Rows]
  BY <1>1, <1>2, PatchedFacts DEF FeedInv, FeedTypeOK
<1>4. /\ action = "acknowledge" => row'[d].status = "acknowledged" /\ row'[d].done = row[d].done
      /\ action # "acknowledge" => row'[d].status \in {"completed", "dismissed"} /\ row'[d].done
  BY <1>1, <1>3, PatchedFacts
<1>5. RowsTellWhen'
  BY <1>3, <1>4 DEF FeedInv, RowsTellWhen, Closed
<1>6. /\ closed \in SUBSET Decisions /\ \A x \in closed : row'[x].cooling
      /\ \A x \in Decisions : row[x].cooling => row'[x].cooling
  BY <1>1, <1>3 DEF closed
<1>7. \A q \in Requests \ {r} : \A x \in Decisions : request[q].draft[x] # "none" => row'[x] = row[x]
  BY <1>2, <1>3
<1>8. ASSUME NEW q \in Requests \ {r}, Holds(request[q]),
             request[q].at \notin request[q].overtaken \cup closed
      PROVE  CopyFits(request[q].copy, row'[request[q].at])
  <2>1. request[q].at \in Decisions /\ CopyFits(request[q].copy, row[request[q].at])
    BY <1>8, RequestTypes DEF FeedRequestIsSound
  <2>2. CASE request[q].at = d
    <3>1. action = "acknowledge"
      BY <1>8, <2>2 DEF closed
    <3>2. ~Closed(row'[d])
      BY <1>4, <3>1 DEF Closed
    <3> QED
      BY <2>2, <3>2, OpenFits
  <2>3. CASE request[q].at # d
    BY <1>3, <2>1, <2>3
  <2> QED
    BY <2>2, <2>3
<1> QED
  BY <1>2, <1>3, <1>5, <1>6, <1>7, <1>8, EndKeeps

LEMMA CooldownEndsKeeps ==
    ASSUME FeedInv, NEW d \in Decisions, CooldownEnds(d)
    PROVE  FeedInv'
<1>1. /\ UNCHANGED <<firing, request>> /\ row' = [row EXCEPT ![d] = [row[d] EXCEPT !.cooling = FALSE]]
      /\ \A r \in Requests : d \notin request[r].overtaken
  BY DEF CooldownEnds
<1>2. /\ row \in [Decisions -> Rows]
      /\ row'[d] = [row[d] EXCEPT !.cooling = FALSE]
      /\ \A x \in Decisions : x # d => row'[x] = row[x]
  BY <1>1 DEF FeedInv, FeedTypeOK
<1>3. \A x \in Decisions : /\ row'[x] \in Rows /\ row[x] \in Rows
                           /\ row'[x].status = row[x].status /\ row'[x].done = row[x].done
                           /\ row'[x].cooling => row[x].cooling
  <2> SUFFICES ASSUME NEW x \in Decisions
               PROVE  /\ row'[x] \in Rows /\ row[x] \in Rows
                      /\ row'[x].status = row[x].status /\ row'[x].done = row[x].done
                      /\ row'[x].cooling => row[x].cooling
    OBVIOUS
  <2>1. row[x] \in Rows
    BY <1>2
  <2>2. CASE x = d
    <3>1. row'[x] = [row[x] EXCEPT !.cooling = FALSE]
      BY <1>2, <2>2
    <3>2. /\ row'[x] = [status |-> row[x].status, done |-> row[x].done, cooling |-> FALSE]
          /\ row[x].status \in {"absent", "pending", "acknowledged", "completed", "dismissed"}
          /\ row[x].done \in BOOLEAN
      BY <2>1, <3>1 DEF Rows
    <3> QED
      BY <2>1, <3>2 DEF Rows
  <2>3. CASE x # d
    BY <1>2, <2>1, <2>3
  <2> QED
    BY <2>2, <2>3
<1>4. FeedTypeOK'
  BY <1>1, <1>2, <1>3 DEF FeedInv, FeedTypeOK
<1>5. RowsTellWhen'
  BY <1>3 DEF FeedInv, RowsTellWhen, Closed
<1>6. DraftsAreAlone'
  BY <1>1 DEF FeedInv, DraftsAreAlone
<1>7. ASSUME NEW r \in Requests PROVE FeedRequestIsSound(request[r], row)'
  <2>1. FeedRequestIsSound(request[r], row) /\ request[r] \in RequestRows
    BY RequestTypes
  <2>2. \A x \in request[r].overtaken : row'[x].cooling
    <3>1. ASSUME NEW x \in request[r].overtaken PROVE row'[x].cooling
      <4>1. x \in Decisions /\ x # d /\ row[x].cooling
        BY <1>1, <2>1 DEF RequestRows, FeedRequestIsSound
      <4> QED
        BY <1>2, <4>1
    <3> QED
      BY <3>1
  <2>3. \A x \in Decisions : DraftFits(request[r].draft[x], row[x]) => DraftFits(request[r].draft[x], row'[x])
    BY <1>3, CoolerStillFits
  <2>4. Holds(request[r]) => \/ request[r].at \in request[r].overtaken
                             \/ CopyFits(request[r].copy, row'[request[r].at])
    <3> SUFFICES ASSUME Holds(request[r]), request[r].at \notin request[r].overtaken
                 PROVE  CopyFits(request[r].copy, row'[request[r].at])
      OBVIOUS
    <3>1. request[r].at \in Decisions /\ CopyFits(request[r].copy, row[request[r].at])
      BY <2>1 DEF FeedRequestIsSound
    <3> DEFINE x == request[r].at
    <3>2. /\ row[x] \in Rows /\ row'[x] \in Rows
          /\ row'[x].status = row[x].status
          /\ row'[x].cooling => row[x].cooling
      BY <1>3, <3>1
    <3> HIDE DEF x
    <3>3. CopyFits(request[r].copy, row[x]) => CopyFits(request[r].copy, row'[x])
      BY <3>2, CoolerStillFits
    <3> QED
      BY <3>1, <3>3 DEF x
  <2>5. FeedRequestIsSound(request[r], row')
    BY <2>1, <2>2, <2>3, <2>4 DEF FeedRequestIsSound
  <2> QED
    BY <1>1, <2>5 DEF FeedRequestIsSound
<1> QED
  BY <1>4, <1>5, <1>6, <1>7 DEF FeedInv

LEMMA FeedNextKeeps ==
    ASSUME FeedInv, [FeedNext]_feedVars
    PROVE  FeedInv'
<1>1. CASE UNCHANGED feedVars
  BY <1>1 DEF FeedInv, FeedTypeOK, RowsTellWhen, DraftsAreAlone, FeedRequestIsSound, feedVars
<1>2. CASE SignalTurns
  <2>1. firing' \subseteq Decisions /\ UNCHANGED <<row, request>>
    BY <1>2 DEF SignalTurns, FeedInv, FeedTypeOK
  <2> QED
    BY <2>1 DEF FeedInv, FeedTypeOK, RowsTellWhen, DraftsAreAlone, FeedRequestIsSound
<1>3. CASE \E d \in Decisions : CooldownEnds(d)
  BY <1>3, CooldownEndsKeeps
<1>4. CASE \E r \in Requests : StartGet(r) \/ StartPatch(r) \/ Step(r)
  BY <1>4, StartGetKeeps, StartPatchKeeps, ReadRowKeeps, WriteRowKeeps, CommitGetKeeps,
     PatchKeeps DEF Step
<1> QED
  BY <1>1, <1>2, <1>3, <1>4 DEF FeedNext

\* However GETs and PATCHes overlap, whatever a request is about to write fits the
\* row as it is by then, or the request is one that has been overtaken on that row
\* (get_owner_decisions, apply_decision_action).
THEOREM PanelIsInOrder == FeedSpec => []FeedInv
BY FeedInitIsGood, FeedNextKeeps, PTL DEF FeedSpec

\* A closed decision always has the time at which it was closed and a pending one
\* none, for any number of decisions and requests.
THEOREM ClosedRowsTellWhen == FeedSpec => []RowsTellWhen
<1>1. FeedInv => RowsTellWhen
  BY DEF FeedInv
<1> QED
  BY <1>1, PanelIsInOrder, PTL

\* During the cooldown a closed decision comes back only by the hand of a request
\* that had read the row before it was closed and has now ended.
THEOREM ClosedStaysOffThePanel == FeedSpec => ClosedStaysClosed
<1>1. ASSUME FeedInv, [FeedNext]_feedVars
      PROVE  [\A d \in Decisions : Reopened(d) =>
                \E r \in Requests : /\ d \in request[r].overtaken
                                    /\ request'[r].stage = "idle"]_feedVars
  <2> SUFFICES ASSUME FeedNext, NEW d \in Decisions, Reopened(d)
               PROVE  \E r \in Requests : /\ d \in request[r].overtaken
                                          /\ request'[r].stage = "idle"
    BY <1>1
  <2>1. /\ Closed(row[d]) /\ row[d].cooling /\ ~Closed(row'[d]) /\ Suppressed(row[d])
        /\ row[d] \in Rows /\ row'[d] # row[d]
    BY <1>1 DEF Reopened, Suppressed, FeedInv, FeedTypeOK
  <2>2. ASSUME NEW r \in Requests, NEW closed, request' = Ended(r, closed)
        PROVE  request'[r].stage = "idle"
    BY <2>2, StageFacts DEF Ended
  <2>3. ASSUME NEW r \in Requests, CommitGet(r)
        PROVE  d \in request[r].overtaken /\ request'[r].stage = "idle"
    <3> DEFINE change == request[r].draft[d]
    <3>1. change \in Changes /\ row'[d] = Written(change, row[d])
      BY <1>1, <2>3, RequestTypes DEF CommitGet, RequestRows
    <3>2. change # "none" /\ change # "refresh"
      BY <2>1, <3>1, WrittenFacts DEF Closed
    <3>3. d \in request[r].overtaken \/ DraftFits(change, row[d])
      BY <1>1, RequestTypes DEF FeedRequestIsSound
    <3>4. d \in request[r].overtaken
      BY <2>1, <3>2, <3>3 DEF DraftFits
    <3> QED
      BY <2>2, <2>3, <3>4 DEF CommitGet
  <2>4. ASSUME NEW r \in Requests, ApplyDecisionAction(r)
        PROVE  d \in request[r].overtaken /\ request'[r].stage = "idle"
    <3>1. /\ request[r].stage \in Patches
          /\ row' = [row EXCEPT ![request[r].at] = Patched(request[r].stage, @)]
      BY <2>4, PatchesAreTransitions DEF ApplyDecisionAction
    <3>2. request[r].at = d
      BY <1>1, <2>1, <3>1 DEF FeedInv, FeedTypeOK
    <3>3. d \in request[r].overtaken \/ CopyFits(request[r].copy, row[d])
      BY <1>1, <3>1, <3>2, RequestTypes DEF FeedRequestIsSound, Holds
    <3>4. d \in request[r].overtaken
      BY <2>1, <3>3 DEF CopyFits
    <3> QED
      BY <2>2, <2>4, <3>4 DEF ApplyDecisionAction
  <2>5. ASSUME NEW x \in Decisions, CooldownEnds(x) PROVE FALSE
    <3>1. row' = [row EXCEPT ![x] = [row[x] EXCEPT !.cooling = FALSE]] /\ row \in [Decisions -> Rows]
      BY <1>1, <2>5 DEF CooldownEnds, FeedInv, FeedTypeOK
    <3>2. row'[d].status = row[d].status
      BY <3>1 DEF Rows
    <3> QED
      BY <2>1, <3>2 DEF Closed
  <2>6. ~UNCHANGED row
    BY <2>1
  <2> QED
    BY <2>3, <2>4, <2>5, <2>6 DEF FeedNext, SignalTurns, StartGet, StartPatch, Step, ReadRow, WriteRow
<1> QED
  BY <1>1, PanelIsInOrder, PTL DEF ClosedStaysClosed, FeedSpec

-----------------------------------------------------------------------------
(* The figures of the panel, for any day and any stock. Rounding is the      *)
(* only division, and where a rounded figure lies is a linear question.      *)

LEMMA RoundedBound ==
    ASSUME NEW a \in Int, NEW b \in Nat \ {0}, NEW n \in Int
    PROVE  Rounded(a, b) \in Int /\ (Rounded(a, b) >= n <=> 2 * a + b >= n * (2 * b))
<1> DEFINE x == 2 * a + b
           d == 2 * b
<1>1. x \in Int /\ d \in Nat \ {0}
  OBVIOUS
<1> HIDE DEF x, d
<1>2. x \div d \in Int /\ (x \div d >= n <=> x >= n * d)
  BY <1>1
<1> QED
  BY <1>2 DEF Rounded, x, d

LEMMA ScoreFacts ==
    ASSUME NEW u \in Int, NEW blocking \in BOOLEAN
    PROVE  /\ DecisionScore("high", u, blocking) = 1000 + u + IF blocking THEN 250 ELSE 0
           /\ DecisionScore("medium", u, blocking) = 500 + u + IF blocking THEN 250 ELSE 0
           /\ DecisionScore("low", u, blocking) = 200 + u + IF blocking THEN 250 ELSE 0
BY DEF DecisionScore, BASE_SCORE, BLOCK_BONUS

\* Where a signal of the moment may lie, by its severity.
InBand(s) ==
    /\ s.severity \in {"high", "medium", "low"} /\ s.score \in Int
    /\ s.severity = "high" => s.score >= 1000
    /\ s.severity = "medium" => s.score \in 500 .. 999
    /\ s.severity = "low" => s.score <= 399

LEMMA BandOf ==
    ASSUME NEW id, NEW severity \in {"high", "medium", "low"}, NEW u \in Nat, NEW blocking \in BOOLEAN,
           severity = "medium" => u < 250 \/ (u < 500 /\ ~blocking),
           severity = "low" => u < 200 /\ ~blocking
    PROVE  InBand(Signal(id, severity, DecisionScore(severity, u, blocking)))
<1>1. ASSUME NEW score \in Int, severity = "high" => score >= 1000,
             severity = "medium" => score \in 500 .. 999, severity = "low" => score <= 399
      PROVE  InBand(Signal(id, severity, score))
  BY <1>1 DEF InBand, Signal
<1>2. CASE severity = "high"
  <2>1. DecisionScore(severity, u, blocking) \in Int /\ DecisionScore(severity, u, blocking) >= 1000
    BY <1>2, ScoreFacts
  <2> QED
    BY <1>1, <1>2, <2>1
<1>3. CASE severity = "medium"
  <2>1. DecisionScore(severity, u, blocking) \in 500 .. 999
    BY <1>3, ScoreFacts
  <2> QED
    BY <1>1, <1>3, <2>1
<1>4. CASE severity = "low"
  <2>1. DecisionScore(severity, u, blocking) \in Int /\ DecisionScore(severity, u, blocking) <= 399
    BY <1>4, ScoreFacts
  <2> QED
    BY <1>1, <1>4, <2>1
<1> QED
  BY <1>2, <1>3, <1>4

LEMMA UrgencyFacts ==
    ASSUME NEW tenths \in Nat \cup {None}
    PROVE  /\ StockUrgency(tenths) \in 0 .. 300
           /\ tenths # None /\ tenths >= 60 => StockUrgency(tenths) <= 120
           /\ tenths = None \/ tenths >= 120 => StockUrgency(tenths) = 0
<1>1. CASE tenths = None
  <2>1. None # 0 /\ None \notin 1 .. 59 /\ None \notin 60 .. 119
    BY NoneIsNoFigure
  <2> QED
    BY <1>1, <2>1 DEF StockUrgency
<1>2. CASE tenths = 0
  BY <1>2, NoneIsNoFigure DEF StockUrgency
<1>3. CASE tenths \in 1 .. 59
  BY <1>3, NoneIsNoFigure DEF StockUrgency
<1>4. CASE tenths \in 60 .. 119
  BY <1>4, NoneIsNoFigure DEF StockUrgency
<1>5. CASE tenths \in Nat /\ tenths >= 120
  BY <1>5, NoneIsNoFigure DEF StockUrgency
<1> QED
  BY <1>1, <1>2, <1>3, <1>4, <1>5

LEMMA StockRiskInBand ==
    ASSUME NEW available \in Int, NEW reorder, NEW velocity \in Nat,
           NEW s \in StockRisk(available, reorder, velocity)
    PROVE  InBand(s)
<1> DEFINE tenths == CASE available <= 0 -> 0
                       [] available > 0 /\ velocity > 0 -> Rounded(10 * available, velocity)
                       [] OTHER -> None
           severity == CASE available <= 0 -> "high"
                         [] available > 0 /\ available < 6 * velocity -> "high"
                         [] available >= 6 * velocity /\ available < 12 * velocity -> "medium"
                         [] OTHER -> "low"
           u == StockUrgency(tenths)
           blocking == severity = "high"
<1>1. s = Signal("stock_risk", severity, DecisionScore(severity, u, blocking))
  BY DEF StockRisk
<1>2. /\ severity \in {"high", "medium", "low"} /\ u \in 0 .. 300
      /\ severity = "medium" => u <= 120
      /\ severity = "low" => u = 0
  <2>1. CASE available <= 0
    <3>1. tenths = 0 /\ severity = "high"
      BY <2>1
    <3> HIDE DEF tenths, severity
    <3> QED
      BY <3>1, UrgencyFacts
  <2>2. CASE available > 0 /\ velocity = 0
    <3>1. tenths = None /\ severity = "low"
      BY <2>2
    <3> HIDE DEF tenths, severity
    <3> QED
      BY <3>1, UrgencyFacts
  <2>3. CASE available > 0 /\ velocity > 0
    <3>1. tenths = Rounded(10 * available, velocity)
      BY <2>3
    <3>2. /\ tenths \in Nat
          /\ available >= 6 * velocity => tenths >= 60
          /\ available >= 12 * velocity => tenths >= 120
      <4> DEFINE x == 10 * available
      <4>1. x \in Int /\ velocity \in Nat \ {0} /\ tenths = Rounded(x, velocity)
        BY <2>3, <3>1
      <4> HIDE DEF tenths, x
      <4>2. /\ tenths \in Int
            /\ \A n \in Int : tenths >= n <=> 2 * x + velocity >= n * (2 * velocity)
        BY <4>1, RoundedBound
      <4>3. tenths \in Nat
        BY <2>3, <4>2 DEF x
      <4>4. available >= 6 * velocity => tenths >= 60
        BY <2>3, <4>2 DEF x
      <4>5. available >= 12 * velocity => tenths >= 120
        BY <2>3, <4>2 DEF x
      <4> QED
        BY <4>3, <4>4, <4>5
    <3>3. /\ severity = "high" <=> available < 6 * velocity
          /\ severity = "medium" <=> available >= 6 * velocity /\ available < 12 * velocity
          /\ severity = "low" <=> available >= 12 * velocity
      BY <2>3
    <3>4. tenths # None
      BY <3>2, NoneIsNoFigure
    <3> HIDE DEF tenths, severity
    <3>5. /\ u \in 0 .. 300
          /\ tenths >= 60 => u <= 120
          /\ tenths >= 120 => u = 0
      BY <3>2, <3>4, UrgencyFacts
    <3> QED
      BY <2>3, <3>2, <3>3, <3>5, SMTT(20)
  <2> QED
    BY <2>1, <2>2, <2>3
<1>3. blocking \in BOOLEAN /\ (blocking => severity = "high")
  OBVIOUS
<1> HIDE DEF tenths, severity, u, blocking
<1> QED
  BY <1>1, <1>2, <1>3, BandOf

LEMMA DemandSpikeInBand ==
    ASSUME NEW last \in Nat, NEW before \in Nat, NEW s \in DemandSpike(last, before)
    PROVE  InBand(s)
<1> DEFINE severity == CASE 23 * last >= 3 * before -> "high"
                         [] 23 * last < 3 * before /\ 23 * last >= 2 * before -> "medium"
                         [] OTHER -> "low"
           ratio == Rounded(2300 * last, before)
           u == Smaller(ratio - 150, 250)
           blocking == severity # "low"
<1>1. /\ before # 0 /\ 2 * 23 * last >= 3 * before
      /\ s = Signal("demand_spike_current", severity, DecisionScore(severity, u, blocking))
  BY DEF DemandSpike
<1>2. /\ ratio \in Int /\ ratio >= 150
      /\ 23 * last < 3 * before => ~(ratio >= 399)
      /\ 23 * last < 2 * before => ~(ratio >= 349)
  <2>1. before \in Nat \ {0} /\ 2300 * last \in Int
    BY <1>1
  <2>2. /\ ratio \in Int
        /\ ratio >= 150 <=> 2 * (2300 * last) + before >= 150 * (2 * before)
        /\ ratio >= 349 <=> 2 * (2300 * last) + before >= 349 * (2 * before)
        /\ ratio >= 399 <=> 2 * (2300 * last) + before >= 399 * (2 * before)
    BY <2>1, RoundedBound
  <2> HIDE DEF ratio
  <2> QED
    BY <1>1, <2>1, <2>2
<1>3. /\ severity \in {"high", "medium", "low"}
      /\ severity = "medium" => 23 * last < 3 * before
      /\ severity = "low" => 23 * last < 2 * before
      /\ blocking \in BOOLEAN /\ (blocking => severity # "low")
  OBVIOUS
<1> HIDE DEF ratio, severity, blocking
<1>4. u \in Nat /\ u <= ratio - 150
  BY <1>2 DEF Smaller
<1> HIDE DEF u
<1> QED
  BY <1>1, <1>2, <1>3, <1>4, BandOf

LEMMA SlaRiskInBand ==
    ASSUME NEW ages, IsFiniteSet(DOMAIN ages), NEW s \in SlaRisk(ages)
    PROVE  InBand(s)
<1> DEFINE critical == {o \in DOMAIN ages : ages[o] >= 10}
           warning  == {o \in DOMAIN ages : ages[o] >= 7} \ critical
           severity == IF critical # {} THEN "high" ELSE "medium"
           u == Smaller(50 * Cardinality(critical) + 20 * Cardinality(warning), 300)
           blocking == severity = "high"
<1>1. s = Signal("sla_risk_current", severity, DecisionScore(severity, u, blocking))
  BY DEF SlaRisk
<1>2. Cardinality(critical) \in Nat /\ Cardinality(warning) \in Nat
  BY FS_Subset, FS_CardinalityType
<1>3. u \in 0 .. 300
  <2> HIDE DEF critical, warning
  <2> QED
    BY <1>2 DEF Smaller
<1>4. severity \in {"high", "medium"} /\ blocking \in BOOLEAN /\ (blocking => severity = "high")
  OBVIOUS
<1> HIDE DEF severity, u, blocking
<1> QED
  BY <1>1, <1>3, <1>4, BandOf

LEMMA RevenueAnomalyInBand ==
    ASSUME NEW last \in Nat, NEW before \in Nat, NEW s \in RevenueAnomaly(last, before)
    PROVE  InBand(s)
<1> DEFINE rate == 100 * 23 * last
           severity == CASE rate < 35 * before -> "high"
                         [] rate >= 35 * before /\ rate < 60 * before -> "medium"
                         [] OTHER -> "low"
           u == IF severity = "low" THEN 0 ELSE DropUrgency(last, before)
           blocking == severity = "high"
<1>1. s = Signal("revenue_anomaly_current", severity, DecisionScore(severity, u, blocking))
  BY DEF RevenueAnomaly
<1>2. severity \in {"high", "medium", "low"} /\ blocking \in BOOLEAN /\ (blocking => severity = "high")
  OBVIOUS
<1>3. u \in {0, 50, 150} /\ (severity = "low" => u = 0)
  BY DEF DropUrgency
<1> HIDE DEF severity, u, blocking
<1> QED
  BY <1>1, <1>2, <1>3, BandOf

LEMMA SlowMovingInBand ==
    ASSUME NEW on_hand, NEW reorder, NEW consumed, NEW s \in SlowMoving(on_hand, reorder, consumed)
    PROVE  InBand(s)
<1>1. s = Signal("slow_moving", "medium", 500)
  BY DEF SlowMoving, DecisionScore, BASE_SCORE
<1>2. s.severity = "medium" /\ s.score = 500
  BY <1>1 DEF Signal
<1> QED
  BY <1>2 DEF InBand

\* The signals of the day are capped, whatever they are called.
LEMMA MetricDrivenIsCapped ==
    ASSUME NEW m, NEW s \in MetricDriven(m)
    PROVE  s.score \in 400 .. 800
BY DEF MetricDriven, ComboHealth, UpsellVisibility, OwnerEngagement, KitchenPerformance, Fires,
       Signal, MetricScore, METRIC_SCORE_CAP, Smaller

LEMMA MomentIsInBand == \A s \in SignalsOfTheMoment : InBand(s)
<1> SUFFICES ASSUME NEW s \in SignalsOfTheMoment PROVE InBand(s)
  OBVIOUS
<1>1. ASSUME NEW available \in -1 .. 20, NEW velocity \in 0 .. 4, s \in StockRisk(available, 20, velocity)
      PROVE  InBand(s)
  <2>1. available \in Int /\ velocity \in Nat
    OBVIOUS
  <2> QED
    BY <1>1, <2>1, StockRiskInBand
<1>2. ASSUME NEW reorder \in {4, 5}, s \in SlowMoving(5, reorder, FALSE)
      PROVE  InBand(s)
  BY <1>2, SlowMovingInBand
<1>3. ASSUME NEW last \in 0 .. 9, NEW before \in 0 .. 50, s \in DemandSpike(last, before)
      PROVE  InBand(s)
  <2>1. last \in Nat /\ before \in Nat
    OBVIOUS
  <2> QED
    BY <1>3, <2>1, DemandSpikeInBand
<1>4. ASSUME NEW ages \in Ages, s \in SlaRisk(ages)
      PROVE  InBand(s)
  <2>1. PICK n \in 0 .. 7 : ages \in [1 .. n -> {6, 7, 10}]
    BY DEF Ages
  <2>2. IsFiniteSet(DOMAIN ages)
    BY <2>1, FS_Interval
  <2> QED
    BY <1>4, <2>2, SlaRiskInBand
<1>5. ASSUME NEW last \in 0 .. 20, NEW before \in 20 .. 120, s \in RevenueAnomaly(last, before)
      PROVE  InBand(s)
  <2>1. last \in Nat /\ before \in Nat
    OBVIOUS
  <2> QED
    BY <1>5, <2>1, RevenueAnomalyInBand
<1> DEFINE A == {StockRisk(available, 20, velocity) : available \in -1 .. 20, velocity \in 0 .. 4}
           B == {SlowMoving(5, reorder, FALSE) : reorder \in {4, 5}}
           C == {DemandSpike(last, before) : last \in 0 .. 9, before \in 0 .. 50}
           D == {SlaRisk(ages) : ages \in Ages}
           E == {RevenueAnomaly(last, before) : last \in 0 .. 20, before \in 20 .. 120}
<1>6. SignalsOfTheMoment = UNION (A \cup B \cup C \cup D \cup E)
  BY DEF SignalsOfTheMoment
<1>7. ASSUME NEW S \in A, s \in S PROVE InBand(s)
  <2>1. PICK available \in -1 .. 20, velocity \in 0 .. 4 : S = StockRisk(available, 20, velocity)
    OBVIOUS
  <2> QED
    BY <1>1, <1>7, <2>1
<1>8. ASSUME NEW S \in B, s \in S PROVE InBand(s)
  BY <1>2, <1>8
<1>9. ASSUME NEW S \in C, s \in S PROVE InBand(s)
  <2>1. PICK last \in 0 .. 9, before \in 0 .. 50 : S = DemandSpike(last, before)
    OBVIOUS
  <2> QED
    BY <1>3, <1>9, <2>1
<1>10. ASSUME NEW S \in D, s \in S PROVE InBand(s)
  BY <1>4, <1>10
<1>11. ASSUME NEW S \in E, s \in S PROVE InBand(s)
  <2>1. PICK last \in 0 .. 20, before \in 20 .. 120 : S = RevenueAnomaly(last, before)
    OBVIOUS
  <2>2. s \in RevenueAnomaly(last, before)
    BY <1>11, <2>1
  <2> HIDE DEF E
  <2> QED
    BY <1>5, <2>2
<1> HIDE DEF A, B, C, D, E
<1> QED
  BY <1>6, <1>7, <1>8, <1>9, <1>10, <1>11

LEMMA RanksByUrgency == FeedRanksByUrgency
<1> DEFINE Of(severity) == {s \in SignalsOfTheMoment : s.severity = severity}
           ofTheDay == UNION {MetricDriven(m) : m \in MetricGrid}
<1>1. /\ \A s \in Of("high") : s.score \in Int /\ s.score >= 1000
      /\ \A s \in Of("medium") : s.score \in 500 .. 999
      /\ \A s \in Of("low") : s.score \in Int /\ s.score <= 399
  BY MomentIsInBand DEF InBand
<1>2. \A s \in ofTheDay : s.score \in 400 .. 800
  BY MetricDrivenIsCapped
<1>3. /\ \A s \in Of("high"), t \in Of("medium") \cup ofTheDay : s.score > t.score
      /\ \A s \in Of("medium") \cup ofTheDay, t \in Of("low") : s.score > t.score
  <2>1. \A s \in Of("medium") \cup ofTheDay : s.score \in 400 .. 999
    BY <1>1, <1>2
  <2>2. ASSUME NEW s \in Of("high"), NEW t \in Of("medium") \cup ofTheDay
        PROVE  s.score > t.score
    <3>1. s.score \in Int /\ s.score >= 1000 /\ t.score \in 400 .. 999
      BY <1>1, <2>1
    <3> QED
      BY <3>1
  <2>3. ASSUME NEW s \in Of("medium") \cup ofTheDay, NEW t \in Of("low")
        PROVE  s.score > t.score
    <3>1. s.score \in 400 .. 999 /\ t.score \in Int /\ t.score <= 399
      BY <1>1, <2>1
    <3> QED
      BY <3>1
  <2> QED
    BY <2>2, <2>3
<1> QED
  BY <1>3 DEF FeedRanksByUrgency

\* What fires, and the mode, as conditions on the figures.
Firing(m) == {s.id : s \in MetricDriven(m)}

LEMMA WhatFires ==
    ASSUME NEW m
    PROVE  /\ "metric_combo_health" \in Firing(m) <=> Below(m.combo, 3000)
           /\ "metric_upsell_visibility" \in Firing(m) <=> Below(m.upsell, 1500)
           /\ "metric_kitchen_performance" \in Firing(m) <=> Above(m.breach, 2000)
           /\ Firing(m) \subseteq {"metric_combo_health", "metric_upsell_visibility",
                                  "metric_owner_engagement", "metric_kitchen_performance"}
<1>1. ASSUME NEW s
      PROVE  s \in MetricDriven(m) <=>
                \/ Below(m.combo, 3000) /\ s = Signal("metric_combo_health", "medium", MetricScore(600))
                \/ Below(m.upsell, 1500) /\ s = Signal("metric_upsell_visibility", "low", MetricScore(400))
                \/ /\ m.seen >= 3 /\ Below(m.completion, 3000)
                   /\ s = Signal("metric_owner_engagement", "medium", MetricScore(550))
                \/ Above(m.breach, 2000)
                   /\ s = Signal("metric_kitchen_performance", "high", MetricScore(800))
  <2>1. s \in ComboHealth(m) <=>
           Below(m.combo, 3000) /\ s = Signal("metric_combo_health", "medium", MetricScore(600))
    BY DEF ComboHealth, Fires
  <2>2. s \in UpsellVisibility(m) <=>
           Below(m.upsell, 1500) /\ s = Signal("metric_upsell_visibility", "low", MetricScore(400))
    BY DEF UpsellVisibility, Fires
  <2>3. s \in OwnerEngagement(m) <=>
           /\ m.seen >= 3 /\ Below(m.completion, 3000)
           /\ s = Signal("metric_owner_engagement", "medium", MetricScore(550))
    BY DEF OwnerEngagement, Fires
  <2>4. s \in KitchenPerformance(m) <=>
           Above(m.breach, 2000) /\ s = Signal("metric_kitchen_performance", "high", MetricScore(800))
    BY DEF KitchenPerformance, Fires
  <2> QED
    BY <2>1, <2>2, <2>3, <2>4 DEF MetricDriven
<1>2. \A id : id \in Firing(m) <=> \E s \in MetricDriven(m) : s.id = id
  BY DEF Firing
<1>3. \A id, severity, score : Signal(id, severity, score).id = id
  BY DEF Signal
<1> QED
  BY <1>1, <1>2, <1>3

\* The mode, by the figures that are over or under their limits.
LEMMA ModeFacts ==
    ASSUME NEW m, m.breach \in Int \cup {None}
    PROVE  /\ Mode(m) = "sla_critical" => Above(m.breach, 2000)
           /\ Mode(m) = "high_kitchen_load" => Above(m.breach, 2000) \/ Above(m.prep, 90000)
           /\ Mode(m) = "boost_combos" =>
                 /\ ~Above(m.breach, 2000) /\ ~Above(m.prep, 90000)
                 /\ Below(m.combo, 3000) \/ Below(m.upsell, 1500)
           /\ Mode(m) = "normal" =>
                 ~Above(m.breach, 2000) /\ ~Below(m.combo, 3000) /\ ~Below(m.upsell, 1500)
           /\ Above(m.breach, 2000) => Mode(m) \in {"sla_critical", "high_kitchen_load"}
<1>1. Above(m.breach, 3500) => Above(m.breach, 2000)
  BY NoneIsNoFigure DEF Above
<1>2. CASE Above(m.breach, 3500)
  BY <1>1, <1>2 DEF Mode
<1>3. CASE ~Above(m.breach, 3500) /\ (Above(m.breach, 2000) \/ Above(m.prep, 90000))
  BY <1>3 DEF Mode
<1>4. CASE /\ ~Above(m.breach, 2000) /\ ~Above(m.prep, 90000)
           /\ Below(m.combo, 3000) \/ Below(m.upsell, 1500)
  BY <1>1, <1>4 DEF Mode
<1>5. CASE /\ ~Above(m.breach, 2000) /\ ~Above(m.prep, 90000)
           /\ ~(Below(m.combo, 3000) \/ Below(m.upsell, 1500))
  BY <1>1, <1>5 DEF Mode
<1> QED
  BY <1>2, <1>3, <1>4, <1>5

LEMMA ContextMatches == ContextMatchesSignals
<1> SUFFICES ASSUME NEW m \in MetricGrid
             PROVE  LET fires == {s.id : s \in MetricDriven(m)}
                        selling == {"metric_combo_health", "metric_upsell_visibility"} \cap fires
                    IN  /\ "metric_kitchen_performance" \in fires => MaxUpsell(Mode(m)) = 1
                        /\ MaxUpsell(Mode(m)) = 1 => "metric_kitchen_performance" \in fires \/ m.prep > 90000
                        /\ Mode(m) = "boost_combos" => selling # {}
                        /\ Mode(m) = "normal" => fires \subseteq {"metric_owner_engagement"}
  BY DEF ContextMatchesSignals
<1>1. m.breach \in Int \cup {None} /\ m.prep \in Int \cup {None}
  BY DEF MetricGrid
<1>2. Above(m.prep, 90000) => m.prep > 90000
  BY DEF Above
<1>3. MaxUpsell(Mode(m)) = 1 <=> Mode(m) \in {"sla_critical", "high_kitchen_load"}
  BY DEF MaxUpsell
<1>4. /\ "metric_kitchen_performance" \in Firing(m) => MaxUpsell(Mode(m)) = 1
      /\ MaxUpsell(Mode(m)) = 1 => "metric_kitchen_performance" \in Firing(m) \/ m.prep > 90000
      /\ Mode(m) = "boost_combos" =>
            {"metric_combo_health", "metric_upsell_visibility"} \cap Firing(m) # {}
      /\ Mode(m) = "normal" => Firing(m) \subseteq {"metric_owner_engagement"}
  BY <1>1, <1>2, <1>3, ModeFacts, WhatFires
<1> QED
  BY <1>4 DEF Firing

LEMMA PartFacts ==
    ASSUME NEW part, NEW whole, IsFiniteSet(whole), part \subseteq whole
    PROVE  /\ Cardinality(part) \in Nat /\ Cardinality(whole) \in Nat
           /\ Cardinality(part) <= Cardinality(whole)
           /\ whole = {} <=> Cardinality(whole) = 0
BY FS_Subset, FS_CardinalityType, FS_EmptySet

\* The part is n ten-thousandths of the whole, or close enough to be rounded up to it.
AtLeast(part, whole, n) == 20000 * Cardinality(part) + Cardinality(whole) >= n * (2 * Cardinality(whole))

LEMMA RateAtLeast ==
    ASSUME NEW part, NEW whole, IsFiniteSet(whole), part \subseteq whole, whole # {}, NEW n \in Int
    PROVE  Rate(part, whole) \in Int /\ (Rate(part, whole) >= n <=> AtLeast(part, whole, n))
<1> DEFINE p == Cardinality(part)
           w == Cardinality(whole)
           x == 10000 * p
           r == Rate(part, whole)
<1>1. p \in Nat /\ w \in Nat \ {0}
  BY PartFacts
<1>2. r = Rounded(x, w)
  BY DEF Rate
<1>3. AtLeast(part, whole, n) <=> 20000 * p + w >= n * (2 * w)
  BY DEF AtLeast
<1> HIDE DEF p, w, r
<1>4. x \in Int /\ 2 * x = 20000 * p
  BY <1>1
<1> HIDE DEF x
<1>5. r \in Int /\ (r >= n <=> 2 * x + w >= n * (2 * w))
  BY <1>1, <1>2, <1>4, RoundedBound
<1> QED
  BY <1>3, <1>4, <1>5 DEF r

LEMMA RatesAreNat == \A n \in Rates : n \in Nat /\ n \in Int
BY DEF Rates

LEMMA WithinRates == ASSUME NEW n \in Int, 0 <= n, n <= 10000 PROVE n \in Rates
BY SMTT(30) DEF Rates

\* A rate of a part of something lies between none and all of it.
LEMMA RateType ==
    ASSUME NEW part, NEW whole, IsFiniteSet(whole), part \subseteq whole
    PROVE  Rate(part, whole) \in Rates
<1>1. CASE whole = {}
  BY <1>1 DEF Rate, Rates
<1>2. CASE whole # {}
  <2> DEFINE p == Cardinality(part)
             w == Cardinality(whole)
             r == Rate(part, whole)
  <2>1. p \in Nat /\ w \in Nat \ {0} /\ p <= w
    BY <1>2, PartFacts
  <2>2. r \in Int /\ (r >= 0 <=> AtLeast(part, whole, 0)) /\ (r >= 10001 <=> AtLeast(part, whole, 10001))
    BY <1>2, RateAtLeast
  <2>3. /\ AtLeast(part, whole, 0) <=> 20000 * p + w >= 0 * (2 * w)
        /\ AtLeast(part, whole, 10001) <=> 20000 * p + w >= 10001 * (2 * w)
    BY DEF AtLeast
  <2> HIDE DEF p, w, r
  <2>4. 0 <= r /\ r <= 10000
    <3>1. 20000 * p + w >= 0 * (2 * w)
      BY <2>1
    <3>2. ~(20000 * p + w >= 10001 * (2 * w))
      BY <2>1
    <3> QED
      BY <2>2, <2>3, <3>1, <3>2
  <2>5. r \in Rates
    BY <2>2, <2>4, WithinRates
  <2> QED
    BY <2>5 DEF r
<1> QED
  BY <1>1, <1>2

\* A greater rate is a greater share.
LEMMA RatesCompare ==
    ASSUME NEW part, NEW whole, IsFiniteSet(whole), part \subseteq whole, whole # {},
           NEW few, NEW all, IsFiniteSet(all), few \subseteq all, all # {},
           Rate(part, whole) > Rate(few, all)
    PROVE  Cardinality(part) * Cardinality(all) > Cardinality(few) * Cardinality(whole)
<1> DEFINE p == Cardinality(part)
           w == Cardinality(whole)
           f == Cardinality(few)
           a == Cardinality(all)
           n == Rate(part, whole)
           m == Rate(few, all)
<1>1. /\ p \in Nat /\ w \in Nat \ {0} /\ f \in Nat /\ a \in Nat \ {0} /\ n \in Int
      /\ 20000 * p + w >= n * (2 * w)
      /\ 20000 * f + a < n * (2 * a)
  <2>1. p \in Nat /\ w \in Nat \ {0} /\ f \in Nat /\ a \in Nat \ {0}
    BY PartFacts
  <2>2. n \in Nat /\ m \in Nat /\ n > m
    BY RateType, RatesAreNat
  <2>3. n \in Int /\ n >= n /\ ~(m >= n)
    <3> HIDE DEF n, m
    <3> QED
      BY <2>2
  <2>4. AtLeast(part, whole, n)
    BY <2>3, RateAtLeast
  <2>5. ~AtLeast(few, all, n)
    <3> HIDE DEF n
    <3> QED
      BY <2>3, RateAtLeast
  <2>6. /\ AtLeast(part, whole, n) <=> 20000 * p + w >= n * (2 * w)
        /\ AtLeast(few, all, n) <=> 20000 * f + a >= n * (2 * a)
    BY DEF AtLeast
  <2> HIDE DEF p, w, f, a, n, m
  <2>7. 20000 * f + a \in Int /\ n * (2 * a) \in Int
    BY <2>1, <2>3
  <2> QED
    BY <2>1, <2>3, <2>4, <2>5, <2>6, <2>7
<1> HIDE DEF p, w, f, a, n
<1>2. (20000 * p + w) * a >= (n * (2 * w)) * a
  BY <1>1
<1>3. (20000 * f + a) * w < (n * (2 * a)) * w
  BY <1>1
<1>4. /\ (20000 * p + w) * a = 20000 * (p * a) + w * a
      /\ (20000 * f + a) * w = 20000 * (f * w) + w * a
      /\ (n * (2 * w)) * a = (n * (2 * a)) * w
      /\ p * a \in Int /\ f * w \in Int /\ w * a \in Int /\ (n * (2 * a)) * w \in Int
  BY <1>1
<1> DEFINE pa == p * a
           fw == f * w
           wa == w * a
           k == (n * (2 * a)) * w
<1>5. 20000 * pa + wa >= k /\ 20000 * fw + wa < k /\ pa \in Int /\ fw \in Int /\ wa \in Int /\ k \in Int
  BY <1>2, <1>3, <1>4
<1> HIDE DEF pa, fw, wa, k
<1>6. pa > fw
  BY <1>5
<1> QED
  BY <1>6 DEF pa, fw, p, w, f, a

\* A trend goes the way of its figure, if there is a day to compare with.
LEMMA TrendFacts ==
    ASSUME NEW value \in Nat, NEW before \in Nat, NEW sample \in Nat
    PROVE  /\ Trend(value, before, sample) = "up" => sample # 0 /\ value > before
           /\ Trend(value, before, sample) = "down" => sample # 0 /\ value < before
<1> DEFINE x == 1000 * (value - before)
           tenths == Rounded(x, before)
           pct == CASE tenths > 3000 -> 3000 [] tenths < -3000 -> -3000 [] OTHER -> tenths
<1>1. CASE sample = 0
  BY <1>1, NoneIsNoFigure DEF Trend
<1>2. CASE sample > 0 /\ before = 0
  BY <1>2 DEF Trend
<1>3. CASE sample > 0 /\ before # 0
  <2>1. Trend(value, before, sample) = IF pct \in -9 .. 9 THEN "flat" ELSE IF pct > 0 THEN "up" ELSE "down"
    <3>1. sample # 0 /\ ~(sample > 0 /\ before = 0)
      BY <1>3
    <3>2. Trend(value, before, sample) =
             LET p == PctChange(value, before) IN
             IF p \in -9 .. 9 THEN "flat" ELSE IF p > 0 THEN "up" ELSE "down"
      BY <3>1 DEF Trend
    <3>3. PctChange(value, before) = pct
      BY DEF PctChange
    <3> QED
      BY <3>2, <3>3
  <2>2. /\ tenths \in Int
        /\ tenths >= 10 <=> 2 * x + before >= 10 * (2 * before)
        /\ tenths >= -9 <=> 2 * x + before >= -9 * (2 * before)
    <3>1. x \in Int /\ before \in Nat \ {0}
      BY <1>3
    <3> HIDE DEF x
    <3> QED
      BY <3>1, RoundedBound
  <2>3. /\ tenths > 3000 => pct = 3000
        /\ tenths < -3000 => pct = -3000
        /\ ~(tenths > 3000) /\ ~(tenths < -3000) => pct = tenths
    <3>1. CASE tenths > 3000 /\ ~(tenths < -3000)
      BY <3>1
    <3>2. CASE ~(tenths > 3000) /\ tenths < -3000
      BY <3>2
    <3>3. CASE ~(tenths > 3000) /\ ~(tenths < -3000)
      BY <3>3
    <3>4. ~(tenths > 3000 /\ tenths < -3000)
      <4> HIDE DEF tenths
      <4> QED
        BY <2>2
    <3> QED
      BY <3>1, <3>2, <3>3, <3>4
  <2> HIDE DEF tenths, pct
  <2>4. /\ Trend(value, before, sample) = "up" => tenths >= 10
        /\ Trend(value, before, sample) = "down" => ~(tenths >= -9)
    BY <2>1, <2>2, <2>3
  <2> QED
    BY <1>3, <2>2, <2>4
<1> QED
  BY <1>1, <1>2, <1>3

LEMMA ValidFacts ==
    ASSUME NEW value, NEW sample \in Nat, NEW minimum \in Nat
    PROVE  \/ Valid(value, sample, minimum) = None
           \/ Valid(value, sample, minimum) = value /\ sample # 0 /\ sample >= minimum
<1>1. CASE sample = 0
  BY <1>1 DEF Valid, Quality
<1>2. CASE sample > 0 /\ sample < minimum
  BY <1>2 DEF Valid, Quality
<1>3. CASE sample # 0 /\ sample >= minimum
  BY <1>3 DEF Valid
<1> QED
  BY <1>1, <1>2, <1>3

LEMMA SoldFacts ==
    ASSUME NEW day, IsFiniteSet(DOMAIN day)
    PROVE  /\ IsFiniteSet(Sold(day)) /\ IsFiniteSet(Combos(day)) /\ Combos(day) \subseteq Sold(day)
           /\ Cardinality(Sold(day)) \in Nat /\ Cardinality(Combos(day)) \in Nat
<1>1. Sold(day) \subseteq DOMAIN day /\ Combos(day) \subseteq Sold(day)
  BY DEF Sold, Combos
<1> QED
  BY <1>1, FS_Subset, FS_CardinalityType

LEMMA MeanBound ==
    ASSUME NEW f, NEW S, IsFiniteSet(S), S # {}, NEW n \in Int
    PROVE  /\ Mean(f, S) \in Int
           /\ Mean(f, S) >= n <=> 20000 * Total(f, S) + Cardinality(S) >= n * (2 * Cardinality(S))
<1> DEFINE t == Total(f, S)
           w == Cardinality(S)
           x == 10000 * t
<1>1. t \in Nat /\ w \in Nat \ {0}
  BY TotalType, FS_CardinalityType, FS_EmptySet
<1>2. Mean(f, S) = Rounded(x, w)
  BY DEF Mean
<1> HIDE DEF t, w
<1>3. x \in Int /\ 2 * x = 20000 * t
  BY <1>1
<1> HIDE DEF x
<1>4. Rounded(x, w) \in Int /\ (Rounded(x, w) >= n <=> 2 * x + w >= n * (2 * w))
  BY <1>1, <1>3, RoundedBound
<1> QED
  BY <1>2, <1>3, <1>4 DEF t, w

LEMMA MeanType ==
    ASSUME NEW f, NEW S, IsFiniteSet(S)
    PROVE  Mean(f, S) \in Nat
<1>1. CASE S = {}
  BY <1>1 DEF Mean
<1>2. CASE S # {}
  <2>1. Total(f, S) \in Nat /\ Cardinality(S) \in Nat
    BY TotalType, FS_CardinalityType
  <2>2. Mean(f, S) \in Int
        /\ (Mean(f, S) >= 0 <=> 20000 * Total(f, S) + Cardinality(S) >= 0 * (2 * Cardinality(S)))
    BY <1>2, MeanBound
  <2> QED
    BY <2>1, <2>2
<1> QED
  BY <1>1, <1>2

\* Orders to divide by: one at least.
OrdersOf(day) == IF Sold(day) = {} THEN 1 ELSE Cardinality(Sold(day))

\* The figures of any day, whatever the day before it was.
LEMMA ConversionFacts ==
    ASSUME NEW day, IsFiniteSet(DOMAIN day), NEW before, IsFiniteSet(DOMAIN before)
    PROVE  /\ Conversion(day, before).combo = None
              \/ /\ Conversion(day, before).combo = Rate(Combos(day), Sold(day))
                 /\ Sold(day) # {} /\ Cardinality(Sold(day)) >= CONVERSION_MIN_ORDERS
           /\ Conversion(day, before).comboTrend = "up" =>
                Cardinality(Combos(day)) * OrdersOf(before) > Cardinality(Combos(before)) * OrdersOf(day)
           /\ Conversion(day, before).comboTrend = "down" =>
                Cardinality(Combos(day)) * OrdersOf(before) < Cardinality(Combos(before)) * OrdersOf(day)
           /\ Conversion(day, before).aovWithoutTrend = "up" => Sold(day) # Combos(day)
<1> DEFINE figures == Conversion(day, before)
           value == Rate(Combos(day), Sold(day))
           was == Rate(Combos(before), Sold(before))
           rest(d) == Sold(d) \ Combos(d)
<1>1. /\ figures.combo = Valid(value, Cardinality(Sold(day)), CONVERSION_MIN_ORDERS)
      /\ figures.comboTrend = Trend(value, was, Cardinality(Sold(before)))
      /\ figures.aovWithoutTrend = Trend(Mean(OrderTotals(day), rest(day)),
                                         Mean(OrderTotals(before), rest(before)),
                                         Cardinality(rest(before)))
  BY DEF Conversion
<1> HIDE DEF figures
<1>2. /\ IsFiniteSet(Sold(day)) /\ Combos(day) \subseteq Sold(day) /\ IsFiniteSet(Combos(day))
      /\ IsFiniteSet(Sold(before)) /\ Combos(before) \subseteq Sold(before) /\ IsFiniteSet(Combos(before))
      /\ Cardinality(Sold(day)) \in Nat /\ Cardinality(Combos(day)) \in Nat
      /\ Cardinality(Sold(before)) \in Nat /\ Cardinality(Combos(before)) \in Nat
  BY SoldFacts
<1>3. value \in Nat /\ was \in Nat
  <2>1. value \in Rates
    BY <1>2, RateType
  <2>2. was \in Rates
    BY <1>2, RateType
  <2> QED
    BY <2>1, <2>2, RatesAreNat
<1>4. figures.combo = None
      \/ /\ figures.combo = value
         /\ Sold(day) # {} /\ Cardinality(Sold(day)) >= CONVERSION_MIN_ORDERS
  <2>1. Sold(day) = {} => Cardinality(Sold(day)) = 0
    BY FS_EmptySet
  <2>2. CONVERSION_MIN_ORDERS \in Nat
    BY DEF CONVERSION_MIN_ORDERS
  <2> HIDE DEF value
  <2> QED
    BY <1>1, <1>2, <2>1, <2>2, ValidFacts
<1>5. Sold(day) = {} => value = 0 /\ Cardinality(Combos(day)) = 0
  BY <1>2, FS_EmptySet DEF Rate
<1>6. was > 0 => Cardinality(Combos(before)) > 0
  <2>1. ASSUME Cardinality(Combos(before)) = 0 PROVE Combos(before) = {}
    BY <1>2, <2>1, FS_EmptySet
  <2>2. ASSUME Cardinality(Combos(before)) = 0, Sold(before) # {} PROVE ~(was >= 1)
    <3> DEFINE w == Cardinality(Sold(before))
               p == Cardinality(Combos(before))
    <3>1. was >= 1 <=> AtLeast(Combos(before), Sold(before), 1)
      BY <1>2, <2>2, RateAtLeast
    <3>2. AtLeast(Combos(before), Sold(before), 1) <=> 20000 * p + w >= 1 * (2 * w)
      BY DEF AtLeast
    <3>3. w \in Nat /\ w # 0 /\ p = 0
      BY <1>2, <2>2, FS_EmptySet
    <3> HIDE DEF was, w, p
    <3> QED
      BY <3>1, <3>2, <3>3
  <2>3. Sold(before) = {} => was = 0
    BY DEF Rate
  <2> HIDE DEF was
  <2> QED
    BY <1>2, <1>3, <2>2, <2>3
<1>7. ASSUME figures.comboTrend = "up"
      PROVE  Cardinality(Combos(day)) * OrdersOf(before) > Cardinality(Combos(before)) * OrdersOf(day)
  <2>1. Cardinality(Sold(before)) # 0 /\ value > was
    BY <1>1, <1>2, <1>3, <1>7, TrendFacts
  <2>2. Sold(before) # {}
    BY <2>1, FS_EmptySet
  <2>3. Sold(day) # {}
    BY <1>3, <1>5, <2>1
  <2> QED
    BY <1>2, <2>1, <2>2, <2>3, RatesCompare DEF OrdersOf
<1>8. ASSUME figures.comboTrend = "down"
      PROVE  Cardinality(Combos(day)) * OrdersOf(before) < Cardinality(Combos(before)) * OrdersOf(day)
  <2>1. Cardinality(Sold(before)) # 0 /\ value < was
    BY <1>1, <1>2, <1>3, <1>8, TrendFacts
  <2>2. Sold(before) # {}
    BY <2>1, FS_EmptySet
  <2>3. CASE Sold(day) = {}
    <3>1. Cardinality(Combos(before)) > 0 /\ Cardinality(Combos(day)) = 0
      BY <1>3, <1>5, <1>6, <2>1, <2>3
    <3>2. OrdersOf(day) = 1 /\ OrdersOf(before) \in Nat
      BY <1>2, <2>3 DEF OrdersOf
    <3> QED
      BY <1>2, <3>1, <3>2
  <2>4. CASE Sold(day) # {}
    <3>1. was > value
      BY <1>3, <2>1
    <3>2. Cardinality(Combos(before)) * Cardinality(Sold(day)) > Cardinality(Combos(day)) * Cardinality(Sold(before))
      BY <1>2, <2>2, <2>4, <3>1, RatesCompare
    <3>3. OrdersOf(day) = Cardinality(Sold(day)) /\ OrdersOf(before) = Cardinality(Sold(before))
      BY <2>2, <2>4 DEF OrdersOf
    <3> QED
      BY <1>2, <3>2, <3>3
  <2> QED
    BY <2>3, <2>4
<1>9. ASSUME figures.aovWithoutTrend = "up" PROVE Sold(day) # Combos(day)
  <2>1. IsFiniteSet(rest(day)) /\ IsFiniteSet(rest(before))
    BY <1>2, FS_Subset
  <2>2. /\ Mean(OrderTotals(day), rest(day)) \in Nat /\ Mean(OrderTotals(before), rest(before)) \in Nat
        /\ Cardinality(rest(before)) \in Nat
    BY <2>1, MeanType, FS_CardinalityType
  <2>3. Mean(OrderTotals(day), rest(day)) > Mean(OrderTotals(before), rest(before))
    BY <1>1, <1>9, <2>2, TrendFacts
  <2>4. Mean(OrderTotals(day), rest(day)) # 0
    BY <2>2, <2>3
  <2>5. rest(day) # {}
    BY <2>4 DEF Mean
  <2> QED
    BY <2>5
<1> QED
  BY <1>4, <1>7, <1>8, <1>9 DEF figures

\* What one can say of the outcomes of any rows.
LEMMA ProtectionFacts ==
    ASSUME NEW rows, IsFiniteSet(DOMAIN rows),
           \A d \in DOMAIN rows : rows[d].quality \in {"none", "good", "partial", "failed"}
    PROVE  LET protection == RevenueProtection(rows)
           IN  /\ protection.good + protection.partial + protection.failed = protection.resolved
               /\ protection.saved \in Nat /\ protection.good \in Nat /\ protection.partial \in Nat
               /\ protection.saved > 0 => protection.good > 0 \/ protection.partial > 0
<1> DEFINE protection == RevenueProtection(rows)
           completed == {d \in DOMAIN rows : rows[d].status = "completed" /\ rows[d].done}
           With(qualities) == {d \in completed : rows[d].quality \in qualities}
           G == With({"good"})
           P == With({"partial"})
           F == With({"failed", "none"})
           GP == With({"good", "partial"})
           f == [d \in DOMAIN rows |-> rows[d].saved]
<1>1. /\ protection.good = Cardinality(G) /\ protection.partial = Cardinality(P)
      /\ protection.failed = Cardinality(F) /\ protection.resolved = Cardinality(completed)
      /\ protection.saved = Total(f, GP)
  BY DEF RevenueProtection
<1>2. /\ completed \subseteq DOMAIN rows
      /\ G \subseteq completed /\ P \subseteq completed /\ F \subseteq completed
      /\ GP = G \cup P /\ completed = GP \cup F
      /\ G \cap P = {} /\ GP \cap F = {}
  OBVIOUS
<1> HIDE DEF protection, completed, G, P, F, GP, f
<1>3. IsFiniteSet(completed)
  BY <1>2, FS_Subset
<1>4. IsFiniteSet(G) /\ IsFiniteSet(P) /\ IsFiniteSet(F) /\ IsFiniteSet(GP)
  BY <1>2, <1>3, FS_Subset
<1>5. /\ Cardinality(G) \in Nat /\ Cardinality(P) \in Nat /\ Cardinality(F) \in Nat
      /\ Cardinality(GP) = Cardinality(G) + Cardinality(P)
      /\ Cardinality(completed) = Cardinality(GP) + Cardinality(F)
  <2>1. Cardinality(G \cap P) = 0 /\ Cardinality(GP \cap F) = 0
    BY <1>2, FS_EmptySet
  <2>2. Cardinality(G) \in Nat /\ Cardinality(P) \in Nat /\ Cardinality(F) \in Nat /\ Cardinality(GP) \in Nat
    BY <1>4, FS_CardinalityType
  <2>3. Cardinality(G \cup P) = Cardinality(G) + Cardinality(P) - Cardinality(G \cap P)
    BY <1>4, FS_Union
  <2>4. Cardinality(GP \cup F) = Cardinality(GP) + Cardinality(F) - Cardinality(GP \cap F)
    BY <1>4, FS_Union
  <2> QED
    BY <1>2, <2>1, <2>2, <2>3, <2>4
<1>6. Total(f, GP) \in Nat /\ (GP = {} => Total(f, GP) = 0)
  BY <1>4, TotalType, TotalOfEmpty
<1>7. Cardinality(GP) = 0 => GP = {}
  BY <1>4, FS_EmptySet
<1> QED
  BY <1>1, <1>5, <1>6, <1>7 DEF protection

LEMMA CompletionFacts ==
    ASSUME NEW rows, IsFiniteSet(DOMAIN rows),
           \E d \in DOMAIN rows : rows[d].acknowledged \/ rows[d].done
    PROVE  DecisionMetrics(rows).completion \in Rates
<1> DEFINE acknowledged == {d \in DOMAIN rows : rows[d].acknowledged}
           completed    == {d \in DOMAIN rows : rows[d].done}
           dismissed    == {d \in DOMAIN rows : rows[d].status = "dismissed"}
           a == Cardinality(acknowledged)
           c == Cardinality(completed)
           n == Cardinality(dismissed)
           x == 10000 * c
           seen == a + c + n
           rate == Rounded(x, seen)
<1>1. DecisionMetrics(rows).completion = IF seen = 0 THEN None ELSE rate
  BY DEF DecisionMetrics
<1>2. /\ IsFiniteSet(acknowledged) /\ IsFiniteSet(completed) /\ IsFiniteSet(dismissed)
      /\ acknowledged # {} \/ completed # {}
  BY FS_Subset
<1>3. a \in Nat /\ c \in Nat /\ n \in Nat /\ (a # 0 \/ c # 0)
  <2> HIDE DEF acknowledged, completed, dismissed
  <2> QED
    BY <1>2, FS_CardinalityType, FS_EmptySet
<1> HIDE DEF a, c, n
<1>4. seen \in Nat \ {0} /\ c <= seen /\ x \in Int /\ x >= 0 /\ 2 * x = 20000 * c
  BY <1>3
<1> HIDE DEF x, seen
<1>5. rate \in Int /\ (rate >= 0 <=> 2 * x + seen >= 0 * (2 * seen))
                   /\ (rate >= 10001 <=> 2 * x + seen >= 10001 * (2 * seen))
  BY <1>4, RoundedBound
<1>6. 0 <= rate /\ rate <= 10000
  <2> HIDE DEF rate
  <2>1. 20000 * c + seen >= 0 * (2 * seen)
    BY <1>3, <1>4
  <2>2. ~(20000 * c + seen >= 10001 * (2 * seen))
    BY <1>3, <1>4
  <2> QED
    BY <1>4, <1>5, <2>1, <2>2
<1> HIDE DEF rate
<1>7. rate \in Rates
  BY <1>5, <1>6, WithinRates
<1> QED
  BY <1>1, <1>4, <1>7

\* What there is to report of figures that are rates and outcomes that add up.
LEMMA ErrorFacts ==
    ASSUME NEW conversion, NEW kitchen, NEW protection,
           conversion.comboRate \in Rates, conversion.upsellRate \in Rates,
           protection.good + protection.partial + protection.failed = protection.resolved
    PROVE  LET errors == ConsistencyErrors(conversion, kitchen, protection)
           IN  /\ errors \subseteq {"aov", "p90"}
               /\ "aov" \in errors => /\ conversion.aovWith # None /\ conversion.aovWithout # None
                                      /\ 2 * conversion.aovWith < conversion.aovWithout
               /\ "p90" \in errors => /\ kitchen.prep # None /\ kitchen.p90 # None
                                      /\ kitchen.p90 < kitchen.prep
<1> DEFINE errors == ConsistencyErrors(conversion, kitchen, protection)
<1>1. ASSUME NEW e
      PROVE  e \in errors <=>
                \/ e = "aov" /\ /\ conversion.comboRate > 0
                                /\ conversion.aovWith # None /\ conversion.aovWithout # None
                                /\ 2 * conversion.aovWith < conversion.aovWithout
                \/ e = "p90" /\ /\ kitchen.prep # None /\ kitchen.p90 # None
                                /\ kitchen.p90 < kitchen.prep
  BY DEF ConsistencyErrors
<1> HIDE DEF errors
<1> QED
  BY <1>1 DEF errors

LEMMA ClosedRowFacts ==
    ASSUME NEW status \in {"acknowledged", "completed", "dismissed"}, NEW acknowledged \in BOOLEAN, NEW quality,
           status = "acknowledged" => acknowledged
    PROVE  /\ DecisionRow(status, acknowledged, quality).quality = quality
           /\ DecisionRow(status, acknowledged, quality).acknowledged
              \/ DecisionRow(status, acknowledged, quality).done
<1>1. DecisionRow(status, acknowledged, quality).done = (status \in {"completed", "dismissed"})
  BY DEF DecisionRow
<1>2. DecisionRow(status, acknowledged, quality).acknowledged = acknowledged
  BY DEF DecisionRow
<1>3. CASE status = "acknowledged"
  BY <1>2, <1>3 DEF DecisionRow
<1>4. CASE status \in {"completed", "dismissed"}
  BY <1>1, <1>4 DEF DecisionRow
<1> QED
  BY <1>3, <1>4

LEMMA OutcomesDoAddUp == OutcomesAddUp
<1>1. ASSUME NEW rows \in ClosedRows
      PROVE  /\ ConsistencyErrors(NoFigures, NoTimes, RevenueProtection(rows)) = {}
             /\ RevenueProtection(rows).saved > 0 => RevenueProtection(rows).partial > 0
             /\ DecisionMetrics(rows).completion \in Rates
  <2> DEFINE protection == RevenueProtection(rows)
  <2>1. DOMAIN rows = 1 .. 3
    BY DEF ClosedRows
  <2>2. IsFiniteSet(DOMAIN rows)
    <3>1. PICK n \in Nat : n = 3
      OBVIOUS
    <3>2. IsFiniteSet(1 .. n)
      BY FS_Interval
    <3> QED
      BY <2>1, <3>1, <3>2
  <2>3. \A d \in DOMAIN rows : /\ rows[d].quality \in {"none", "partial", "failed"}
                               /\ rows[d].acknowledged \/ rows[d].done
    <3>1. ASSUME NEW d \in DOMAIN rows
          PROVE  rows[d] \in {DecisionRow("acknowledged", TRUE, "none"), DecisionRow("dismissed", TRUE, "none"),
                              DecisionRow("completed", FALSE, "none"), DecisionRow("completed", TRUE, "partial"),
                              DecisionRow("completed", FALSE, "failed")}
      BY DEF ClosedRows
    <3>2. ASSUME NEW status \in {"acknowledged", "completed", "dismissed"}, NEW acknowledged \in BOOLEAN,
                 NEW quality \in {"none", "partial", "failed"},
                 status = "acknowledged" => acknowledged,
                 NEW d \in DOMAIN rows, rows[d] = DecisionRow(status, acknowledged, quality)
          PROVE  /\ rows[d].quality \in {"none", "partial", "failed"}
                 /\ rows[d].acknowledged \/ rows[d].done
      BY <3>2, ClosedRowFacts
    <3> QED
      BY <3>1, <3>2
  <2>4. /\ protection.good + protection.partial + protection.failed = protection.resolved
        /\ protection.saved \in Nat /\ protection.partial \in Nat
        /\ protection.saved > 0 => protection.good > 0 \/ protection.partial > 0
    <3>1. \A d \in DOMAIN rows : rows[d].quality \in {"none", "good", "partial", "failed"}
      BY <2>3
    <3> QED
      BY <2>2, <3>1, ProtectionFacts
  <2>5. protection.good = 0
    <3>1. {d \in {e \in DOMAIN rows : rows[e].status = "completed" /\ rows[e].done} :
              rows[d].quality \in {"good"}} = {}
      BY <2>3
    <3>2. protection.good = Cardinality({d \in {e \in DOMAIN rows : rows[e].status = "completed" /\ rows[e].done} :
              rows[d].quality \in {"good"}})
      BY DEF RevenueProtection
    <3> HIDE DEF protection
    <3> QED
      BY <3>1, <3>2, FS_EmptySet
  <2>6. DecisionMetrics(rows).completion \in Rates
    <3>1. \E d \in DOMAIN rows : rows[d].acknowledged \/ rows[d].done
      <4>1. 1 \in DOMAIN rows
        BY <2>1
      <4> QED
        BY <2>3, <4>1
    <3> QED
      BY <2>2, <3>1, CompletionFacts
  <2>7. ConsistencyErrors(NoFigures, NoTimes, protection) = {}
    <3> DEFINE errors == ConsistencyErrors(NoFigures, NoTimes, protection)
    <3>1. NoFigures.comboRate = 0 /\ NoFigures.upsellRate = 0 /\ NoFigures.aovWith = None
      BY DEF NoFigures
    <3>2. NoTimes.prep = None
      BY DEF NoTimes
    <3>3. 0 \in Rates
      BY WithinRates
    <3> HIDE DEF protection
    <3>4. errors \subseteq {"aov", "p90"} /\ "aov" \notin errors /\ "p90" \notin errors
      BY <2>4, <3>1, <3>2, <3>3, ErrorFacts
    <3> QED
      BY <3>4
  <2>8. protection.saved > 0 => protection.partial > 0
    <3> HIDE DEF protection
    <3> QED
      BY <2>4, <2>5
  <2> QED
    BY <2>6, <2>7, <2>8
<1> QED
  BY <1>1 DEF OutcomesAddUp

\* A day of the bound has thirteen orders of at most seven items each.
LEMMA DayFacts ==
    ASSUME NEW day \in Days
    PROVE  /\ IsFiniteSet(DOMAIN day) /\ Cardinality(DOMAIN day) = 13
           /\ IsFiniteSet(Items(day)) /\ ComboItems(day) \subseteq Items(day)
<1>0. PICK combos \in {0, 1, 2, 5}, singles \in {0, 1, 3}, baskets \in {0, 3, 5} :
          day = DayOf(combos, singles, baskets)
  BY DEF Days
<1>1. PICK n \in Nat, m \in Nat : n = 13 /\ m = 7
  OBVIOUS
<1>2. DOMAIN day = 1 .. n
  BY <1>0, <1>1 DEF DayOf
<1>3. /\ IsFiniteSet(1 .. n) /\ Cardinality(1 .. n) = n
      /\ IsFiniteSet(1 .. m)
  BY FS_Interval
<1>4. ASSUME NEW o \in DOMAIN day
      PROVE  DOMAIN day[o].items \subseteq 1 .. m
  <2>1. day[o].items \in {<<1, 3>>, <<1, 0>>, <<1, 1, 1, 1, 1, 1, 1>>, <<2>>}
    <3> DEFINE W == [cancelled |-> FALSE, total |-> 5, items |-> <<1, 3>>]
               X == [cancelled |-> FALSE, total |-> 2, items |-> <<1, 0>>]
               Y == [cancelled |-> FALSE, total |-> 12, items |-> <<1, 1, 1, 1, 1, 1, 1>>]
               Z == [cancelled |-> TRUE, total |-> 9, items |-> <<2>>]
    <3>1. day[o] = IF o <= combos THEN W ELSE IF o <= combos + singles THEN X
                   ELSE IF o <= combos + singles + baskets THEN Y ELSE Z
      BY <1>0, Zenon DEF DayOf
    <3>2. /\ W.items = <<1, 3>> /\ X.items = <<1, 0>>
          /\ Y.items = <<1, 1, 1, 1, 1, 1, 1>> /\ Z.items = <<2>>
      OBVIOUS
    <3> HIDE DEF W, X, Y, Z
    <3>3. day[o] \in {W, X, Y, Z}
      BY <3>1, Zenon
    <3> QED
      BY <3>2, <3>3, Zenon
  <2>2. DOMAIN day[o].items \in {1 .. 2, 1 .. 7, 1 .. 1}
    BY <2>1
  <2> QED
    BY <1>1, <2>2
<1>5. Items(day) \subseteq (1 .. n) \X (1 .. m)
  <2>1. ASSUME NEW o \in Sold(day)
        PROVE  {o} \X DOMAIN day[o].items \subseteq (1 .. n) \X (1 .. m)
    <3> DEFINE E == DOMAIN day[o].items
               N == 1 .. n
               M == 1 .. m
    <3>1. o \in DOMAIN day
      BY DEF Sold
    <3>2. E \subseteq M /\ o \in N
      BY <1>2, <1>4, <3>1
    <3> HIDE DEF E, N, M
    <3>3. {o} \X E \subseteq N \X M
      BY <3>2
    <3> QED
      BY <3>3 DEF E, N, M
  <2>2. \A x \in Items(day) : \E o \in Sold(day) : x \in {o} \X DOMAIN day[o].items
    BY DEF Items
  <2> QED
    BY <2>1, <2>2
<1>6. IsFiniteSet((1 .. n) \X (1 .. m))
  BY <1>3, FS_Product
<1>7. ComboItems(day) \subseteq Items(day)
  BY DEF ComboItems
<1> QED
  BY <1>1, <1>2, <1>3, <1>5, <1>6, <1>7, FS_Subset

\* The minutes of the bound: a few orders of at most an hour and a half.
LEMMA PrepFacts ==
    ASSUME NEW prep \in Preps
    PROVE  /\ IsFiniteSet(DOMAIN prep) /\ Cardinality(DOMAIN prep) \in 2 .. 11
           /\ \A o \in DOMAIN prep : prep[o] \in 0 .. 90
<1>1. PICK n \in {2, 3, 10, 11}, others \in {1, 12}, last \in {1, 12, 90} : prep = PrepOf(n, others, last)
  BY DEF Preps
<1>2. DOMAIN prep = 1 .. n /\ \A o \in 1 .. n : prep[o] \in {others, last}
  BY <1>1 DEF PrepOf
<1>3. n \in Nat /\ n \in 2 .. 11
  OBVIOUS
<1>4. IsFiniteSet(1 .. n) /\ Cardinality(1 .. n) = n
  BY <1>3, FS_Interval
<1>5. others \in 0 .. 90 /\ last \in 0 .. 90
  OBVIOUS
<1>6. IsFiniteSet(DOMAIN prep) /\ Cardinality(DOMAIN prep) \in 2 .. 11
  BY <1>2, <1>3, <1>4
<1>7. ASSUME NEW o \in DOMAIN prep
      PROVE  prep[o] \in 0 .. 90
  <2>1. prep[o] = others \/ prep[o] = last
    BY <1>2
  <2> QED
    BY <1>5, <2>1
<1> QED
  BY <1>6, <1>7

-----------------------------------------------------------------------------
(* The ninetieth percentile. *)

LEMMA LeastExists ==
    ASSUME NEW b \in Nat, NEW S, S \subseteq 0 .. b, S # {}
    PROVE  \E m \in S : \A v \in S : m <= v
<1> DEFINE W == {b - v : v \in S}
<1>1. IsFiniteSet(0 .. b)
  BY FS_Interval
<1>2. W \subseteq 0 .. b /\ W \subseteq Nat /\ W # {}
  <2>1. \A v \in S : b - v \in 0 .. b /\ b - v \in Nat
    OBVIOUS
  <2>2. \A w \in W : \E v \in S : w = b - v
    OBVIOUS
  <2>3. PICK v \in S : TRUE
    OBVIOUS
  <2>4. b - v \in W
    OBVIOUS
  <2> HIDE DEF W
  <2> QED
    BY <2>1, <2>2, <2>4
<1>3. IsFiniteSet(W)
  BY <1>1, <1>2, FS_Subset
<1>4. PICK w \in W : \A u \in W : u <= w
  <2> HIDE DEF W
  <2> QED
    BY <1>2, <1>3, LargestExists
<1>5. PICK m \in S : w = b - m
  OBVIOUS
<1>6. \A v \in S : b - v <= b - m
  BY <1>4, <1>5
<1> QED
  BY <1>6

\* The k-th shortest is the first that k orders do not exceed.
LEMMA RankFacts ==
    ASSUME NEW prep, IsFiniteSet(DOMAIN prep), NEW b \in Nat, \A o \in DOMAIN prep : prep[o] \in 0 .. b,
           NEW k \in Nat \ {0}, k <= Cardinality(DOMAIN prep)
    PROVE  /\ \E o \in DOMAIN prep : prep[o] = NthShortest(prep, k)
           /\ Cardinality({o \in DOMAIN prep : prep[o] <= NthShortest(prep, k)}) >= k
           /\ \A o \in DOMAIN prep :
                 Cardinality({p \in DOMAIN prep : prep[p] <= prep[o]}) >= k => NthShortest(prep, k) <= prep[o]
<1> DEFINE D == DOMAIN prep
           Values == {prep[o] : o \in D}
           Upto(v) == {o \in D : prep[o] <= v}
           V == {v \in Values : Cardinality(Upto(v)) >= k}
           least == NthShortest(prep, k)
<1>1. Values \subseteq 0 .. b /\ Values \subseteq Nat
  OBVIOUS
<1>2. Values # {}
  <2>1. Cardinality(D) # 0 /\ Cardinality(D) \in Nat
    BY FS_CardinalityType
  <2>2. D # {}
    BY <2>1, FS_EmptySet
  <2> QED
    BY <2>2
<1>3. V # {}
  <2>1. IsFiniteSet(Values)
    <3>1. IsFiniteSet(0 .. b)
      BY FS_Interval
    <3> HIDE DEF Values
    <3> QED
      BY <1>1, <3>1, FS_Subset
  <2>2. PICK m \in Values : \A v \in Values : v <= m
    <3> HIDE DEF Values
    <3> QED
      BY <1>1, <1>2, <2>1, LargestExists
  <2>3. Upto(m) = D
    BY <2>2
  <2> QED
    BY <2>3
<1>4. \E m \in V : \A v \in V : m <= v
  <2>1. V \subseteq 0 .. b
    BY <1>1
  <2> HIDE DEF V
  <2> QED
    BY <1>3, <2>1, LeastExists
<1>5. least \in V /\ \A v \in V : least <= v
  <2>1. least = CHOOSE m \in V : \A v \in V : m <= v
    BY DEF NthShortest, Min
  <2> HIDE DEF V, least
  <2> QED
    BY <1>4, <2>1
<1> HIDE DEF least
<1> QED
  BY <1>5 DEF least

\* Where the rank of the percentile is.
LEMMA NinetiethRank ==
    ASSUME NEW n \in Nat \ {0}
    PROVE  LET q == 9 * (n - 1)
               k == q \div 10 + 1
           IN  /\ k \in Nat \ {0} /\ k <= n /\ 10 * (n - k) <= n + 8
               /\ q % 10 \in 0 .. 9
               /\ Smaller(k + 1, n) \in Nat \ {0} /\ Smaller(k + 1, n) >= k /\ Smaller(k + 1, n) <= n
<1> DEFINE q == 9 * (n - 1)
           d == q \div 10
<1>1. q \in Nat
  OBVIOUS
<1>2. d \in Int /\ 10 * d <= q /\ q < 10 * d + 10 /\ q % 10 \in 0 .. 9
  <2> HIDE DEF q
  <2> QED
    BY <1>1
<1>3. q = 9 * n - 9
  OBVIOUS
<1> HIDE DEF q, d
<1>4. d >= 0 /\ d + 1 <= n /\ 10 * (n - (d + 1)) <= n + 8
  BY <1>1, <1>2, <1>3
<1> QED
  BY <1>2, <1>4 DEF Smaller, q, d

\* The percentile may only be below the mean when few orders are above the mean.
LEMMA PercentileFacts ==
    ASSUME NEW prep, IsFiniteSet(DOMAIN prep), DOMAIN prep # {},
           NEW b \in Nat, \A o \in DOMAIN prep : prep[o] \in 0 .. b,
           P90(prep) < Mean(prep, DOMAIN prep)
    PROVE  10 * Cardinality({o \in DOMAIN prep :
                                Cardinality(DOMAIN prep) * prep[o] > Total(prep, DOMAIN prep)})
              <= Cardinality(DOMAIN prep) + 8
<1> DEFINE D == DOMAIN prep
           n == Cardinality(D)
           t == Total(prep, D)
           q == 9 * (n - 1)
           k == q \div 10 + 1
           f == q % 10
           low  == NthShortest(prep, k)
           high == NthShortest(prep, Smaller(k + 1, n))
           mean == Mean(prep, D)
           p90  == P90(prep)
           Over  == {o \in D : n * prep[o] > t}
           Under == {o \in D : prep[o] <= low}
<1>1. n \in Nat \ {0} /\ t \in Nat
  BY FS_CardinalityType, FS_EmptySet, TotalType
<1>2. /\ k \in Nat \ {0} /\ k <= n /\ 10 * (n - k) <= n + 8
      /\ f \in 0 .. 9
      /\ Smaller(k + 1, n) \in Nat \ {0} /\ Smaller(k + 1, n) >= k /\ Smaller(k + 1, n) <= n
  <2> HIDE DEF n
  <2> QED
    BY <1>1, NinetiethRank
<1>3. p90 = 10000 * low + 1000 * f * (high - low)
  <2>1. n # 0
    BY <1>1
  <2> QED
    BY <2>1 DEF P90
<1>4. low \in Nat /\ high \in Nat /\ low <= high /\ Cardinality(Under) >= k
  <2> HIDE DEF n, q, k
  <2> DEFINE h == Smaller(k + 1, n)
  <2>1. h \in Nat \ {0} /\ h >= k /\ h <= n
    BY <1>2
  <2> HIDE DEF h
  <2>2. /\ \E o \in D : prep[o] = NthShortest(prep, k)
        /\ Cardinality({o \in D : prep[o] <= NthShortest(prep, k)}) >= k
        /\ \A o \in D : Cardinality({p \in D : prep[p] <= prep[o]}) >= k => NthShortest(prep, k) <= prep[o]
    BY <1>2, RankFacts DEF n
  <2>3. /\ \E o \in D : prep[o] = NthShortest(prep, h)
        /\ Cardinality({o \in D : prep[o] <= NthShortest(prep, h)}) >= h
    BY <2>1, RankFacts DEF n
  <2>4. high = NthShortest(prep, h)
    BY DEF h
  <2> HIDE DEF high
  <2>5. PICK o \in D : prep[o] = high
    BY <2>3, <2>4
  <2>6. Cardinality({p \in D : prep[p] <= high}) \in Nat
    BY FS_Subset, FS_CardinalityType
  <2>7. Cardinality({p \in D : prep[p] <= prep[o]}) >= k
    <3>1. Cardinality({p \in D : prep[p] <= high}) >= k
      BY <1>2, <2>1, <2>3, <2>4, <2>6
    <3> QED
      BY <2>5, <3>1
  <2>8. low <= prep[o]
    BY <2>2, <2>7
  <2> QED
    BY <2>2, <2>5, <2>8
<1>5. mean \in Int /\ (mean >= p90 + 1 <=> 20000 * t + n >= (p90 + 1) * (2 * n))
  <2>1. p90 + 1 \in Int
    <3> HIDE DEF p90, low, high, f
    <3> QED
      BY <1>2, <1>3, <1>4
  <2> HIDE DEF p90
  <2> QED
    BY <2>1, MeanBound
<1>6. p90 < mean
  OBVIOUS
<1>7. /\ Over \subseteq D /\ Under \subseteq D /\ IsFiniteSet(Over) /\ IsFiniteSet(Under)
      /\ Cardinality(Over) \in Nat /\ Cardinality(Under) \in Nat
  BY FS_Subset, FS_CardinalityType
<1> HIDE DEF n, t, q, k, f, low, high, mean, p90
<1>8. p90 \in Int /\ p90 >= 10000 * low
  <2>1. f \in Nat /\ high - low \in Nat
    BY <1>2, <1>4
  <2>2. 1000 * f * (high - low) >= 0 /\ 1000 * f * (high - low) \in Int
    BY <2>1
  <2> QED
    BY <1>3, <1>4, <2>2
<1>9. n * low < t
  <2>1. 20000 * t + n >= (p90 + 1) * (2 * n)
    BY <1>5, <1>6, <1>8
  <2>2. (p90 + 1) * (2 * n) >= (10000 * low + 1) * (2 * n)
    BY <1>1, <1>4, <1>8
  <2>3. (10000 * low + 1) * (2 * n) = 20000 * (n * low) + 2 * n /\ n * low \in Int
    BY <1>1, <1>4
  <2> QED
    BY <1>1, <1>8, <2>1, <2>2, <2>3
<1>10. Over \cap Under = {}
  <2> SUFFICES ASSUME NEW o \in Over, o \in Under PROVE FALSE
    OBVIOUS
  <2>1. o \in D /\ prep[o] \in Nat /\ prep[o] <= low /\ n * prep[o] > t
    OBVIOUS
  <2>2. n * prep[o] <= n * low
    BY <1>1, <1>4, <2>1
  <2>3. n * prep[o] \in Int /\ n * low \in Int
    BY <1>1, <1>4, <2>1
  <2> QED
    BY <1>1, <1>9, <2>1, <2>2, <2>3
<1> HIDE DEF Over, Under
<1>11. Cardinality(Over) + Cardinality(Under) <= n
  <2>1. Cardinality(Over \cup Under) = Cardinality(Over) + Cardinality(Under) - Cardinality(Over \cap Under)
    BY <1>7, FS_Union
  <2>2. Cardinality(Over \cap Under) = 0
    BY <1>10, FS_EmptySet
  <2>3. Over \cup Under \subseteq D
    BY <1>7
  <2>4. Cardinality(Over \cup Under) <= n
    BY <2>3, FS_Subset DEF n
  <2> QED
    BY <1>7, <2>1, <2>2, <2>4
<1>12. 10 * Cardinality(Over) <= n + 8
  BY <1>1, <1>2, <1>4, <1>7, <1>11
<1> QED
  BY <1>12 DEF Over, n, t

-----------------------------------------------------------------------------
(* The report of a day. *)

\* Menus push combinations only on a day with few of them.
LEMMA BoostIsForFew ==
    ASSUME NEW day \in Days, NEW m, m.breach \in Int \cup {None},
           m.combo = Conversion(day, day).combo, m.upsell = Conversion(day, day).upsell,
           Mode(m) = "boost_combos"
    PROVE  Few(Combos(day), Sold(day), 30) \/ Few(ComboItems(day), Items(day), 15)
<1> DEFINE s == Cardinality(Sold(day))
           k == Cardinality(Combos(day))
           w == Cardinality(Items(day))
           p == Cardinality(ComboItems(day))
           r == Rate(Combos(day), Sold(day))
           u == Rate(ComboItems(day), Items(day))
<1>1. Below(m.combo, 3000) \/ Below(m.upsell, 1500)
  BY ModeFacts
<1>2. /\ IsFiniteSet(Sold(day)) /\ Combos(day) \subseteq Sold(day) /\ s \in Nat /\ k \in Nat
      /\ IsFiniteSet(Items(day)) /\ ComboItems(day) \subseteq Items(day) /\ w \in Nat /\ p \in Nat
  BY DayFacts, SoldFacts, PartFacts
<1>3. CASE Below(m.combo, 3000)
  <2>1. Sold(day) # {} /\ r < 3000
    BY <1>3, DayFacts, ConversionFacts DEF Below
  <2>2. r \in Int /\ (r >= 3000 <=> AtLeast(Combos(day), Sold(day), 3000))
    BY <1>2, <2>1, RateAtLeast
  <2>3. AtLeast(Combos(day), Sold(day), 3000) <=> 20000 * k + s >= 3000 * (2 * s)
    BY DEF AtLeast
  <2> HIDE DEF r, s, k
  <2>4. 100 * k < 30 * s
    BY <1>2, <2>1, <2>2, <2>3
  <2> QED
    BY <2>4 DEF Few, s, k
<1>4. CASE Below(m.upsell, 1500)
  <2>1. m.upsell = Valid(u, w, CONVERSION_MIN_ORDERS)
    BY DEF Conversion
  <2>2. CONVERSION_MIN_ORDERS \in Nat
    BY DEF CONVERSION_MIN_ORDERS
  <2>3. u < 1500 /\ Items(day) # {}
    <3>1. m.upsell = u /\ w # 0 /\ u < 1500
      <4> HIDE DEF u, w
      <4> QED
        BY <1>2, <1>4, <2>1, <2>2, ValidFacts DEF Below
    <3> QED
      BY <3>1, FS_EmptySet
  <2>4. u \in Int /\ (u >= 1500 <=> AtLeast(ComboItems(day), Items(day), 1500))
    BY <1>2, <2>3, RateAtLeast
  <2>5. AtLeast(ComboItems(day), Items(day), 1500) <=> 20000 * p + w >= 1500 * (2 * w)
    BY DEF AtLeast
  <2> HIDE DEF u, w, p
  <2>6. 100 * p < 15 * w
    BY <1>2, <2>3, <2>4, <2>5
  <2> QED
    BY <2>6 DEF Few, w, p
<1> QED
  BY <1>1, <1>3, <1>4

\* The kitchen's figures of a few orders, against the limits of the mode.
LEMMA KitchenFacts ==
    ASSUME NEW prep \in Preps
    PROVE  LET kitchen == KitchenMetrics(prep)
               n == Cardinality(DOMAIN prep)
               late == {o \in DOMAIN prep : prep[o] > 10}
           IN  /\ kitchen.breach \in Int \cup {None}
               /\ n >= KITCHEN_MIN_ORDERS /\ ~Above(kitchen.breach, 2000) => 5 * Cardinality(late) <= n
               /\ n >= KITCHEN_MIN_ORDERS /\ ~Above(kitchen.prep, 90000) =>
                     Total(prep, DOMAIN prep) <= 9 * n
               /\ kitchen.prep # None /\ kitchen.p90 # None =>
                     /\ kitchen.prep = Mean(prep, DOMAIN prep) /\ kitchen.p90 = P90(prep)
                     /\ n >= P90_MIN_ORDERS
<1> DEFINE D == DOMAIN prep
           n == Cardinality(D)
           late == {o \in D : prep[o] > 10}
           l == Cardinality(late)
           t == Total(prep, D)
           rate == Rate(late, D)
           mean == Mean(prep, D)
           kitchen == KitchenMetrics(prep)
<1>1. IsFiniteSet(D) /\ n \in 2 .. 11 /\ n \in Nat
  BY PrepFacts
<1>2. D # {} /\ late \subseteq D /\ l \in Nat /\ t \in Nat
  <2>1. D # {}
    BY <1>1, FS_EmptySet
  <2>2. late \subseteq D
    OBVIOUS
  <2> QED
    BY <1>1, <2>1, <2>2, FS_Subset, FS_CardinalityType, TotalType
<1>3. rate \in Int /\ (rate >= 2001 <=> 20000 * l + n >= 2001 * (2 * n))
  <2> HIDE DEF D
  <2>1. rate \in Int /\ (rate >= 2001 <=> AtLeast(late, D, 2001))
    BY <1>1, <1>2, RateAtLeast
  <2> QED
    BY <2>1 DEF AtLeast
<1>4. mean \in Int /\ (mean >= 90001 <=> 20000 * t + n >= 90001 * (2 * n))
  BY <1>1, <1>2, MeanBound
<1>5. /\ kitchen.breach = Valid(rate, n, KITCHEN_MIN_ORDERS)
      /\ kitchen.prep = Valid(mean, n, KITCHEN_MIN_ORDERS)
      /\ kitchen.p90 = Valid(P90(prep), n, P90_MIN_ORDERS)
  BY DEF KitchenMetrics
<1>6. KITCHEN_MIN_ORDERS = 3 /\ P90_MIN_ORDERS = 10
  BY DEF KITCHEN_MIN_ORDERS, P90_MIN_ORDERS
<1> HIDE DEF D, n, l, t, rate, mean, kitchen, late
<1>7. n >= 3 => kitchen.breach = rate /\ kitchen.prep = mean
  BY <1>1, <1>5, <1>6 DEF Valid, Quality
<1>8. kitchen.breach \in Int \cup {None}
  BY <1>1, <1>3, <1>5, <1>6, ValidFacts
<1>9. ASSUME n >= 3, ~Above(kitchen.breach, 2000)
      PROVE  5 * l <= n
  <2>1. ~(rate > 2000)
    BY <1>3, <1>7, <1>9, NoneIsNoFigure DEF Above
  <2> QED
    BY <1>1, <1>2, <1>3, <2>1
<1>10. ASSUME n >= 3, ~Above(kitchen.prep, 90000)
       PROVE  t <= 9 * n
  <2>1. ~(mean > 90000)
    BY <1>4, <1>7, <1>10, NoneIsNoFigure DEF Above
  <2> QED
    BY <1>1, <1>2, <1>4, <2>1
<1>11. ASSUME kitchen.prep # None, kitchen.p90 # None
       PROVE  kitchen.prep = mean /\ kitchen.p90 = P90(prep) /\ n >= P90_MIN_ORDERS
  BY <1>1, <1>5, <1>6, <1>11, ValidFacts
<1> QED
  BY <1>6, <1>8, <1>9, <1>10, <1>11 DEF D, n, l, t, mean, kitchen, late

\* One mean less than half of another, of few orders: so are the sums, or just half.
LEMMA HalfTheMean ==
    ASSUME NEW f, NEW S, IsFiniteSet(S), S # {}, NEW R, IsFiniteSet(R), R # {},
           Cardinality(S) <= 13, Cardinality(R) <= 13,
           2 * Mean(f, S) < Mean(f, R)
    PROVE  2 * Total(f, S) * Cardinality(R) <= Total(f, R) * Cardinality(S)
<1> DEFINE a == Cardinality(S)
           b == Cardinality(R)
           x == Mean(f, S)
           y == Mean(f, R)
           s == Total(f, S)
           r == Total(f, R)
<1>1. a \in Nat /\ b \in Nat /\ s \in Nat /\ r \in Nat
  BY FS_CardinalityType, TotalType
<1>2. x \in Nat /\ y \in Nat
  BY MeanType
<1>3. x + 1 \in Int /\ y \in Int
  <2> HIDE DEF x, y
  <2> QED
    BY <1>2
<1>4. x >= x + 1 <=> 20000 * s + a >= (x + 1) * (2 * a)
  <2> DEFINE z == x + 1
  <2>1. z \in Int
    BY <1>3
  <2> HIDE DEF z
  <2>2. x >= z <=> 20000 * s + a >= z * (2 * a)
    BY <2>1, MeanBound
  <2> QED
    BY <2>2 DEF z
<1>5. y >= y <=> 20000 * r + b >= y * (2 * b)
  <2> DEFINE z == y
  <2>1. z \in Int
    BY <1>3
  <2> HIDE DEF z
  <2>2. y >= z <=> 20000 * r + b >= z * (2 * b)
    BY <2>1, MeanBound
  <2> QED
    BY <2>2 DEF z
<1>6. a <= 13 /\ b <= 13 /\ 2 * x < y
  OBVIOUS
<1> HIDE DEF a, b, x, y, s, r
<1>7. 20000 * s + a < (x + 1) * (2 * a) /\ 20000 * r + b >= y * (2 * b)
  <2>1. ~(x >= x + 1) /\ y >= y
    BY <1>2
  <2>2. 20000 * s + a \in Int /\ (x + 1) * (2 * a) \in Int
    BY <1>1, <1>2
  <2> QED
    BY <1>4, <1>5, <2>1, <2>2
<1> DEFINE ab == a * b
           sb == s * b
           ra == r * a
           xab == x * ab
           yab == y * ab
<1>8. ab \in Nat /\ sb \in Nat /\ ra \in Nat /\ xab \in Nat /\ yab \in Nat
  BY <1>1, <1>2
<1>9. ab <= 169
  <2>1. ab <= 13 * b
    BY <1>1, <1>6
  <2> QED
    BY <1>1, <1>6, <2>1
<1>10. 40000 * sb + 2 * ab <= 4 * xab + 4 * ab
  <2>1. (20000 * s + a) * (2 * b) <= ((x + 1) * (2 * a)) * (2 * b)
    BY <1>1, <1>2, <1>7
  <2> QED
    BY <1>1, <1>2, <2>1
<1>11. 20000 * ra + ab >= 2 * yab
  <2>1. (20000 * r + b) * a >= (y * (2 * b)) * a
    BY <1>1, <1>2, <1>7
  <2> QED
    BY <1>1, <1>2, <2>1
<1>12. yab >= 2 * xab + ab
  <2>1. y >= 2 * x + 1
    BY <1>2, <1>6
  <2>2. y * ab >= (2 * x + 1) * ab
    BY <1>2, <1>8, <2>1
  <2> QED
    BY <1>2, <1>8, <2>2
<1>13. 2 * s * b = 2 * sb
  BY <1>1
<1> HIDE DEF ab, sb, ra, xab, yab
<1>14. 2 * sb <= ra
  BY <1>8, <1>9, <1>10, <1>11, <1>12
<1> QED
  BY <1>13, <1>14 DEF ra, s, r, a, b

LEMMA TrendsDoTellTheDay == TrendsTellTheDay
<1>1. ASSUME NEW day \in Days, NEW before \in Days
      PROVE  LET figures == Conversion(day, before)
                 combos(d) == Cardinality(Combos(d))
             IN  /\ figures.combo # None => Cardinality(Sold(day)) >= CONVERSION_MIN_ORDERS
                 /\ figures.comboTrend = "up" => combos(day) * OrdersOf(before) > combos(before) * OrdersOf(day)
                 /\ figures.comboTrend = "down" => combos(day) * OrdersOf(before) < combos(before) * OrdersOf(day)
                 /\ figures.aovWithoutTrend = "up" => Sold(day) # Combos(day)
  BY DayFacts, ConversionFacts
<1> QED
  BY <1>1 DEF TrendsTellTheDay, OrdersOf

LEMMA ReportDoesTellTheDay == ReportTellsTheDay
<1> SUFFICES ASSUME NEW day \in Days, NEW prep \in Preps
             PROVE  LET report == DailyMetrics(day, day, prep, <<>>)
                        rest == Sold(day) \ Combos(day)
                        n == Cardinality(DOMAIN prep)
                        minutes == Total(prep, DOMAIN prep)
                        spent(S) == Total(OrderTotals(day), S)
                    IN  /\ ComboBoost(Mode(report)) > 10 =>
                              /\ Few(Combos(day), Sold(day), 30) \/ Few(ComboItems(day), Items(day), 15)
                              /\ n >= KITCHEN_MIN_ORDERS =>
                                    /\ 5 * Cardinality({o \in DOMAIN prep : prep[o] > 10}) <= n
                                    /\ minutes <= 9 * n
                        /\ report.errors \subseteq {"aov", "p90"}
                        /\ "aov" \in report.errors =>
                              /\ Cardinality(Combos(day)) >= CONVERSION_MIN_ORDERS
                              /\ Cardinality(rest) >= CONVERSION_MIN_ORDERS
                              /\ 2 * spent(Combos(day)) * Cardinality(rest) <= spent(rest) * Cardinality(Combos(day))
                        /\ "p90" \in report.errors =>
                              /\ n >= P90_MIN_ORDERS
                              /\ 10 * Cardinality({o \in DOMAIN prep : n * prep[o] > minutes}) <= n + 8
  BY DEF ReportTellsTheDay
<1> DEFINE figures == Conversion(day, day)
           kitchen == KitchenMetrics(prep)
           report  == DailyMetrics(day, day, prep, <<>>)
           rest == Sold(day) \ Combos(day)
           n == Cardinality(DOMAIN prep)
           minutes == Total(prep, DOMAIN prep)
           spent(S) == Total(OrderTotals(day), S)
           a == Cardinality(Combos(day))
           b == Cardinality(rest)
           with == Mean(OrderTotals(day), Combos(day))
           without == Mean(OrderTotals(day), rest)
<1>1. /\ report.combo = figures.combo /\ report.upsell = figures.upsell
      /\ report.breach = kitchen.breach /\ report.prep = kitchen.prep
      /\ report.errors = ConsistencyErrors(figures, kitchen, RevenueProtection(<<>>))
  BY DEF DailyMetrics
<1>2. /\ figures.comboRate = Rate(Combos(day), Sold(day))
      /\ figures.upsellRate = Rate(ComboItems(day), Items(day))
      /\ figures.aovWith = Valid(with, a, CONVERSION_MIN_ORDERS)
      /\ figures.aovWithout = Valid(without, b, CONVERSION_MIN_ORDERS)
  BY DEF Conversion
<1>3. /\ IsFiniteSet(Sold(day)) /\ IsFiniteSet(Combos(day)) /\ Combos(day) \subseteq Sold(day)
      /\ IsFiniteSet(Items(day)) /\ ComboItems(day) \subseteq Items(day)
      /\ IsFiniteSet(rest) /\ a \in Nat /\ b \in Nat /\ a <= 13 /\ b <= 13
  <2>1. Sold(day) \subseteq DOMAIN day /\ rest \subseteq DOMAIN day
    BY DEF Sold
  <2>2. Combos(day) \subseteq DOMAIN day
    BY <2>1 DEF Combos
  <2> QED
    BY <2>1, <2>2, DayFacts, SoldFacts, FS_Subset, FS_CardinalityType
<1>4. figures.comboRate \in Rates /\ figures.upsellRate \in Rates
  BY <1>2, <1>3, RateType
<1>5. LET protection == RevenueProtection(<<>>)
      IN  protection.good + protection.partial + protection.failed = protection.resolved
  <2> DEFINE rows == <<>>
  <2>1. DOMAIN rows = {}
    OBVIOUS
  <2> HIDE DEF rows
  <2>2. IsFiniteSet(DOMAIN rows) /\ \A d \in DOMAIN rows : rows[d].quality \in {"none", "good", "partial", "failed"}
    BY <2>1, FS_EmptySet
  <2>3. RevenueProtection(rows).good + RevenueProtection(rows).partial + RevenueProtection(rows).failed
           = RevenueProtection(rows).resolved
    BY <2>2, ProtectionFacts
  <2> QED
    BY <2>3 DEF rows
<1>6. CONVERSION_MIN_ORDERS = 5 /\ P90_MIN_ORDERS \in Nat
  BY DEF CONVERSION_MIN_ORDERS, P90_MIN_ORDERS
<1>7. /\ kitchen.breach \in Int \cup {None}
      /\ n >= KITCHEN_MIN_ORDERS /\ ~Above(kitchen.breach, 2000) =>
            5 * Cardinality({o \in DOMAIN prep : prep[o] > 10}) <= n
      /\ n >= KITCHEN_MIN_ORDERS /\ ~Above(kitchen.prep, 90000) => minutes <= 9 * n
      /\ kitchen.prep # None /\ kitchen.p90 # None =>
            /\ kitchen.prep = Mean(prep, DOMAIN prep) /\ kitchen.p90 = P90(prep)
            /\ n >= P90_MIN_ORDERS
  BY KitchenFacts
<1> HIDE DEF figures, kitchen, report
<1>8. /\ report.errors \subseteq {"aov", "p90"}
      /\ "aov" \in report.errors => /\ figures.aovWith # None /\ figures.aovWithout # None
                                    /\ 2 * figures.aovWith < figures.aovWithout
      /\ "p90" \in report.errors => /\ kitchen.prep # None /\ kitchen.p90 # None
                                    /\ kitchen.p90 < kitchen.prep
  BY <1>1, <1>4, <1>5, ErrorFacts
<1>9. ASSUME ComboBoost(Mode(report)) > 10
      PROVE  /\ Few(Combos(day), Sold(day), 30) \/ Few(ComboItems(day), Items(day), 15)
             /\ n >= KITCHEN_MIN_ORDERS =>
                   /\ 5 * Cardinality({o \in DOMAIN prep : prep[o] > 10}) <= n
                   /\ minutes <= 9 * n
  <2>1. Mode(report) = "boost_combos"
    BY <1>9 DEF ComboBoost
  <2>2. report.breach \in Int \cup {None}
    BY <1>1, <1>7
  <2>3. ~Above(kitchen.breach, 2000) /\ ~Above(kitchen.prep, 90000)
    BY <1>1, <2>1, <2>2, ModeFacts
  <2>4. Few(Combos(day), Sold(day), 30) \/ Few(ComboItems(day), Items(day), 15)
    BY <1>1, <2>1, <2>2, BoostIsForFew DEF figures
  <2> QED
    BY <1>7, <2>3, <2>4
<1>10. ASSUME "aov" \in report.errors
       PROVE  /\ a >= CONVERSION_MIN_ORDERS /\ b >= CONVERSION_MIN_ORDERS
              /\ 2 * spent(Combos(day)) * b <= spent(rest) * a
  <2>1. /\ figures.aovWith = with /\ a # 0 /\ a >= CONVERSION_MIN_ORDERS
        /\ figures.aovWithout = without /\ b # 0 /\ b >= CONVERSION_MIN_ORDERS
    <3> HIDE DEF a, b, with, without
    <3> QED
      BY <1>2, <1>3, <1>6, <1>8, <1>10, ValidFacts
  <2>2. 2 * with < without
    BY <1>8, <1>10, <2>1
  <2>3. Combos(day) # {} /\ rest # {}
    BY <2>1, FS_EmptySet
  <2>4. 2 * Total(OrderTotals(day), Combos(day)) * b <= Total(OrderTotals(day), rest) * a
    <3> HIDE DEF rest
    <3> QED
      BY <1>3, <2>2, <2>3, HalfTheMean
  <2> QED
    BY <2>1, <2>4
<1>11. ASSUME "p90" \in report.errors
       PROVE  /\ n >= P90_MIN_ORDERS
              /\ 10 * Cardinality({o \in DOMAIN prep : n * prep[o] > minutes}) <= n + 8
  <2>1. P90(prep) < Mean(prep, DOMAIN prep) /\ n >= P90_MIN_ORDERS
    BY <1>7, <1>8, <1>11
  <2>2. PICK c \in Nat : c = 90
    OBVIOUS
  <2>3. IsFiniteSet(DOMAIN prep) /\ n \in 2 .. 11 /\ \A o \in DOMAIN prep : prep[o] \in 0 .. c
    BY <2>2, PrepFacts
  <2>4. DOMAIN prep # {}
    BY <2>3, FS_EmptySet
  <2> QED
    BY <2>1, <2>3, <2>4, PercentileFacts
<1> QED
  BY <1>8, <1>9, <1>10, <1>11 DEF report

LEMMA FiguresDoTellTheDay == FiguresTellTheDay
BY TrendsDoTellTheDay, ReportDoesTellTheDay DEF FiguresTellTheDay

\* At any moment, of any number of overlapping requests, the panel has rows
\* that tell when they were closed, signals in the order of their urgency that
\* agree with the guests' menu, and figures of the day they are about
\* (decision_engine.py, metrics_service.py, operational_context_service.py).
THEOREM PanelIsAlwaysSound == FeedSpec => []PanelIsSound
<1>1. FeedInv => FeedTypeOK
  BY DEF FeedInv
<1>2. FeedTypeOK /\ RowsTellWhen => PanelIsSound
  BY RanksByUrgency, ContextMatches, FiguresDoTellTheDay, OutcomesDoAddUp DEF PanelIsSound
<1>3. FeedSpec => []FeedInv
  BY PanelIsInOrder
<1>4. FeedSpec => []RowsTellWhen
  BY ClosedRowsTellWhen
<1> QED
  BY <1>1, <1>2, <1>3, <1>4, PTL

=============================================================================
