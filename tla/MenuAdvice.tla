----------------------------- MODULE MenuAdvice ------------------------------
(***************************************************************************)
(* What a guest is shown and advised: the ranked menu of a branch, what    *)
(* goes well together, what to add, what to take instead of what is gone.  *)
(*                                                                         *)
(*   apps/api/app/services/conversion_engine.py  badges, ranking, advice   *)
(*   apps/api/app/services/menu_service.py       get_menu                  *)
(*   apps/api/app/routers/public_menu.py         upsell, validate          *)
(*                                                                         *)
(* A catalog maps ids to [price, cost, category, active, promoted], where  *)
(* the cost is of a portion and may be NotSet; a shelf maps the ids a      *)
(* branch stocks to [available, reorder]; sold is the sequence of the      *)
(* items ordered lately, each a set of ids, in every branch.               *)
(* The code looks back 7 days for use and 30 for combinations.             *)
(* Prices are whole; a score is the code's times the largest use and the   *)
(* largest price, which keeps it whole.                                    *)
(***************************************************************************)
EXTENDS OwnerSignals, ShelfStatus, SequencesExt

MAX_RECOMMENDATIONS == 3
Categories == {"fruit", "nuts", "sauce"}

\* At least one, so that it can be divided by.
Largest(values) == Max(values \cup {1})

Ranked(ids, better(_, _)) == SetToSortSeq(ids, better)

AtMostFirst(seq, n) == SubSeq(seq, 1, Smaller(n, Len(seq)))

-----------------------------------------------------------------------------
(* What sells *)

UsageCounts(sold) ==
    [i \in UNION {sold[n] : n \in DOMAIN sold} |-> Cardinality({n \in DOMAIN sold : i \in sold[n]})]

Usage(sold, i) == IF i \in DOMAIN UsageCounts(sold) THEN UsageCounts(sold)[i] ELSE 0

Together(sold, i, j) == Cardinality({n \in DOMAIN sold : {i, j} \subseteq sold[n]})

HasCombos(sold, i) == \E n \in DOMAIN sold : i \in sold[n] /\ Cardinality(sold[n]) > 1

\* The count at the 80th percentile of what was sold at all, rounded down.
PopularThreshold(sold) ==
    LET counts == SetToSortSeq(DOMAIN UsageCounts(sold),
                               LAMBDA i, j : \/ Usage(sold, i) < Usage(sold, j)
                                             \/ Usage(sold, i) = Usage(sold, j) /\ i < j)
    IN  IF counts = <<>> THEN 1 ELSE Usage(sold, counts[Max({1, (4 * Len(counts)) \div 5})])

PopularBadge(sold, i) == Usage(sold, i) >= PopularThreshold(sold) /\ PopularThreshold(sold) > 0

PROFITABLE_MARGIN_THRESHOLD == 40      \* per cent of the price

\* A margin needs a cost and a price to divide by.
Costed(item) == item.cost # NotSet /\ item.price # 0

\* The price at the 75th percentile, rounded down.
Price75(catalog, ids) ==
    LET cheaper == SetToSortSeq(ids, LAMBDA a, b : \/ catalog[a].price < catalog[b].price
                                                   \/ catalog[a].price = catalog[b].price /\ a < b)
    IN  catalog[cheaper[Max({1, (3 * Len(cheaper)) \div 4})]].price

\* A margin decides where there is one; elsewhere the most expensive quarter
\* counts as the profitable one.
ProfitableBadge(catalog, ids, i) ==
    IF Costed(catalog[i])
    THEN 100 * (catalog[i].price - catalog[i].cost) >= PROFITABLE_MARGIN_THRESHOLD * catalog[i].price
    ELSE catalog[i].price >= Price75(catalog, ids)

-----------------------------------------------------------------------------
(* The menu *)

OnSale(catalog) == {i \in DOMAIN catalog : catalog[i].active}

\* A mutant: what is on the shelf is on the menu.
StatusIfStocked(shelf, i) == IF i \in DOMAIN shelf THEN "in_stock" ELSE "out_of_stock"

StatusOf(shelf, i) ==
    IF i \in DOMAIN shelf THEN StockStatus(shelf[i].available, shelf[i].reorder) ELSE "out_of_stock"

InStock(catalog, shelf) == {i \in OnSale(catalog) : StatusOf(shelf, i) = "in_stock"}

\* In hundredths and tenths: 1000 promoted, 50 popularity, 30 price, 20 stock.
RankingScore(catalog, shelf, sold, boost, i) ==
    LET use   == Largest({Usage(sold, j) : j \in DOMAIN UsageCounts(sold)})
        price == Largest({catalog[j].price : j \in OnSale(catalog)})
        stock == CASE StatusOf(shelf, i) = "in_stock"  -> 20
                   [] StatusOf(shelf, i) = "low_stock" -> 10
                   [] OTHER -> 0
        promoted == IF catalog[i].promoted THEN 1000 ELSE 0
    IN  10 * use * price * (promoted + stock)
            + 50 * Usage(sold, i) * price * (IF HasCombos(sold, i) THEN boost ELSE 10)
            + 300 * catalog[i].price * use

Menu(catalog, shelf, sold, boost) ==
    LET Score(i) == RankingScore(catalog, shelf, sold, boost, i)
    IN  Ranked(OnSale(catalog), LAMBDA i, j : Score(i) > Score(j) \/ (Score(i) = Score(j) /\ i < j))

\* The order of the menu within each category.
Section(menu, catalog, category) == SelectSeq(menu, LAMBDA i : catalog[i].category = category)

Recommendations(catalog, shelf, sold, i) ==
    LET Often(j) == Together(sold, i, j)
        others == {j \in InStock(catalog, shelf) \ {i} : Often(j) > 0}
    IN  AtMostFirst(Ranked(others, LAMBDA a, b : Often(a) > Often(b) \/ (Often(a) = Often(b) /\ a < b)),
                    MAX_RECOMMENDATIONS)

\* The nearest price of the same category, or nothing.
Alternative(catalog, shelf, i) ==
    LET Distance(j) == IF catalog[j].price > catalog[i].price THEN catalog[j].price - catalog[i].price
                       ELSE catalog[i].price - catalog[j].price
        others == {j \in InStock(catalog, shelf) \ {i} : catalog[j].category = catalog[i].category}
    IN  AtMostFirst(Ranked(others, LAMBDA a, b : \/ Distance(a) < Distance(b)
                                                 \/ Distance(a) = Distance(b) /\ a < b), 1)

-----------------------------------------------------------------------------
(* Advice on a selection: a list, in which one id may stand twice *)

Suggestible(catalog, shelf, sold, chosen) ==
    {j \in InStock(catalog, shelf) \ Range(chosen) :
        \E n \in DOMAIN chosen : Together(sold, chosen[n], j) > 0}

Upsell(catalog, shelf, sold, mode, chosen) ==
    LET dearest == Largest({catalog[j].price : j \in OnSale(catalog)})
        Score(j) == MapThenSumSet(LAMBDA n : Together(sold, chosen[n], j) * (dearest + catalog[j].price),
                                  DOMAIN chosen)
    IN  AtMostFirst(Ranked(Suggestible(catalog, shelf, sold, chosen),
                           LAMBDA a, b : Score(a) > Score(b) \/ (Score(a) = Score(b) /\ a < b)),
                    MaxUpsell(mode))

\* Low stock is kept. What the catalog does not sell any more is "not_found".
Validate(catalog, shelf, chosen) ==
    LET unknown == Range(chosen) \ OnSale(catalog)
        gone == {i \in Range(chosen) \ unknown : StatusOf(shelf, i) = "out_of_stock"}
    IN  [valid   |-> SelectSeq(chosen, LAMBDA i : i \notin unknown \cup gone),
         unknown |-> unknown,
         instead |-> [i \in gone |-> Alternative(catalog, shelf, i)],
         delta   |-> -MapThenSumSet(LAMBDA n : IF chosen[n] \in gone THEN catalog[chosen[n]].price ELSE 0,
                                    DOMAIN chosen)]

-----------------------------------------------------------------------------
(* A property, over bounded inputs *)

Catalogs ==
    {[i \in 1 .. 3 |-> [price |-> 2 * i, cost |-> NotSet, category |-> category[i],
                       active |-> i \in active, promoted |-> i = promoted]] :
        category \in {<<"fruit", "fruit", "fruit">>, <<"fruit", "fruit", "nuts">>},
        active \in SUBSET (1 .. 3) \ {{}}, promoted \in 0 .. 1}

\* Margins of 80, 50 and exactly 40 per cent, losses, and what has no margin.
PricedCatalogs ==
    [1 .. 3 -> {[price |-> price, cost |-> cost, category |-> "nuts", active |-> TRUE, promoted |-> FALSE] :
                   price \in {0, 4, 10}, cost \in {NotSet, 2, 6}}]

Shelves ==
    LET of == {NotSet, [available |-> 0, reorder |-> 2], [available |-> 3, reorder |-> 2],
               [available |-> 9, reorder |-> 2]}
    IN  {[i \in {j \in 1 .. 3 : stock[j] # NotSet} |-> stock[i]] : stock \in [1 .. 3 -> of]}

Histories == {<<>>, <<{1, 2}, {2, 3}, {1, 2, 3}, {3}>>, <<{1, 3}, {2}, {2}>>}

\* Plainly in stock: half as much again as the reorder level of every shelf.
Plenty(catalog, shelf) == {i \in OnSale(catalog) \cap DOMAIN shelf : shelf[i].available > 3}

Accepted(catalog, shelf, basket) == Validate(catalog, shelf, basket).valid = basket

\* Whatever is suggested, or offered in place of what is gone, is on this
\* branch's shelf, is new to the selection, and passes the validation of the
\* basket it is put into (compute_upsell, validate_ingredient_selection).
SuggestionsCanBeOrdered ==
    \A catalog \in Catalogs, shelf \in Shelves, sold \in Histories,
       chosen \in {<<1>>, <<2, 2>>, <<3, 1>>}, mode \in {"normal", "sla_critical"} :
        LET more    == Upsell(catalog, shelf, sold, mode, chosen)
            checked == Validate(catalog, shelf, chosen)
            swapped == checked.valid \o FlattenSeq(SetToSeq(Range(checked.instead)))
        IN  /\ Range(more) \subseteq Plenty(catalog, shelf) \ Range(chosen)
            /\ Len(more) <= MaxUpsell(mode)
            /\ Accepted(catalog, shelf, swapped \o more)
            /\ \A i \in DOMAIN checked.instead :
                  Range(checked.instead[i]) \subseteq Plenty(catalog, shelf) \ {i}
            /\ checked.delta = 0 <=> checked.instead = <<>>

\* The menu says gone of what the validation refuses, and recommends nothing
\* of the kind (enrich_menu, validate_ingredient_selection).
MenuAgreesWithValidation ==
    \A catalog \in Catalogs, shelf \in Shelves, sold \in Histories : \A i \in OnSale(catalog) :
        /\ Range(Recommendations(catalog, shelf, sold, i)) \subseteq Plenty(catalog, shelf) \ {i}
        /\ Accepted(catalog, shelf, <<i>>) <=> StatusOf(shelf, i) # "out_of_stock"

\* A promoted item stands first on the menu and in its section whatever the
\* boost, and the boost moves nothing that never sells in combination. Nothing
\* is popular that sells less than what is not, and nothing that never sold
\* (_ranking_score, _popular_threshold, get_menu).
MenuRanksWhatSells ==
    \A catalog \in Catalogs, shelf \in Shelves, sold \in Histories :
        LET plain   == Menu(catalog, shelf, sold, 10)
            boosted == Menu(catalog, shelf, sold, 16)
            Alone(i) == ~HasCombos(sold, i)
            sections == {Section(plain, catalog, category) : category \in Categories}
        IN  /\ \A list \in {plain, boosted} \cup sections :
                  (\E i \in Range(list) : catalog[i].promoted) => catalog[list[1]].promoted
            /\ UNION {Range(section) : section \in sections} = Range(plain)
            /\ SelectSeq(plain, Alone) = SelectSeq(boosted, Alone)
            /\ \A i, j \in OnSale(catalog) :
                  /\ PopularBadge(sold, i) => Usage(sold, i) > 0
                  /\ PopularBadge(sold, i) /\ ~PopularBadge(sold, j) => Usage(sold, i) > Usage(sold, j)

\* Of two ingredients with a margin the badge goes to the better one, of two
\* without to the dearer one, and one of each kind does not compare: a dear one
\* may lose the badge a cheaper one has. Nothing sold at a loss has a badge, and
\* the dearest has one unless its margin says otherwise (_profitable_badge).
BadgesTellProfit ==
    \A catalog \in PricedCatalogs :
        LET ids == OnSale(catalog)
            Badge(i) == ProfitableBadge(catalog, ids, i)
            Profit(i) == catalog[i].price - catalog[i].cost
        IN  \A i \in ids :
              /\ Costed(catalog[i]) /\ Badge(i) => Profit(i) > 0
              /\ ~Costed(catalog[i]) /\ (\A j \in ids : catalog[j].price <= catalog[i].price) => Badge(i)
              /\ \A j \in ids : Badge(i) /\ ~Badge(j) =>
                    /\ Costed(catalog[i]) /\ Costed(catalog[j]) =>
                          Profit(i) * catalog[j].price > Profit(j) * catalog[i].price
                    /\ ~Costed(catalog[i]) /\ ~Costed(catalog[j]) => catalog[i].price > catalog[j].price

AdviceIsSound ==
    SuggestionsCanBeOrdered /\ MenuAgreesWithValidation /\ MenuRanksWhatSells /\ BadgesTellProfit

=============================================================================
