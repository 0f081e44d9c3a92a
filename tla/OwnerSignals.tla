----------------------------- MODULE OwnerSignals ----------------------------
(***************************************************************************)
(* The figures behind the owner's panel: signals and their scores, the     *)
(* day's metrics and the operating mode of a branch.                       *)
(*                                                                         *)
(*   apps/api/app/services/decision_engine.py              signals, scores *)
(*   apps/api/app/services/metrics_service.py              metrics         *)
(*   apps/api/app/services/operational_context_service.py  mode            *)
(*                                                                         *)
(* Scores and hours are in tenths, ratios in hundredths and the metrics of *)
(* a day (rates, minutes, money) in parts of ten thousand, which is what   *)
(* the code rounds them to.                                                *)
(***************************************************************************)
EXTENDS BoundedSums, FiniteSetsExt

CONSTANT None
ASSUME NoneIsNoFigure == None \notin Int /\ None \notin {"up", "flat", "down"}

\* The money and the minutes of a day, one order's at a time.
ASSUME FiguresFit == 90 <= Capacity

Smaller(a, b) == IF a < b THEN a ELSE b

\* The nearest whole number of a / b.
Rounded(a, b) == (2 * a + b) \div (2 * b)

Signal(id, severity, score) == [id |-> id, severity |-> severity, score |-> score]

BASE_SCORE  == [high |-> 1000, medium |-> 500, low |-> 200]
BLOCK_BONUS == 250

DecisionScore(severity, urgency, blocking) ==
    BASE_SCORE[severity] + urgency + IF blocking THEN BLOCK_BONUS ELSE 0

-----------------------------------------------------------------------------
(* Signals of the moment *)

\* What is left, against what a full day consumed of it: sooner is worse. The
\* severity is of the exact hours, the urgency of the rounded ones.
StockUrgency(tenths) ==
    CASE tenths = None -> 0
      [] tenths = 0    -> 300
      [] tenths \in 1 .. 59    -> (60 - tenths) * 5
      [] tenths \in 60 .. 119  -> (120 - tenths) * 2
      [] OTHER -> 0

StockRisk(available, reorder, velocity) ==
    LET tenths == CASE available <= 0 -> 0
                    [] available > 0 /\ velocity > 0 -> Rounded(10 * available, velocity)
                    [] OTHER -> None
        severity == CASE available <= 0 -> "high"
                      [] available > 0 /\ available < 6 * velocity -> "high"
                      [] available >= 6 * velocity /\ available < 12 * velocity -> "medium"
                      [] OTHER -> "low"
    IN  IF available > reorder THEN {}
        ELSE {Signal("stock_risk", severity,
                     DecisionScore(severity, StockUrgency(tenths), severity = "high"))}

SlowMoving(on_hand, reorder, consumed) ==
    IF on_hand > 0 /\ on_hand > reorder /\ ~consumed
    THEN {Signal("slow_moving", "medium", DecisionScore("medium", 0, FALSE))}
    ELSE {}

\* The last hour against the mean of the 23 before it.
DemandSpike(last, previous) ==
    IF last = 0 \/ previous = 0 \/ 2 * 23 * last < 3 * previous THEN {}
    ELSE LET severity == CASE 23 * last >= 3 * previous -> "high"
                           [] 23 * last < 3 * previous /\ 23 * last >= 2 * previous -> "medium"
                           [] OTHER -> "low"
             ratio == Rounded(2300 * last, previous)
         IN  {Signal("demand_spike_current", severity,
                     DecisionScore(severity, Smaller(ratio - 150, 250), severity # "low"))}

\* Ages, in minutes, of the orders the kitchen has not finished.
SlaRisk(ages) ==
    LET critical == {o \in DOMAIN ages : ages[o] >= 10}
        warning  == {o \in DOMAIN ages : ages[o] >= 7} \ critical
        severity == IF critical # {} THEN "high" ELSE "medium"
        urgency  == Smaller(50 * Cardinality(critical) + 20 * Cardinality(warning), 300)
    IN  IF critical \cup warning = {} THEN {}
        ELSE {Signal("sla_risk_current", severity,
                     DecisionScore(severity, urgency, severity = "high"))}

\* The severity is of the exact ratio, the urgency of the rounded one.
DropUrgency(last, previous) == IF Rounded(23000 * last, previous) < 350 THEN 150 ELSE 50

RevenueAnomaly(last, previous) ==
    LET rate == 100 * 23 * last
        severity == CASE rate < 35 * previous -> "high"
                      [] rate >= 35 * previous /\ rate < 60 * previous -> "medium"
                      [] OTHER -> "low"
        urgency == IF severity = "low" THEN 0 ELSE DropUrgency(last, previous)
    IN  IF previous < 23 \/ (60 * previous <= rate /\ rate <= 250 * previous) THEN {}
        ELSE {Signal("revenue_anomaly_current", severity,
                     DecisionScore(severity, urgency, severity = "high"))}

-----------------------------------------------------------------------------
(* Metrics of a day *)

CONVERSION_MIN_ORDERS == 5
KITCHEN_MIN_ORDERS    == 3
P90_MIN_ORDERS        == 10

Quality(sample, minimum) ==
    CASE sample = 0 -> "no_data"
      [] sample > 0 /\ sample < minimum -> "low_sample"
      [] OTHER -> "valid"

\* A figure that consumers may use, or None.
Valid(value, sample, minimum) == IF Quality(sample, minimum) = "valid" THEN value ELSE None

\* Change against the day before: bounded, and flat below one per cent.
PctChange(value, before) ==
    LET tenths == Rounded(1000 * (value - before), before) IN
    CASE tenths > 3000 -> 3000 [] tenths < -3000 -> -3000 [] OTHER -> tenths

Trend(value, before, sampleBefore) ==
    CASE sampleBefore = 0 -> None
      [] sampleBefore > 0 /\ before = 0 -> IF value > 0 THEN "up" ELSE "flat"
      [] OTHER -> LET pct == PctChange(value, before) IN
                  IF pct \in -9 .. 9 THEN "flat" ELSE IF pct > 0 THEN "up" ELSE "down"

\* An order of a day: its total and the number of ingredients of each item.
\* The query joins items to their ingredients; an item without any is not seen.
Sold(day)   == {o \in DOMAIN day : ~day[o].cancelled}
Items(day)  == {x \in UNION {{o} \X DOMAIN day[o].items : o \in Sold(day)} :
                    day[x[1]].items[x[2]] > 0}
Combos(day) == {o \in Sold(day) : \E i \in DOMAIN day[o].items : day[o].items[i] >= 2}
ComboItems(day) == {x \in Items(day) : day[x[1]].items[x[2]] >= 2}

Rate(part, whole) == IF whole = {} THEN 0 ELSE Rounded(10000 * Cardinality(part), Cardinality(whole))

Mean(f, S) == IF S = {} THEN 0 ELSE Rounded(10000 * Total(f, S), Cardinality(S))

OrderTotals(day) == [o \in DOMAIN day |-> day[o].total]

\* The mean total of the combo orders is compared with itself.
Conversion(day, before) ==
    LET rest(d) == Sold(d) \ Combos(d)
        comboRate  == Rate(Combos(day), Sold(day))
        upsellRate == Rate(ComboItems(day), Items(day))
        aovCombo   == Mean(OrderTotals(day), Combos(day))
        aovNoCombo == Mean(OrderTotals(day), rest(day)) IN
    [comboRate  |-> comboRate,
     upsellRate |-> upsellRate,
     combo   |-> Valid(comboRate, Cardinality(Sold(day)), CONVERSION_MIN_ORDERS),
     upsell  |-> Valid(upsellRate, Cardinality(Items(day)), CONVERSION_MIN_ORDERS),
     aovWith    |-> Valid(aovCombo, Cardinality(Combos(day)), CONVERSION_MIN_ORDERS),
     aovWithout |-> Valid(aovNoCombo, Cardinality(rest(day)), CONVERSION_MIN_ORDERS),
     comboTrend   |-> Trend(comboRate, Rate(Combos(before), Sold(before)), Cardinality(Sold(before))),
     aovWithTrend |-> Trend(aovCombo, aovCombo,
                            IF Combos(day) = {} THEN 0 ELSE Cardinality(Combos(before))),
     aovWithoutTrend |-> Trend(aovNoCombo, Mean(OrderTotals(before), rest(before)),
                            Cardinality(rest(before)))]

\* The rows of owner_decisions, by the times they have of the day. One that was
\* acknowledged and then closed counts twice as seen; a dismissed one has the
\* time of a completed one and counts as both.
DecisionMetrics(rows) ==
    LET acknowledged == {d \in DOMAIN rows : rows[d].acknowledged}
        completed    == {d \in DOMAIN rows : rows[d].done}
        dismissed    == {d \in DOMAIN rows : rows[d].status = "dismissed"}
        seen == Cardinality(acknowledged) + Cardinality(completed) + Cardinality(dismissed)
    IN  [seen |-> seen,
         completion |-> IF seen = 0 THEN None ELSE Rounded(10000 * Cardinality(completed), seen)]

\* The k-th of the minutes, from the shortest.
NthShortest(prep, k) == Min({v \in {prep[o] : o \in DOMAIN prep} :
                           Cardinality({o \in DOMAIN prep : prep[o] <= v}) >= k})

\* PERCENTILE_CONT(0.9): a tenth of the way at a time between two neighbours.
P90(prep) ==
    LET n == Cardinality(DOMAIN prep)
        k == (9 * (n - 1)) \div 10 + 1
        low  == NthShortest(prep, k)
        high == NthShortest(prep, Smaller(k + 1, n))
    IN  IF n = 0 THEN 0 ELSE 10000 * low + 1000 * ((9 * (n - 1)) % 10) * (high - low)

\* Minutes from order to first READY, of the orders that got there.
KitchenMetrics(prep) ==
    LET n == Cardinality(DOMAIN prep)
        late == {o \in DOMAIN prep : prep[o] > 10}
    IN  [breach |-> Valid(Rate(late, DOMAIN prep), n, KITCHEN_MIN_ORDERS),
         prep   |-> Valid(Mean(prep, DOMAIN prep), n, KITCHEN_MIN_ORDERS),
         p90    |-> Valid(P90(prep), n, P90_MIN_ORDERS)]

\* The stock warnings among the rows; "none" is a completion without a quality.
RevenueProtection(rows) ==
    LET completed == {d \in DOMAIN rows : rows[d].status = "completed" /\ rows[d].done}
        With(qualities) == {d \in completed : rows[d].quality \in qualities}
    IN  [triggered |-> Cardinality({d \in DOMAIN rows : rows[d].new}),
         resolved  |-> Cardinality(completed),
         saved     |-> Total([d \in DOMAIN rows |-> rows[d].saved], With({"good", "partial"})),
         good      |-> Cardinality(With({"good"})),
         partial   |-> Cardinality(With({"partial"})),
         failed    |-> Cardinality(With({"failed", "none"}))]

Rates == 0 .. 10000

\* The cross-group checks that append to the errors of a report. A rate is
\* looked at whatever its quality, a mean only when it is valid.
ConsistencyErrors(conversion, kitchen, protection) ==
    {e \in {"combo_usage_rate", "upsell_acceptance_rate", "aov", "p90", "outcomes"} :
        \/ e = "combo_usage_rate" /\ conversion.comboRate \notin Rates
        \/ e = "upsell_acceptance_rate" /\ conversion.upsellRate \notin Rates
        \/ /\ e = "aov"
           /\ conversion.comboRate > 0 /\ conversion.aovWith # None /\ conversion.aovWithout # None
           /\ 2 * conversion.aovWith < conversion.aovWithout
        \/ /\ e = "p90"
           /\ kitchen.prep # None /\ kitchen.p90 # None
           /\ kitchen.p90 < kitchen.prep
        \/ e = "outcomes" /\ protection.good + protection.partial + protection.failed # protection.resolved}

\* The report of a day, as far as signals and mode read it.
DailyMetrics(day, before, prep, rows) ==
    LET conversion == Conversion(day, before)
        kitchen    == KitchenMetrics(prep)
        decisions  == DecisionMetrics(rows)
    IN  [combo  |-> conversion.combo, upsell |-> conversion.upsell,
         breach |-> kitchen.breach, prep |-> kitchen.prep,
         seen   |-> decisions.seen, completion |-> decisions.completion,
         errors |-> ConsistencyErrors(conversion, kitchen, RevenueProtection(rows))]

-----------------------------------------------------------------------------
(* Signals of the day, and the operating mode: two files with the same limits *)

Below(value, limit) == value # None /\ value < limit
Above(value, limit) == value # None /\ value > limit

METRIC_SCORE_CAP == 800

MetricScore(score) == Smaller(score, METRIC_SCORE_CAP)

Fires(condition, signal) == IF condition THEN {signal} ELSE {}

ComboHealth(m) ==
    Fires(Below(m.combo, 3000), Signal("metric_combo_health", "medium", MetricScore(600)))

UpsellVisibility(m) ==
    Fires(Below(m.upsell, 1500), Signal("metric_upsell_visibility", "low", MetricScore(400)))

OwnerEngagement(m) ==
    Fires(m.seen >= 3 /\ Below(m.completion, 3000),
          Signal("metric_owner_engagement", "medium", MetricScore(550)))

KitchenPerformance(m) ==
    Fires(Above(m.breach, 2000), Signal("metric_kitchen_performance", "high", MetricScore(800)))

MetricDriven(m) == ComboHealth(m) \cup UpsellVisibility(m) \cup OwnerEngagement(m) \cup KitchenPerformance(m)

Mode(m) ==
    CASE Above(m.breach, 3500) -> "sla_critical"
      [] ~Above(m.breach, 3500) /\ (Above(m.breach, 2000) \/ Above(m.prep, 90000)) -> "high_kitchen_load"
      [] ~Above(m.breach, 2000) /\ ~Above(m.prep, 90000) /\ (Below(m.combo, 3000) \/ Below(m.upsell, 1500)) ->
             "boost_combos"
      [] OTHER -> "normal"

ComboBoost(mode) == IF mode = "boost_combos" THEN 16 ELSE 10
MaxUpsell(mode)  == IF mode \in {"sla_critical", "high_kitchen_load"} THEN 1 ELSE 3

-----------------------------------------------------------------------------
(* Properties, over bounded inputs *)

Ages == UNION {[1 .. n -> {6, 7, 10}] : n \in 0 .. 7}

\* Every signal of the moment that these inputs give.
SignalsOfTheMoment ==
    UNION ({StockRisk(available, 20, velocity) : available \in -1 .. 20, velocity \in 0 .. 4}
             \cup {SlowMoving(5, reorder, FALSE) : reorder \in {4, 5}}
             \cup {DemandSpike(last, previous) : last \in 0 .. 9, previous \in 0 .. 50}
             \cup {SlaRisk(ages) : ages \in Ages}
             \cup {RevenueAnomaly(last, previous) : last \in 0 .. 20, previous \in 20 .. 120})

MetricGrid ==
    [combo : {None, 2999, 3000}, upsell : {None, 1499, 1500}, breach : {None, 2000, 2001, 3501},
     prep : {None, 90000, 90001}, seen : {2, 3}, completion : {None, 2999, 3000}]

\* No bonus lifts a signal above one of a higher severity, and the signals of
\* the day stay under everything urgent and above what is only information
\* ("these surface BELOW urgent realtime signals but ABOVE informational
\* low-severity signals", decision_engine.py).
FeedRanksByUrgency ==
    LET Of(severity) == {s \in SignalsOfTheMoment : s.severity = severity}
        ofTheDay == UNION {MetricDriven(m) : m \in MetricGrid}
        Outranks(S, T) == \A s \in S, t \in T : s.score > t.score
    IN  /\ Outranks(Of("high"), Of("medium") \cup ofTheDay)
        /\ Outranks(Of("medium") \cup ofTheDay, Of("low"))

\* The owner's signals and the guests' menu read the day alike, although each
\* file has its own copy of the limits (decision_engine.py,
\* operational_context_service.py).
ContextMatchesSignals ==
    \A m \in MetricGrid :
        LET fires == {s.id : s \in MetricDriven(m)}
            selling == {"metric_combo_health", "metric_upsell_visibility"} \cap fires
        IN  /\ "metric_kitchen_performance" \in fires => MaxUpsell(Mode(m)) = 1
            /\ MaxUpsell(Mode(m)) = 1 => "metric_kitchen_performance" \in fires \/ m.prep > 90000
            /\ Mode(m) = "boost_combos" => selling # {}
            /\ Mode(m) = "normal" => fires \subseteq {"metric_owner_engagement"}

\* Days of orders with a combination, of one ingredient, of seven of them one
\* by one, and cancelled ones.
DayOf(combos, singles, baskets) ==
    [o \in 1 .. 13 |->
        IF o <= combos THEN [cancelled |-> FALSE, total |-> 5, items |-> <<1, 3>>]
        ELSE IF o <= combos + singles THEN [cancelled |-> FALSE, total |-> 2, items |-> <<1, 0>>]
        ELSE IF o <= combos + singles + baskets
             THEN [cancelled |-> FALSE, total |-> 12, items |-> <<1, 1, 1, 1, 1, 1, 1>>]
        ELSE [cancelled |-> TRUE, total |-> 9, items |-> <<2>>]]

Days == {DayOf(combos, singles, baskets) :
            combos \in {0, 1, 2, 5}, singles \in {0, 1, 3}, baskets \in {0, 3, 5}}

\* Minutes to READY: all alike but one.
PrepOf(n, others, last) == [o \in 1 .. n |-> IF o = n THEN last ELSE others]

Preps == {PrepOf(n, others, last) : n \in {2, 3, 10, 11}, others \in {1, 12}, last \in {1, 12, 90}}

DecisionRow(status, acknowledged, quality) ==
    [status |-> status, acknowledged |-> acknowledged, done |-> status \in {"completed", "dismissed"},
     new |-> TRUE, quality |-> quality, saved |-> 5]

ClosedRows ==
    [1 .. 3 -> {DecisionRow("acknowledged", TRUE, "none"), DecisionRow("dismissed", TRUE, "none"),
                DecisionRow("completed", FALSE, "none"), DecisionRow("completed", TRUE, "partial"),
                DecisionRow("completed", FALSE, "failed")}]

Few(part, whole, percent) == 100 * Cardinality(part) < percent * Cardinality(whole)

\* What is reported of a day is about that day: no rate of too few orders, and
\* a trend goes the way of its figure (_compute_conversion, _trend).
TrendsTellTheDay ==
    \A day \in Days, before \in Days :
        LET figures == Conversion(day, before)
            orders(d) == IF Sold(d) = {} THEN 1 ELSE Cardinality(Sold(d))
            combos(d) == Cardinality(Combos(d))
        IN  /\ figures.combo # None => Cardinality(Sold(day)) >= CONVERSION_MIN_ORDERS
            /\ figures.comboTrend = "up" => combos(day) * orders(before) > combos(before) * orders(day)
            /\ figures.comboTrend = "down" => combos(day) * orders(before) < combos(before) * orders(day)
            /\ figures.aovWithoutTrend = "up" => Sold(day) # Combos(day)

\* Menus push combinations only when few orders or few items of the day have
\* one and the kitchen, if it can be judged, keeps up: at most a fifth of the
\* orders late, nine minutes on average (compute_operational_context). A report
\* has no error but the two that a day with an outlier can earn: enough orders
\* of both kinds, of which the combinations brought in half of the others or
\* less, and a mean of which only the slowest tenth of the orders is above
\* (_run_consistency_checks).
ReportTellsTheDay ==
    \A day \in Days, prep \in Preps :
        LET report == DailyMetrics(day, day, prep, <<>>)
            rest == Sold(day) \ Combos(day)
            n == Cardinality(DOMAIN prep)
            minutes == Total(prep, DOMAIN prep)
            spent(S) == Total(OrderTotals(day), S)
        IN  /\ ComboBoost(Mode(report)) > 10 =>
                  /\ Few(Combos(day), Sold(day), 30) \/ Few(ComboItems(day), Items(day), 15)
                  /\ n >= KITCHEN_MIN_ORDERS =>
                        /\ 5 * Cardinality({o \in DOMAIN prep : prep[o] > 10}) <= n
                        /\ minutes <= 9 * n
            /\ report.errors \subseteq {"aov", "p90"}
            /\ "aov" \in report.errors =>
                  /\ Cardinality(Combos(day)) >= CONVERSION_MIN_ORDERS
                  /\ Cardinality(rest) >= CONVERSION_MIN_ORDERS
                  /\ 2 * spent(Combos(day)) * Cardinality(rest) <= spent(rest) * Cardinality(Combos(day))
            /\ "p90" \in report.errors =>
                  /\ n >= P90_MIN_ORDERS
                  /\ 10 * Cardinality({o \in DOMAIN prep : n * prep[o] > minutes}) <= n + 8

FiguresTellTheDay == TrendsTellTheDay /\ ReportTellsTheDay

\* The 90th percentile is not below the mean, where both can be judged.
PercentileCovers(prep) ==
    LET kitchen == KitchenMetrics(prep)
    IN  kitchen.prep # None /\ kitchen.p90 # None => kitchen.p90 >= kitchen.prep

NoFigures == [comboRate |-> 0, upsellRate |-> 0, aovWith |-> None, aovWithout |-> None]
NoTimes   == [prep |-> None, p90 |-> None]

\* Nobody is credited with money for a risk that was not resolved, and every
\* resolved one has one outcome (_revprot_sql, _run_consistency_checks).
OutcomesAddUp ==
    \A rows \in ClosedRows :
        LET protection == RevenueProtection(rows) IN
        /\ ConsistencyErrors(NoFigures, NoTimes, protection) = {}
        /\ protection.saved > 0 => protection.partial > 0
        /\ DecisionMetrics(rows).completion \in Rates

=============================================================================
