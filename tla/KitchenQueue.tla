---------------------------- MODULE KitchenQueue ----------------------------
(***************************************************************************)
(* What the kitchen dashboard works out of an order's age, status and      *)
(* ingredients (apps/api/app/services/kitchen_service.py): severity, rank, *)
(* hint, load and the orders that are best prepared together. Ages are in  *)
(* tenths of a minute, as the code rounds them, and scores in thousandths  *)
(* (every one a whole number of hundredths, which is what the code keeps). *)
(***************************************************************************)
EXTENDS Integers, FiniteSets, SequencesExt

SLA_WARNING_MINUTES  == 7
SLA_CRITICAL_MINUTES == 10
START_IMMEDIATELY_MINUTES == 3

Severity(age) == CASE age >= 10 * SLA_CRITICAL_MINUTES -> "critical"
                   [] age >= 10 * SLA_WARNING_MINUTES /\ age < 10 * SLA_CRITICAL_MINUTES -> "warning"
                   [] OTHER -> "ok"

STATUS_WEIGHT == [NEW |-> 12, IN_PREP |-> 10]

SlaMultiplier(age) == [ok |-> 10, warning |-> 15, critical |-> 25][Severity(age)]

\* For an order of n ingredient slots; at most five of them count.
PriorityScore(age, n, status) ==
    age * STATUS_WEIGHT[status] * SlaMultiplier(age) + 300 * (IF n < 5 THEN n ELSE 5)

ShouldBeStarted(age, status) ==
    \/ Severity(age) # "ok"
    \/ status = "NEW" /\ age >= 10 * START_IMMEDIATELY_MINUTES

ActionHint(age, status, partners) ==
    CASE Severity(age) = "critical"               -> "hurry"
      [] Severity(age) = "warning"                -> "soon"
      [] Severity(age) = "ok" /\ status = "IN_PREP" -> "cooking"
      [] OTHER -> CASE partners # {} -> "together"
                    [] partners = {} /\ age >= 10 * START_IMMEDIATELY_MINUTES -> "now"
                    [] OTHER -> "may wait"

Load(queue) == CASE Cardinality(queue) >= 7 -> "high"
                 [] Cardinality(queue) \in 4..6 -> "medium"
                 [] OTHER -> "low"

-----------------------------------------------------------------------------
(* Orders to prepare together: union-find over the ingredients. "orders" is *)
(* the queue in its order, recipe[o] the ingredients of o.                  *)

OrdersWith(i, orders, recipe) == SelectSeq(orders, LAMBDA o : i \in recipe[o])

\* Mutant: union without find, which moves one order instead of its group.
JoinOne(root, a, b) == [root EXCEPT ![a] = root[b]]

\* The group of a is hung under the root of b.
Join(root, a, b) == [o \in DOMAIN root |-> IF root[o] = root[a] THEN root[b] ELSE root[o]]

JoinAll(root, seq) == FoldSeq(LAMBDA o, acc : Join(acc, seq[1], o), root, seq)

Roots(orders, recipe, ingredients) ==
    FoldSeq(LAMBDA i, acc : JoinAll(acc, OrdersWith(i, orders, recipe)),
            [o \in {p \in ToSet(orders) : recipe[p] # {}} |-> o],
            SetToSeq(ingredients))

\* The groups the dashboard suggests, with the seconds each is said to save.
BatchingSuggestions(orders, recipe, ingredients) ==
    LET root == Roots(orders, recipe, ingredients)
        groups == {{o \in DOMAIN root : root[o] = r} : r \in Range(root)}
        users(g, i) == {o \in g : i \in recipe[o]}
        shared(g) == {i \in ingredients : Cardinality(users(g, i)) >= 2}
    IN  {[orders |-> g, shared |-> shared(g),
          saves |-> FoldSet(LAMBDA i, n : n + 30 * (Cardinality(users(g, i)) - 1), 0, shared(g))] :
            g \in {h \in groups : Cardinality(h) >= 2 /\ shared(h) # {}}}

\* The suggestions are exactly the groups of two or more that ingredients tie
\* together: none can be split, none could be larger, none is missing.
SuggestsTheComponents(orders, recipe, ingredients) ==
    LET found == {s.orders : s \in BatchingSuggestions(orders, recipe, ingredients)}
        Tied(S, T) == \E o \in S, p \in T : recipe[o] \cap recipe[p] # {}
    IN  /\ \A g \in found :
              /\ \A S \in (SUBSET g) \ {{}, g} : Tied(S, g \ S)
              /\ ~Tied(g, ToSet(orders) \ g)
        /\ \A o, p \in ToSet(orders) :
              o # p /\ Tied({o}, {p}) => \E g \in found : {o, p} \subseteq g

=============================================================================
