------------------------------ MODULE MCOrderReview ------------------------------
(***************************************************************************)
(* Runs for OrderReview: many single positions, whose triage and final     *)
(* order are checked without a decision, and a few runs of two rows for    *)
(* which the owner decides once or twice.                                  *)
(***************************************************************************)
EXTENDS OrderReview

Positions(workflows, blockers, listed, problems, signals, facts) ==
    [workflow : workflows, blocker : blockers, listed : listed, problems : problems,
     signals : signals, standing : {None}, facts : facts]

AtMost(n, S) == {s \in SUBSET S : Cardinality(s) <= n}
OneProblem == AtMost(1, {"stock", "cycle", "duplicate", "ambiguous", "unlinked", "no_article"})
TwoSignals == AtMost(2, {"approved_policy_conflict", "exit_candidate",
                         "critical_inventory_value", "commercial_review"})
Money == {"zeroed", "worth", "pressure"}
SomeFacts == {f \union m : f \in SUBSET {"sized", "verified", "exit_confirmed"}, m \in {{}, Money}}

SinglePositions ==
    Positions({"pending"}, Blockers \union {None}, BOOLEAN, OneProblem, TwoSignals, SomeFacts)
    \union Positions({"approved", "postponed", "no_order"}, {None}, {TRUE}, OneProblem, TwoSignals,
                     {{"sized"}, {"sized"} \union Money})

Item(position, keys, product, packaging) ==
    [position |-> position, keys |-> keys, product |-> product,
     approved |-> IF position.workflow = "approved" THEN 1 ELSE 0,
     packaging |-> packaging, priced |-> TRUE]

Row(workflow, blocker, problems, signals, facts) ==
    [workflow |-> workflow, blocker |-> blocker, listed |-> workflow = "pending",
     problems |-> problems, signals |-> signals, standing |-> None, facts |-> facts]

Plain == Row("approved", None, {}, {}, {"sized"})
Conflict == Row("pending", None, {}, {"approved_policy_conflict"}, {"sized"})
Blind == Row("pending", "free_stock_unknown", {"stock"},
             {"commercial_review", "critical_inventory_value"}, {"sized"})
Rollout == Row("pending", None, {}, {}, {"sized", "rollout"})

\* Two rows: each with its own article, or with one article that both show and own barcodes.
Own == <<<<"S1">>, <<"S2">>>>
Shared == <<<<"S1", "B1">>, <<"S1", "B2">>>>
Pair(position, keys, decisions) ==
    [items |-> ("r1" :> Item(position, keys[1], "p1", None))
               @@ ("r2" :> Item(Plain, keys[2], "p2", [box |-> 3, max |-> 4])),
     safe |-> TRUE, saves |-> decisions]
Single(position) ==
    [items |-> [r \in {"r1"} |-> Item(position, <<"S1">>, "p1", None)], safe |-> TRUE, saves |-> 0]

PairRuns ==
    {Pair(p, Own, 2) : p \in {Plain, Blind}} \union {Pair(p, Own, 1) : p \in {Conflict, Rollout}}
    \union {Pair(Plain, Shared, 2)}
BlindRuns == {Pair(Blind, Own, 2)}
MCRuns == {Single(p) : p \in SinglePositions} \union PairRuns

MCOffers == {[decision |-> "BUY", quantity |-> 2], [decision |-> "DEFER", quantity |-> None]}

\* Nothing decided before, or two permanent decisions.
Past(product, key, choice, quantity) ==
    [product |-> product, key |-> key, decision |-> choice, quantity |-> quantity,
     permanent |-> TRUE, at |-> 0, token |-> None, no |-> 0]
MCEarlier == {None, <<Past("p2", "S2", "SKIP", 0), Past("p1", "S1", "BUY", 1)>>}
=============================================================================
