--------------------------------- MODULE BudgetCut ---------------------------------
(***************************************************************************)
(* The simulation that cuts an order to a budget: the lines fall into      *)
(* ranks, and rank after rank is cut, to its minimum when even that is not *)
(* enough, and otherwise line by line until the required amount is gone.   *)
(* The order is the final order of the review or, as older callers give    *)
(* it, the agent's result.  Money is counted in whole units.               *)
(***************************************************************************)
EXTENDS Absent, Integers, FiniteSets, FiniteSetsExt, Functions

CONSTANT
    Simulations   \* from: "final_order" or "agent"; lines; target, the budget asked for

\* An order has lines with prices, or the simulation is refused; minimums and gaps are
\* those of the catalogue and the matrix.
ASSUME CutAssumption ==
    /\ None \notin Int
    /\ \A s \in Simulations :
          /\ s.target \in Nat /\ IsFiniteSet(DOMAIN s.lines)
          /\ \A l \in DOMAIN s.lines :
                /\ s.lines[l].price \in Nat \ {0} /\ s.lines[l].quantity \in Nat
                /\ s.from = "agent" => /\ s.lines[l].minimum \in Nat
                                      /\ s.lines[l].gap \in (Nat \ {0}) \union {None}

VARIABLES
    simulation,
    quantity,   \* line -> optimized quantity
    rank,       \* the rank cut next, 5 after the last
    remaining   \* amount still to cut from the rank under way, None between ranks

cutVars == <<simulation, quantity, rank, remaining>>

Ranks == 0 .. 4
Lines == DOMAIN simulation.lines
Line(l) == simulation.lines[l]

\* A line of the final order is cut before those the owner bought; of the agent's result
\* postponed lines go first and bought ones last.
ReductionRank(decision) ==
    CASE decision \in {"postpone", "auto"} -> 0
      [] decision \in {"manual_review", "manual"} -> 1
      [] decision = "recommended" -> 2
      [] decision = "do_not_buy" -> 3
      [] OTHER -> 4

\* Of the agent's result what must be bought is kept whole, and otherwise the line's own
\* minimum order and the gap of the mandatory assortment, at least one unit.
ProtectedQuantity(line) ==
    LET gap == IF line.gap = None THEN 1 ELSE line.gap
        minimum == IF line.mandatory THEN Max({line.minimum, gap}) ELSE line.minimum IN
    IF line.decision = "must_buy" THEN line.quantity ELSE Min({line.quantity, minimum})

\* Of the final order the owner's purchases and the protected lines are kept whole.
MinimumQuantity(l) ==
    IF simulation.from = "agent" THEN ProtectedQuantity(Line(l))
    ELSE IF Line(l).protected \/ Line(l).decision = "manual" THEN Line(l).quantity ELSE 0

Amount(count) == SumFunction([l \in Lines |-> count[l] * Line(l).price])
Total == Amount(quantity)
Original == [l \in Lines |-> Line(l).quantity]
MinimumQuantities == [l \in Lines |-> MinimumQuantity(l)]

\* No order is cut below what is protected in it.
ReductionTarget == Max({simulation.target, Amount(MinimumQuantities)})

Reducible(l) == quantity[l] > MinimumQuantity(l)
Group == {l \in Lines : ReductionRank(Line(l).decision) = rank /\ Reducible(l)}

\* The simulation of an order the review has completed, each line with a price.
CutInit ==
    /\ simulation \in Simulations
    /\ quantity = Original
    /\ rank = 0 /\ remaining = None

-----------------------------------------------------------------------------
(* Ranks.                                                                   *)

RequiredReduction == Total - ReductionTarget
GroupCapacity ==
    SumFunction([l \in Group |-> (quantity[l] - MinimumQuantity(l)) * Line(l).price])

\* Nothing is left to cut, or nothing in this rank.
SkipGroup ==
    /\ rank \in Ranks /\ remaining = None
    /\ RequiredReduction <= 0 \/ Group = {}
    /\ rank' = rank + 1
    /\ UNCHANGED <<simulation, quantity, remaining>>

\* Cutting the whole rank is not too much.
CutWholeGroup ==
    /\ rank \in Ranks /\ remaining = None /\ Group # {}
    /\ RequiredReduction > 0 /\ GroupCapacity <= RequiredReduction
    /\ quantity' = [l \in Lines |-> IF l \in Group THEN MinimumQuantity(l) ELSE quantity[l]]
    /\ rank' = rank + 1
    /\ UNCHANGED <<simulation, remaining>>

StartReduceGroup ==
    /\ rank \in Ranks /\ remaining = None
    /\ RequiredReduction > 0 /\ GroupCapacity > RequiredReduction
    /\ remaining' = RequiredReduction
    /\ UNCHANGED <<simulation, quantity, rank>>

-----------------------------------------------------------------------------
(* One rank, line by line.                                                  *)

\* The dearest line of which one unit is affordable, else the cheapest.  Among equal ones the
\* code's order decides, which the model leaves open.
Selected(l) ==
    LET affordable == {k \in Group : Line(k).price <= remaining} IN
    IF affordable # {}
    THEN l \in affordable /\ \A k \in affordable : Line(k).price <= Line(l).price
    ELSE \A k \in Group : Line(k).price >= Line(l).price

\* A mistaken amount: rounded up, and more than the line can give.
QuantityToRemoveCeil(l) ==
    IF Line(l).price <= remaining
    THEN (remaining + Line(l).price - 1) \div Line(l).price
    ELSE 1

QuantityToRemove(l) ==
    IF Line(l).price <= remaining
    THEN Min({quantity[l] - MinimumQuantity(l), remaining \div Line(l).price})
    ELSE 1

ReduceLine(l) ==
    /\ remaining # None /\ remaining > 0
    /\ l \in Group /\ Selected(l)
    /\ quantity' = [quantity EXCEPT ![l] = @ - QuantityToRemove(l)]
    /\ remaining' = remaining - QuantityToRemove(l) * Line(l).price
    /\ UNCHANGED <<simulation, rank>>

EndReduceGroup ==
    /\ remaining # None
    /\ remaining <= 0 \/ Group = {}
    /\ remaining' = None /\ rank' = rank + 1
    /\ UNCHANGED <<simulation, quantity>>

CutNext ==
    \/ SkipGroup \/ CutWholeGroup \/ StartReduceGroup
    \/ \E l \in Lines : ReduceLine(l)
    \/ EndReduceGroup

CutSpec == CutInit /\ [][CutNext]_cutVars

-----------------------------------------------------------------------------
(* Properties.                                                              *)

\* The types.
CutTypeOK ==
    /\ quantity \in [Lines -> Nat]
    /\ rank \in 0 .. 5
    /\ remaining = None \/ remaining \in Int

Prices(S) == {Line(l).price : l \in S}
WasCut(l) == quantity[l] < Line(l).quantity

\* What the simulation answers (optimizePurchasingBudget): protected quantities are whole, an
\* order within its budget is untouched, one over it is cut to the budget or to what is
\* protected, by less than the price of one unit too much, and a line is cut only when
\* everything in the ranks before its own is at its minimum.
BudgetKept ==
    rank = 5 =>
        /\ \A l \in Lines : quantity[l] \in MinimumQuantity(l) .. Line(l).quantity
        /\ Amount(Original) > ReductionTarget =>
              /\ Total <= ReductionTarget
              /\ ReductionTarget - Total < Max(Prices({l \in Lines : WasCut(l)}))
        /\ Amount(Original) <= simulation.target => quantity = Original
        /\ \A l, k \in Lines :
              /\ WasCut(l)
              /\ ReductionRank(Line(k).decision) < ReductionRank(Line(l).decision)
              => ~Reducible(k)
=============================================================================
