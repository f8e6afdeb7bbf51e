------------------------------- MODULE OrderLine -------------------------------
(***************************************************************************)
(* One row of a supplier's report on its way to a line of the working      *)
(* order: safety guard, demand, assortment policy, decision, assortment    *)
(* matrix, verified test, the owner's standing decision, the guard for     *)
(* unmatched products and the workflow status.  The run is the one the web *)
(* backend starts: profile miska, a required assortment matrix, expected   *)
(* receipts counted in the stock, sales from the report itself.            *)
(* Quantities are units; scores, confidences and wording are left out.     *)
(***************************************************************************)
EXTENDS Absent, Integers, FiniteSets

CONSTANTS
    Reports,     \* rows of a report
    Minimums,    \* shelf minimums of matrix items
    PolicyRules, \* rules of the assortment policy
    OwnerQuantity

\* A row has the free and the reserved stock, the quantity the report proposes (None for a
\* blank cell), the sales history (weekly for 7, 14 and 28 days, reported, low), the supplier
\* and the class of the product; zeroDays: the report gives no days of stock either; excluded:
\* its stock column already leaves the reserve out.
Numbers == Int \union {None}
ReportRows ==
    [free : Numbers, zeroDays : BOOLEAN, reserve : Numbers, excluded : BOOLEAN,
     orderQty : Numbers,
     sales : [weekly : [1 .. 3 -> Numbers], reported : Numbers, low : BOOLEAN],
     supplier : STRING, class : STRING]

\* A rule of the assortment policy; hold: "no", "full" or "until" the stock is holdUntil.
Policies ==
    [status : STRING, min : Numbers, max : Numbers, target : Numbers, hold : STRING,
     holdUntil : Int, mandatory : BOOLEAN, first : BOOLEAN, active : BOOLEAN,
     verified : BOOLEAN]

ASSUME LineAssumption ==
    /\ None \notin Int \union {"BUY", "SKIP", "DEFER", "excluded", "auto_approved"}
    /\ Reports \subseteq ReportRows /\ PolicyRules \subseteq Policies
    /\ Minimums \subseteq Int /\ OwnerQuantity \in Nat \ {0}

VARIABLES stage, row, match, rule, order, product, decision, line

lineVars == <<stage, row, match, rule, order, product, decision, line>>

Smaller(a, b) == IF a < b THEN a ELSE b
Larger(a, b) == IF a > b THEN a ELSE b
CeilDiv(a, b) == (a + b - 1) \div b
Positive(q) == q # None /\ q > 0

-----------------------------------------------------------------------------
(* The report.                                                              *)

Matches ==
    {[kind |-> "none"], [kind |-> "ambiguous"]} \union
    [kind : {"item"}, priority : {"critical", "important", "standard"},
     minimum : Minimums, allowZero : BOOLEAN]

OwnerOrders == {[kind |-> "BUY", quantity |-> OwnerQuantity], [kind |-> "SKIP"], [kind |-> "DEFER"]}

LineInit ==
    /\ stage = "report"
    /\ row \in Reports
    /\ match = None /\ rule = None /\ order = None
    /\ product = None /\ decision = None /\ line = None

Goes(s) == stage' = s

Sold(sales) == (\E i \in 1 .. 3 : Positive(sales.weekly[i])) \/ Positive(sales.reported)

\* A blank stock with no days of stock and with sales is a stock of zero.
ApplyMinMaxSafetyGuard ==
    /\ stage = "report" /\ Goes("demand")
    /\ row' = IF row.free = None /\ row.zeroDays /\ Sold(row.sales)
              THEN [row EXCEPT !.free = 0] ELSE row
    /\ UNCHANGED <<match, rule, order, product, decision, line>>

-----------------------------------------------------------------------------
(* Demand.                                                                  *)

Days == <<7, 14, 28>>
Weight == <<5, 3, 2>>
Known(weekly) == {i \in 1 .. 3 : weekly[i] # None}

\* The weighted daily rate of the periods that are known, as a fraction.
WeightedRate(weekly) ==
    LET Part(i) == IF weekly[i] = None THEN 0 ELSE weekly[i] * (28 \div Days[i]) * Weight[i]
        Share(i) == IF weekly[i] = None THEN 0 ELSE Weight[i] IN
    [num |-> Part(1) + Part(2) + Part(3), den |-> 28 * (Share(1) + Share(2) + Share(3))]

\* The weekly history first, then the rate the report gives.
SelectSalesRate(s) ==
    IF Known(s.weekly) # {} THEN [source |-> "weekly", rate |-> WeightedRate(s.weekly)]
    ELSE IF s.reported # None /\ s.reported >= 0
    THEN [source |-> "reported", rate |-> [num |-> s.reported, den |-> 1]]
    ELSE [source |-> "none", rate |-> None]

SalesStatus(s, chosen) ==
    IF chosen.source = "none" THEN IF s.reported # None THEN "invalid" ELSE "missing"
    ELSE IF chosen.rate.num = 0 THEN "confirmed_zero"
    ELSE IF chosen.source = "reported" THEN "reported_rate"
    ELSE IF Known(s.weekly) = 1 .. 3 THEN "complete" ELSE "partial"

\* A week that sells more than twice as fast as the four weeks.
Spike(s, chosen) ==
    /\ chosen.source = "weekly" /\ {1, 3} \subseteq Known(s.weekly)
    /\ 4 * s.weekly[1] > 2 * s.weekly[3]

\* Days of stock on top of the delivery cycle of 14 days; None for an unknown class.
SafetyStockDays(supplier, class) ==
    IF class \notin {"A/X", "A/Z", "C/Y"} THEN None
    ELSE LET fast == IF supplier = "valta" THEN 10 ELSE 21
             risky == IF supplier = "valta" THEN 3 ELSE 7 IN
         CASE class = "A/X" -> fast [] class = "A/Z" -> risky [] class = "C/Y" -> 0

TargetStock(chosen, safety) ==
    IF chosen.rate = None \/ safety = None THEN None
    ELSE CeilDiv(chosen.rate.num * (14 + safety), chosen.rate.den)

ResolveReserveStock(r) ==
    IF r.excluded \/ r.reserve = None THEN 0 ELSE IF r.reserve < 0 THEN None ELSE r.reserve

\* A mistaken stock: a blank cell counts as zero.
AvailableStockBlankIsZero(r) ==
    LET reserve == ResolveReserveStock(r) IN
    IF reserve = None THEN None ELSE (IF r.free = None THEN 0 ELSE r.free) - reserve

AvailableStock(r) ==
    LET reserve == ResolveReserveStock(r) IN
    IF r.free = None \/ reserve = None THEN None ELSE r.free - reserve

Mandatory(m) == m.kind = "item" /\ m.priority # "standard"

\* The floor of a mandatory item, except under a demand whose target is below it.
MandatoryMinimumGap(m, available, target, demand) ==
    IF ~Mandatory(m) THEN IF available = None /\ m.kind = "item" THEN None ELSE 0
    ELSE IF available = None THEN None
    ELSE IF Positive(demand) /\ target < m.minimum THEN 0
    ELSE Larger(0, m.minimum - available)

RequiredData(r, safety) ==
    {f \in {"free_stock", "free_stock_confirmation", "reserve_stock", "safety_stock_days",
            "analyzer_calculated_quantity", "reported_rate"} :
        CASE f = "free_stock" -> r.free = None
          [] f = "free_stock_confirmation" -> r.free # None /\ r.free < 0
          [] f = "reserve_stock" -> ResolveReserveStock(r) = None
          [] f = "safety_stock_days" -> safety = None
          [] f = "analyzer_calculated_quantity" -> r.orderQty = None
          [] f = "reported_rate" ->
                \/ r.sales.reported # None /\ r.sales.reported < 0
                \/ SelectSalesRate(r.sales).source = "reported" /\ r.sales.low}

ResolveFinalQuantity(demand, gap) == Larger(demand, gap)

CalculateDemandProduct(r, m) ==
    LET chosen == SelectSalesRate(r.sales)
        safety == SafetyStockDays(r.supplier, r.class)
        target == TargetStock(chosen, safety)
        available == AvailableStock(r)
        demand == IF target = None \/ available = None THEN None ELSE Larger(0, target - available)
        gap == MandatoryMinimumGap(m, available, target, demand) IN
    [available |-> available, demand |-> demand, gap |-> gap,
     final |-> IF demand = None \/ gap = None \/ (r.free # None /\ r.free < 0) THEN None
               ELSE ResolveFinalQuantity(demand, gap),
     analyzer |-> r.orderQty, sales |-> SalesStatus(r.sales, chosen),
     unclear |-> chosen.source = "reported" /\ r.sales.low,
     sells |-> chosen.rate # None /\ chosen.rate.num > 0, spike |-> Spike(r.sales, chosen),
     mandatory |-> Mandatory(m), critical |-> m.kind = "item" /\ m.priority = "critical",
     required |-> RequiredData(r, safety),
     policy |-> "none", awaiting |-> FALSE, guard |-> None, conflict |-> FALSE, owner |-> None]

\* Of the row only what is read later is kept.
BuildDemandPlan ==
    /\ stage = "demand" /\ Goes("policy")
    /\ match' \in Matches
    /\ product' = CalculateDemandProduct(row, match')
    /\ row' = [free |-> row.free, supplier |-> row.supplier, class |-> row.class]
    /\ UNCHANGED <<rule, order, decision, line>>

-----------------------------------------------------------------------------
(* Assortment policy.                                                       *)

HoldActive(p, stock) ==
    p.hold # "no" /\ (p.hold = "full" \/ (stock # None /\ stock > p.holdUntil))

\* A mistaken cap: the stock at hand is forgotten.
CappedOrderOnly(p, stock, q) ==
    IF q = None \/ stock = None \/ p.max = None THEN q ELSE Larger(0, Smaller(q, p.max))

\* The order that keeps the stock within the rule's maximum.
Capped(p, stock, q) ==
    IF q = None \/ stock = None \/ p.max = None THEN q ELSE Larger(0, Smaller(q, p.max - stock))

Empty(q) == q = None \/ q = 0

\* What a mandatory item below its minimum is filled up by; None when that is not asked.
Restored(p, stock, q) ==
    IF ~(p.mandatory /\ stock # None /\ p.min # None /\ Empty(q)) THEN None
    ELSE IF stock < p.min THEN (IF p.target # None THEN p.target ELSE p.min) - stock ELSE 0

TestStart(p, stock, q) ==
    IF p.status = "TEST" /\ p.target # None /\ Empty(q) /\ stock # None
    THEN Capped(p, stock, Larger(0, p.target - stock)) ELSE q

\* The quantity and the gap a rule leaves: nothing for an item on its way out, on hold or on
\* its first rollout; else the quantity capped, the mandatory floor, the stock a test starts
\* with, and the cap again.
ApplyAssortmentPolicy(p, stock, q) ==
    IF p.status = "EXIT" \/ HoldActive(p, stock) \/ (p.status = "TEST" /\ p.first)
    THEN [quantity |-> 0, gap |-> None]
    ELSE LET capped == Capped(p, stock, q)
             gap == Restored(p, stock, capped)
             filled == IF Positive(gap) THEN gap ELSE capped IN
         [quantity |-> Capped(p, stock, TestStart(p, stock, filled)), gap |-> gap]

\* A row the policy cannot judge, its stock being negative: nothing is ordered.
Isolated(d) == [d EXCEPT !.final = 0, !.policy = "isolated"]

WithPolicy(d, p) ==
    LET result == ApplyAssortmentPolicy(p, d.available, d.final) IN
    [d EXCEPT !.final = result.quantity,
              !.gap = IF result.gap = None THEN @
                      ELSE IF @ = None THEN result.gap ELSE Larger(@, result.gap),
              !.mandatory = p.mandatory \/ @,
              !.policy = "matched",
              !.awaiting = p.status = "TEST" /\ p.first /\ ~HoldActive(p, d.available)]

ApplyAssortmentPolicyToProducts ==
    /\ stage = "policy" /\ Goes("decide")
    /\ rule' \in PolicyRules \union {None}
    /\ product' = IF product.available # None /\ product.available < 0 THEN Isolated(product)
                  ELSE IF rule' = None THEN product ELSE WithPolicy(product, rule')
    /\ UNCHANGED <<row, match, order, decision, line>>

-----------------------------------------------------------------------------
(* The decision and those who may change it.                                *)

Decision(kind, approved, basis, risk) ==
    [kind |-> kind, approved |-> approved, basis |-> basis, risk |-> risk]
Review(basis, risk) == Decision("manual_review", None, basis, risk)
DoNotBuy(basis) == Decision("do_not_buy", 0, basis, FALSE)

SpikeReviewQuantity == 20

\* The first case that applies.
DecidePhase2Product(d, class) ==
    IF d.analyzer = 0 /\ d.sales = "missing" /\ ~d.mandatory /\ ~Positive(d.demand)
    THEN DoNotBuy("provisional_phase1_no_order")
    ELSE IF d.final = None THEN Review("phase2_data_incomplete", FALSE)
    ELSE IF d.final = 0 THEN DoNotBuy("phase2_calculated")
    ELSE IF d.unclear /\ Positive(d.analyzer) THEN Review("phase2_data_quality_review", FALSE)
    ELSE IF d.sales = "confirmed_zero" /\ ~(d.mandatory /\ Positive(d.gap))
    THEN DoNotBuy("phase2_calculated")
    ELSE IF d.spike /\ d.final >= SpikeReviewQuantity THEN Review("phase2_risk_review", FALSE)
    ELSE IF d.mandatory /\ d.critical THEN Decision("must_buy", d.final, "phase2_calculated", FALSE)
    ELSE IF class = "A/Z" THEN Review("phase2_risk_review", TRUE)
    ELSE IF class = "C/Y" THEN Decision("postpone", None, "phase2_risk_review", TRUE)
    ELSE Decision(IF class = "A/X" THEN "must_buy" ELSE "recommended",
                  d.final, "phase2_calculated", FALSE)

BuildPhase2PurchasingDecisions ==
    /\ stage = "decide" /\ Goes("matrix")
    /\ decision' = DecidePhase2Product(product, row.class)
    /\ UNCHANGED <<row, match, rule, order, product, line>>

\* The quantity the matrix reckons with: the final one, else the report's own.
RecommendedQuantity(d) ==
    IF d.final # None THEN d.final ELSE IF d.analyzer # None THEN d.analyzer ELSE 0

BelowMinimum(r, d, m) == r.free + RecommendedQuantity(d) < m.minimum

Controlled(d, kind, approved, basis) ==
    [d EXCEPT !.kind = kind, !.approved = approved, !.basis = basis]

ControlDecision(r, d, m, decided) ==
    LET quantity == RecommendedQuantity(d)
        ToReview(basis) == Controlled(decided, "manual_review", None, basis)
        Bought(kind) ==
            IF quantity > 0 THEN Controlled(decided, kind, quantity, "assortment_matrix_control")
            ELSE ToReview("assortment_matrix_control") IN
    IF ~Mandatory(m) THEN decided
    ELSE IF r.free = None THEN ToReview("assortment_matrix_data_incomplete")
    ELSE IF m.priority = "critical" /\ ~m.allowZero /\ r.free = 0 /\ d.sells /\ quantity > 0
    THEN Bought("must_buy")
    ELSE IF ~BelowMinimum(r, d, m) THEN decided
    ELSE IF m.priority = "important" THEN Bought("recommended")
    ELSE IF decided.kind # "do_not_buy" THEN decided
    ELSE IF d.final = None /\ d.analyzer # None THEN ToReview("assortment_matrix_control")
    ELSE Bought("must_buy")

RequiredByMatrix(r, d, m, decided) ==
    IF ControlDecision(r, d, m, decided).kind # "manual_review" \/ ~Mandatory(m) THEN {}
    ELSE IF r.free = None THEN {"free_stock"} ELSE {"recommended_order_quantity"}

ApplyAssortmentMatrixControl ==
    /\ stage = "matrix" /\ Goes("test")
    /\ decision' = ControlDecision(row, product, match, decision)
    /\ product' = [product EXCEPT !.required = @ \union RequiredByMatrix(row, product, match, decision)]
    /\ UNCHANGED <<row, match, rule, order, line>>

\* A risky class is ordered all the same while a test the owner has verified runs.
ApplyVerifiedOwnerTestPolicy ==
    /\ stage = "test" /\ Goes("owner")
    /\ decision' =
          IF /\ decision.kind = "manual_review" /\ decision.risk
             /\ product.policy = "matched" /\ rule.status = "TEST" /\ rule.active /\ rule.verified
             /\ rule.hold = "no" /\ row.free # None /\ Positive(product.final)
          THEN Decision("recommended", product.final, "verified_owner_test_policy", FALSE)
          ELSE decision
    /\ UNCHANGED <<row, match, rule, order, product, line>>

Ordered(d, o) ==
    CASE o.kind = "BUY" -> Controlled(d, "must_buy", o.quantity, "active_owner_order_decision")
      [] o.kind = "DEFER" -> Controlled(d, "postpone", 0, "active_owner_order_decision")
      [] o.kind = "SKIP" -> Controlled(d, "do_not_buy", 0, "active_owner_order_decision")

ApplyActiveOwnerOrderDecision ==
    /\ stage = "owner" /\ Goes("guard")
    /\ order' \in OwnerOrders \union {None}
    /\ decision' = IF order' = None THEN decision ELSE Ordered(decision, order')
    /\ product' = IF order' = None THEN product ELSE [product EXCEPT !.owner = order'.kind]
    /\ UNCHANGED <<row, match, rule, line>>

-----------------------------------------------------------------------------
(* The guard for unmatched products and the working order.                  *)

TrustedSuppliers == {"valta", "zoograd"}

\* A mistaken guard: the owner's decision settles an ambiguous match.
GuardUnlessOwner(d, decided, ambiguous, supplier) ==
    LET excluded ==
            /\ ~ambiguous /\ decided.kind = "do_not_buy" /\ decided.basis = "phase2_calculated"
            /\ d.final = 0 /\ d.required = {} IN
    IF d.owner # None \/ (~ambiguous /\ d.policy = "matched") THEN [d |-> d, decided |-> decided]
    ELSE IF ~ambiguous /\ ~excluded /\ supplier \in TrustedSuppliers
    THEN [d |-> d, decided |-> decided]
    ELSE [d |-> [d EXCEPT !.guard = IF excluded THEN "excluded" ELSE "review",
                          !.conflict = ambiguous],
          decided |-> IF excluded THEN [decided EXCEPT !.approved = None]
                      ELSE [decided EXCEPT !.kind = "manual_review", !.approved = None]]

\* guardUnmatchedProduct, with the conflict an earlier pass has noted.
GuardUnmatchedProduct(d, decided, ambiguous, supplier) ==
    LET excluded ==
            /\ ~ambiguous /\ decided.kind = "do_not_buy" /\ decided.basis = "phase2_calculated"
            /\ d.final = 0 /\ d.required = {} IN
    IF ~ambiguous /\ (d.owner # None \/ d.policy = "matched") THEN [d |-> d, decided |-> decided]
    ELSE IF ~ambiguous /\ ~excluded /\ supplier \in TrustedSuppliers
    THEN [d |-> d, decided |-> decided]
    ELSE [d |-> [d EXCEPT !.guard = IF excluded THEN "excluded" ELSE "review",
                          !.conflict = ambiguous],
          decided |-> IF excluded THEN [decided EXCEPT !.approved = None]
                      ELSE [decided EXCEPT !.kind = "manual_review", !.approved = None]]

Guard ==
    /\ stage = "guard" /\ Goes("working")
    /\ LET guarded == GuardUnmatchedProduct(product, decision, match.kind = "ambiguous", row.supplier) IN
       product' = guarded.d /\ decision' = guarded.decided
    /\ UNCHANGED <<row, match, rule, order, line>>

Wanted(d) == Positive(d.analyzer) \/ Positive(d.final)

\* A mistaken refusal: data that is still asked for does not count as a doubt.
NoBuyThoughRequired(d, decided) ==
    /\ Positive(d.analyzer) /\ decided.kind = "do_not_buy"
    /\ decided.basis = "phase2_calculated" /\ d.final # None

\* A confident refusal of a quantity the report proposes.
IsConfidentNoBuy(d, decided) ==
    /\ Positive(d.analyzer) /\ decided.kind = "do_not_buy"
    /\ decided.basis = "phase2_calculated" /\ d.final # None /\ d.required = {}

\* A mistaken status: the owner's SKIP and DEFER are known by the decision alone.
StatusByDecision(d, decided) ==
    IF d.guard = "excluded" THEN "confidently_excluded"
    ELSE IF decided.kind \in {"must_buy", "recommended"} /\ Positive(decided.approved)
    THEN "auto_approved"
    ELSE IF decided.kind = "postpone" THEN "postponed"
    ELSE IF decided.kind = "manual_review" /\ Wanted(d) THEN "pending_manual_review"
    ELSE IF IsConfidentNoBuy(d, decided) THEN "confidently_excluded"
    ELSE IF Wanted(d) THEN "pending_manual_review"
    ELSE IF decided.kind # "manual_review" THEN "no_order_action"
    ELSE None

WorkflowStatus(d, decided) ==
    IF d.owner = "SKIP" THEN "no_order_action"
    ELSE IF d.owner = "DEFER" THEN "postponed"
    ELSE IF d.guard = "excluded" THEN "confidently_excluded"
    ELSE IF decided.kind \in {"must_buy", "recommended"} /\ Positive(decided.approved)
    THEN "auto_approved"
    ELSE IF decided.kind = "postpone" THEN "postponed"
    ELSE IF decided.kind = "manual_review" /\ Wanted(d) THEN "pending_manual_review"
    ELSE IF IsConfidentNoBuy(d, decided) THEN "confidently_excluded"
    ELSE IF Wanted(d) THEN "pending_manual_review"
    ELSE IF decided.kind # "manual_review" THEN "no_order_action"
    ELSE None

ProvisionalQuantity(d, status) ==
    IF status \notin {"pending_manual_review", "postponed"} THEN None
    ELSE IF d.guard # None THEN IF Positive(d.demand) THEN d.demand
                                ELSE IF Positive(d.final) THEN d.final ELSE None
    ELSE IF Positive(d.final) THEN d.final
    ELSE IF Positive(d.analyzer) THEN d.analyzer ELSE None

BuildWorkingOrder ==
    /\ stage = "working" /\ Goes("done")
    /\ LET guarded == GuardUnmatchedProduct(product, decision, product.conflict, row.supplier)
           status == WorkflowStatus(guarded.d, guarded.decided) IN
       line' = [status |-> status, approved |-> guarded.decided.approved,
                basis |-> guarded.decided.basis,
                provisional |-> ProvisionalQuantity(guarded.d, status)]
    /\ UNCHANGED <<row, match, rule, order, product, decision>>

LineNext ==
    \/ ApplyMinMaxSafetyGuard \/ BuildDemandPlan \/ ApplyAssortmentPolicyToProducts
    \/ BuildPhase2PurchasingDecisions \/ ApplyAssortmentMatrixControl
    \/ ApplyVerifiedOwnerTestPolicy \/ ApplyActiveOwnerOrderDecision \/ Guard \/ BuildWorkingOrder

LineSpec == LineInit /\ [][LineNext]_lineVars

-----------------------------------------------------------------------------
LineTypeOK ==
    /\ stage \in {"report", "demand", "policy", "decide", "matrix", "test", "owner", "guard",
                  "working", "done"}
    /\ decision # None =>
          /\ decision.kind \in {"must_buy", "recommended", "manual_review", "postpone", "do_not_buy"}
          /\ decision.approved = None \/ decision.approved >= 0
    /\ line # None =>
          line.status \in {"auto_approved", "pending_manual_review", "postponed",
                           "confidently_excluded", "no_order_action", None}

AutoApproved == line # None /\ line.status = "auto_approved"

\* The matrix controller may approve the report's own quantity, which no policy has seen.
ReportsOwnQuantity == product.final = None /\ line.basis = "assortment_matrix_control"

\* Nothing is bought blindly: whatever the owner has ordered, a line that is approved has an
\* identity that is not in doubt; and without his order, the report's own quantity apart, a
\* known stock that is not negative.
NeverBoughtBlind ==
    AutoApproved =>
        /\ match.kind # "ambiguous"
        /\ order = None /\ ~ReportsOwnQuantity => row.free # None /\ row.free >= 0

\* A line approved on its own, the report's own quantity apart, obeys the assortment policy:
\* nothing for an item on its way out, on hold or on its first rollout, and never a stock above
\* the maximum.
KeepsPolicy ==
    AutoApproved /\ order = None /\ rule # None /\ product.policy = "matched" /\ ~ReportsOwnQuantity =>
        /\ rule.status # "EXIT" /\ ~HoldActive(rule, product.available) /\ ~product.awaiting
        /\ rule.max # None => product.available + line.approved <= rule.max

\* The owner's standing decision decides the line, a purchase only when its identity is
\* certain, and the quantity is his.
OwnerOrderStands ==
    line # None /\ order # None =>
        /\ order.kind = "SKIP" => line.status = "no_order_action"
        /\ order.kind = "DEFER" => line.status = "postponed"
        /\ order.kind = "BUY" /\ match.kind # "ambiguous" =>
              AutoApproved /\ line.approved = order.quantity

\* A demand the engine has computed is answered: unless a policy rule or the owner says
\* otherwise, or the stock net of its reserve is negative, the line is bought, postponed or
\* put before the owner; and so is every quantity the report proposes that is refused with
\* anything in doubt.
DemandIsAnswered ==
    line # None /\ order = None =>
        /\ Positive(product.demand) /\ product.policy = "none" =>
              line.status \in {"auto_approved", "postponed", "pending_manual_review"}
        /\ Positive(product.analyzer) /\ product.required # {} =>
              line.status \in {"auto_approved", "postponed", "pending_manual_review"}
=============================================================================
