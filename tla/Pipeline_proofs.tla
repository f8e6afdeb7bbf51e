--------------------------- MODULE Pipeline_proofs ---------------------------
(***************************************************************************)
(* Proofs about the purchasing pipeline.  OrderLine: whatever the report,  *)
(* the assortment's matrix and policy and the owner's decisions say, what  *)
(* is ordered has a known stock, keeps the policy and is what the owner    *)
(* has ordered, and a demand is answered.  ApprovedRules: whatever the     *)
(* owner's rules say, a run only takes quantities away, and the forecast   *)
(* of a rule is what a run would publish.  OrderReview: whatever fails or  *)
(* is damaged, an acknowledged decision is kept, the owner is asked about  *)
(* what the order waits for, and the supplier's file follows his           *)
(* decisions.  BudgetCut: an order is cut to its budget, rank by rank, and *)
(* nothing protected is.  OwnerWords: the owner's word on a draft item is  *)
(* carried out or he is asked again.  MatrixDraft: an item of the draft    *)
(* that he is asked nothing about is ready for the matrix.                 *)
(***************************************************************************)
EXTENDS OrderLine, ApprovedRules, OrderReview, BudgetCut, MatrixDraft, OwnerWords, Folds,
        SequenceTheorems, FiniteSetTheorems, WellFoundedInduction, TLAPS

-----------------------------------------------------------------------------
(* What is calculated for a row.                                            *)

NatOrNone == Nat \union {None}

LEMMA LargerSmaller ==
  ASSUME NEW a \in Int, NEW b \in Int
  PROVE  /\ Larger(a, b) \in {a, b} /\ Larger(a, b) >= a /\ Larger(a, b) >= b
         /\ Smaller(a, b) \in {a, b} /\ Smaller(a, b) <= a /\ Smaller(a, b) <= b
BY DEF Larger, Smaller

\* What is positive is a number.
LEMMA PositiveNumber ==
  ASSUME NEW q \in Numbers, Positive(q)
  PROVE  q \in Nat \ {0}
BY DEF Numbers, Positive

LEMMA NoneNoNumber == None \notin Int
BY LineAssumption

LEMMA NoneNoWord ==
  /\ "BUY" # None /\ "SKIP" # None /\ "DEFER" # None
  /\ "excluded" # None /\ "auto_approved" # None
BY LineAssumption

\* A rate is a fraction.
LEMMA RateTyped ==
  ASSUME NEW r \in ReportRows, SelectSalesRate(r.sales).rate # None
  PROVE  /\ SelectSalesRate(r.sales).rate.num \in Int
         /\ SelectSalesRate(r.sales).rate.den \in Nat \ {0}
<1> DEFINE s == r.sales
           w == s.weekly
<1>1. /\ w \in [1 .. 3 -> Numbers] /\ s.reported \in Numbers
  BY DEF ReportRows
<1>2. CASE Known(w) # {}
  <2>1. SelectSalesRate(s).rate = WeightedRate(w)
    BY <1>2 DEF SelectSalesRate
  <2>2. w[1] \in Numbers /\ w[2] \in Numbers /\ w[3] \in Numbers
    BY <1>1
  <2>3. w[1] # None \/ w[2] # None \/ w[3] # None
    BY <1>2 DEF Known
  <2> DEFINE Share(i) == IF w[i] = None THEN 0 ELSE Weight[i]
             Part(i) == IF w[i] = None THEN 0 ELSE w[i] * (28 \div Days[i]) * Weight[i]
  <2>4. Weight[1] = 5 /\ Weight[2] = 3 /\ Weight[3] = 2 /\ Days[1] = 7 /\ Days[2] = 14 /\ Days[3] = 28
    BY DEF Weight, Days
  <2>5. 28 \div 7 = 4 /\ 28 \div 14 = 2 /\ 28 \div 28 = 1
    OBVIOUS
  <2>6. /\ Share(1) \in {0, 5} /\ Share(2) \in {0, 3} /\ Share(3) \in {0, 2}
        /\ Share(1) + Share(2) + Share(3) > 0
    BY <2>3, <2>4
  <2>7. Part(1) \in Int /\ Part(2) \in Int /\ Part(3) \in Int
    BY <2>2, <2>4, <2>5 DEF Numbers
  <2>8. /\ WeightedRate(w).num = Part(1) + Part(2) + Part(3)
        /\ WeightedRate(w).den = 28 * (Share(1) + Share(2) + Share(3))
    BY DEF WeightedRate
  <2> HIDE DEF Share, Part
  <2>9. QED
    BY <2>1, <2>6, <2>7, <2>8
<1>3. CASE Known(w) = {}
  BY <1>1, <1>3 DEF SelectSalesRate, Numbers
<1>4. QED
  BY <1>2, <1>3

LEMMA SafetyTyped ==
  ASSUME NEW supplier, NEW class
  PROVE  SafetyStockDays(supplier, class) \in NatOrNone
BY DEF SafetyStockDays, NatOrNone

\* Nothing is sold: the target is no stock.
LEMMA ZeroTarget ==
  ASSUME NEW den \in Nat \ {0}, NEW days \in Nat
  PROVE  CeilDiv(0 * days, den) = 0
<1>1. CeilDiv(0 * days, den) = (den - 1) \div den
  BY DEF CeilDiv
<1>2. (den - 1) \div den = 0
  OBVIOUS
<1>3. QED
  BY <1>1, <1>2

LEMMA TargetTyped ==
  ASSUME NEW r \in ReportRows, NEW safety \in NatOrNone
  PROVE  /\ TargetStock(SelectSalesRate(r.sales), safety) \in Numbers
         /\ SalesStatus(r.sales, SelectSalesRate(r.sales)) = "confirmed_zero" =>
               TargetStock(SelectSalesRate(r.sales), safety) \in {0, None}
<1> DEFINE chosen == SelectSalesRate(r.sales)
<1>1. CASE chosen.rate = None \/ safety = None
  BY <1>1 DEF TargetStock, Numbers
<1>2. CASE chosen.rate # None /\ safety # None
  <2>1. chosen.rate.num \in Int /\ chosen.rate.den \in Nat \ {0} /\ safety \in Nat
    BY <1>2, RateTyped DEF NatOrNone
  <2>2. TargetStock(chosen, safety) = CeilDiv(chosen.rate.num * (14 + safety), chosen.rate.den)
    BY <1>2 DEF TargetStock
  <2> HIDE DEF chosen
  <2>3. chosen.rate.num * (14 + safety) \in Int
    BY <2>1
  <2>4. CeilDiv(chosen.rate.num * (14 + safety), chosen.rate.den) \in Int
    BY <2>1, <2>3 DEF CeilDiv
  <2>5. chosen.rate.num = 0 => TargetStock(chosen, safety) = 0
    BY <2>1, <2>2, ZeroTarget
  <2>6. SalesStatus(r.sales, chosen) = "confirmed_zero" => chosen.rate.num = 0
    BY DEF SalesStatus
  <2>7. QED
    BY <2>2, <2>4, <2>5, <2>6 DEF Numbers, chosen
<1>3. QED
  BY <1>1, <1>2

\* The stock of a row net of its reserve.
LEMMA AvailableTyped ==
  ASSUME NEW r \in ReportRows
  PROVE  /\ AvailableStock(r) \in Numbers
         /\ AvailableStock(r) # None => r.free \in Int /\ r.free >= AvailableStock(r)
<1>1. r.free \in Numbers /\ r.reserve \in Numbers
  BY DEF ReportRows
<1>2. ResolveReserveStock(r) \in NatOrNone
  BY <1>1, NoneNoNumber DEF ResolveReserveStock, Numbers, NatOrNone
<1>3. QED
  BY <1>1, <1>2, NoneNoNumber DEF AvailableStock, Numbers, NatOrNone

LEMMA GapTyped ==
  ASSUME NEW m \in Matches, NEW available \in Numbers, NEW target \in Numbers, NEW demand \in NatOrNone,
         Positive(demand) => target # None
  PROVE  /\ MandatoryMinimumGap(m, available, target, demand) \in NatOrNone
         /\ available # None => MandatoryMinimumGap(m, available, target, demand) # None
<1>1. m.kind = "item" => m.minimum \in Int
  <2>1. CASE m \in {[kind |-> "none"], [kind |-> "ambiguous"]}
    <3>1. m.kind \in {"none", "ambiguous"}
      BY <2>1
    <3>2. QED
      BY <3>1
  <2>2. CASE m \in [kind : {"item"}, priority : {"critical", "important", "standard"},
                    minimum : Minimums, allowZero : BOOLEAN]
    BY <2>2, LineAssumption
  <2>3. QED
    BY <2>1, <2>2 DEF Matches
<1>2. CASE ~Mandatory(m) \/ available = None
  BY <1>2, NoneNoNumber DEF MandatoryMinimumGap, NatOrNone
<1>3. CASE Mandatory(m) /\ available # None
  <2>1. available \in Int /\ m.minimum \in Int
    BY <1>1, <1>3 DEF Mandatory, Numbers
  <2>2. Larger(0, m.minimum - available) \in Nat
    BY <2>1, LargerSmaller
  <2>3. QED
    BY <1>3, <2>2, NoneNoNumber DEF MandatoryMinimumGap, NatOrNone
<1>4. QED
  BY <1>2, <1>3

\* A quantity is calculated from a known stock that is not negative; a demand of a row whose
\* available stock is not negative leads to a quantity.
LEMMA DemandFacts ==
  ASSUME NEW r \in ReportRows, NEW m \in Matches, NEW d, d = CalculateDemandProduct(r, m)
  PROVE  /\ d.available \in Numbers /\ d.demand \in NatOrNone /\ d.final \in NatOrNone
         /\ d.gap \in Numbers /\ d.analyzer \in Numbers
         /\ d.available # None => r.free \in Int /\ r.free >= d.available
         /\ d.final # None => d.available # None /\ r.free \in Nat
         /\ Positive(d.demand) /\ ~(d.available # None /\ d.available < 0) =>
               Positive(d.final) /\ d.sales # "confirmed_zero"
<1> DEFINE chosen == SelectSalesRate(r.sales)
           safety == SafetyStockDays(r.supplier, r.class)
           target == TargetStock(chosen, safety)
           available == AvailableStock(r)
           demand == IF target = None \/ available = None THEN None ELSE Larger(0, target - available)
           gap == MandatoryMinimumGap(m, available, target, demand)
<1>1. /\ d.available = available /\ d.demand = demand /\ d.gap = gap
      /\ d.final = IF demand = None \/ gap = None \/ (r.free # None /\ r.free < 0) THEN None
                   ELSE ResolveFinalQuantity(demand, gap)
      /\ d.analyzer = r.orderQty /\ d.sales = SalesStatus(r.sales, chosen)
  BY DEF CalculateDemandProduct
<1>2. /\ target \in Numbers
      /\ d.sales = "confirmed_zero" => target \in {0, None}
  BY <1>1, TargetTyped, SafetyTyped
<1>3. /\ available \in Numbers
      /\ available # None => r.free \in Int /\ r.free >= available
  BY AvailableTyped
<1>4. /\ demand \in NatOrNone
      /\ demand # None => target \in Int /\ available \in Int /\ demand = Larger(0, target - available)
  <2>1. CASE target = None \/ available = None
    BY <2>1 DEF NatOrNone
  <2>2. CASE target \in Int /\ available \in Int
    BY <2>2, LargerSmaller DEF NatOrNone
  <2>3. QED
    BY <1>2, <1>3, <2>1, <2>2 DEF Numbers
<1>5. gap \in NatOrNone /\ (available # None => gap # None)
  <2>1. Positive(demand) => target # None
    BY <1>4, NoneNoNumber DEF Positive
  <2>2. QED
    BY <1>2, <1>3, <1>4, <2>1, GapTyped
<1>6. r.orderQty \in Numbers /\ r.free \in Numbers
  BY DEF ReportRows
<1> HIDE DEF chosen, safety, target, available, demand, gap
<1>7. demand # None /\ gap # None => /\ ResolveFinalQuantity(demand, gap) \in Nat
                                     /\ ResolveFinalQuantity(demand, gap) >= demand
  BY <1>4, <1>5, LargerSmaller DEF ResolveFinalQuantity, NatOrNone
<1>8. d.final \in NatOrNone /\ (d.final # None => available # None /\ r.free \in Nat)
  BY <1>1, <1>3, <1>4, <1>7, NoneNoNumber DEF NatOrNone
<1>9. ASSUME Positive(demand), ~(available # None /\ available < 0)
      PROVE  Positive(d.final) /\ d.sales # "confirmed_zero"
  <2>1. /\ demand \in Nat \ {0} /\ target \in Int /\ available \in Int /\ available >= 0
        /\ demand = Larger(0, target - available)
    BY <1>4, <1>9, NoneNoNumber DEF Positive, NatOrNone
  <2>2. target # 0 /\ target # None
    BY <2>1, NoneNoNumber DEF Larger
  <2>3. gap # None /\ r.free >= 0 /\ r.free \in Int /\ demand # None
    BY <1>3, <1>5, <2>1, NoneNoNumber
  <2>4. d.final = ResolveFinalQuantity(demand, gap)
    BY <1>1, <2>3
  <2>5. QED
    BY <1>2, <1>7, <2>1, <2>2, <2>3, <2>4, NoneNoNumber DEF Positive
<1>10. QED
  BY <1>1, <1>3, <1>4, <1>5, <1>6, <1>8, <1>9 DEF NatOrNone, Numbers

-----------------------------------------------------------------------------
(* What the policy and the deciders make of it.                             *)

LEMMA CappedBounds ==
  ASSUME NEW p \in Policies, NEW stock \in Numbers, NEW q \in NatOrNone
  PROVE  /\ Capped(p, stock, q) \in NatOrNone
         /\ Positive(Capped(p, stock, q)) => Positive(q)
         /\ Positive(Capped(p, stock, q)) /\ stock # None /\ p.max # None =>
               stock + Capped(p, stock, q) <= p.max
<1>1. p.max \in Numbers
  BY DEF Policies
<1>2. CASE q = None \/ stock = None \/ p.max = None
  BY <1>2 DEF Capped, Positive
<1>3. CASE q \in Nat /\ stock \in Int /\ p.max \in Int
  <2>1. q # None /\ stock # None /\ p.max # None
    BY <1>3, NoneNoNumber
  <2>2. Capped(p, stock, q) = Larger(0, Smaller(q, p.max - stock))
    BY <2>1 DEF Capped
  <2>3. QED
    BY <1>3, <2>2, NoneNoNumber DEF Larger, Smaller, Positive, NatOrNone
<1>4. QED
  BY <1>1, <1>2, <1>3 DEF Numbers, NatOrNone

\* A rule leaves nothing to an item on its way out, on hold or on its first rollout, and never
\* fills the stock above its maximum.
LEMMA PolicyFacts ==
  ASSUME NEW p \in Policies, NEW stock \in Numbers, NEW q \in NatOrNone,
         Positive(q) => stock # None,
         NEW a, a = ApplyAssortmentPolicy(p, stock, q)
  PROVE  /\ a.quantity \in NatOrNone /\ a.gap \in Numbers
         /\ Positive(a.quantity) =>
               /\ stock # None /\ p.status # "EXIT" /\ ~HoldActive(p, stock)
               /\ ~(p.status = "TEST" /\ p.first)
               /\ p.max # None => stock + a.quantity <= p.max
<1> DEFINE capped == Capped(p, stock, q)
           gap == Restored(p, stock, capped)
           filled == IF Positive(gap) THEN gap ELSE capped
           started == TestStart(p, stock, filled)
<1>1. CASE p.status = "EXIT" \/ HoldActive(p, stock) \/ (p.status = "TEST" /\ p.first)
  BY <1>1 DEF ApplyAssortmentPolicy, NatOrNone, Numbers, Positive
<1>2. CASE ~(p.status = "EXIT" \/ HoldActive(p, stock) \/ (p.status = "TEST" /\ p.first))
  <2>1. a.quantity = Capped(p, stock, started) /\ a.gap = gap
    BY <1>2 DEF ApplyAssortmentPolicy
  <2>2. p.min \in Numbers /\ p.target \in Numbers
    BY DEF Policies
  <2>3. capped \in NatOrNone /\ (Positive(capped) => stock # None)
    BY CappedBounds
  <2> HIDE DEF capped
  <2>4. gap \in Numbers /\ (gap # None => stock # None)
    <3>1. CASE ~(p.mandatory /\ stock # None /\ p.min # None /\ Empty(capped))
      BY <3>1 DEF Restored, Numbers
    <3>2. CASE p.mandatory /\ stock # None /\ p.min # None /\ Empty(capped)
      <4>1. stock \in Int /\ p.min \in Int /\ (p.target # None => p.target \in Int)
        BY <2>2, <3>2 DEF Numbers
      <4>2. gap \in Int
        BY <3>2, <4>1 DEF Restored
      <4>3. QED
        BY <3>2, <4>2 DEF Numbers
    <3>3. QED
      BY <3>1, <3>2
  <2> HIDE DEF gap
  <2>5. filled \in NatOrNone /\ (Positive(filled) => stock # None)
    BY <2>3, <2>4, PositiveNumber DEF NatOrNone, Positive
  <2> HIDE DEF filled
  <2>6. started \in NatOrNone /\ (Positive(started) => stock # None)
    <3>1. CASE ~(p.status = "TEST" /\ p.target # None /\ Empty(filled) /\ stock # None)
      BY <2>5, <3>1 DEF TestStart
    <3>2. CASE p.status = "TEST" /\ p.target # None /\ Empty(filled) /\ stock # None
      <4>1. Larger(0, p.target - stock) \in Nat
        BY <2>2, <3>2, LargerSmaller DEF Numbers
      <4>2. started = Capped(p, stock, Larger(0, p.target - stock))
        BY <3>2 DEF TestStart
      <4>3. QED
        BY <3>2, <4>1, <4>2, CappedBounds DEF NatOrNone
    <3>3. QED
      BY <3>1, <3>2
  <2> HIDE DEF started
  <2>7. QED
    BY <1>2, <2>1, <2>4, <2>6, CappedBounds
<1>3. QED
  BY <1>1, <1>2

Kinds == {"must_buy", "recommended", "manual_review", "postpone", "do_not_buy"}
Buys(d) == d.kind \in {"must_buy", "recommended"}
DecisionTyped(d) ==
    /\ {"kind", "approved", "basis"} \subseteq DOMAIN d
    /\ d.kind \in Kinds /\ d.approved \in NatOrNone

\* A purchase is of the final quantity; a demand that led to one is not refused.
LEMMA DecideFacts ==
  ASSUME NEW d, NEW class, NEW e, e = DecidePhase2Product(d, class), d.final \in NatOrNone
  PROVE  /\ DecisionTyped(e)
         /\ Buys(e) => e.approved = d.final /\ Positive(e.approved)
         /\ e.basis # "assortment_matrix_control"
         /\ Positive(d.demand) /\ Positive(d.final) /\ d.sales # "confirmed_zero" =>
               e.kind # "do_not_buy"
<1>1. d.final # None /\ d.final # 0 => d.final \in Nat \ {0} /\ Positive(d.final)
  BY DEF NatOrNone, Positive
<1>2. ASSUME NEW basis, basis # "assortment_matrix_control",
             e \in {Review(basis, TRUE), Review(basis, FALSE), DoNotBuy(basis)}
      PROVE  /\ DecisionTyped(e) /\ ~Buys(e) /\ e.basis # "assortment_matrix_control"
             /\ e.kind = IF e = DoNotBuy(basis) THEN "do_not_buy" ELSE "manual_review"
  <2>1. CASE e = DoNotBuy(basis)
    BY <1>2, <2>1 DEF DecisionTyped, Kinds, Buys, DoNotBuy, Decision, NatOrNone
  <2>2. CASE e = Review(basis, TRUE)
    BY <1>2, <2>2 DEF DecisionTyped, Kinds, Buys, Review, DoNotBuy, Decision, NatOrNone
  <2>3. CASE e = Review(basis, FALSE)
    BY <1>2, <2>3 DEF DecisionTyped, Kinds, Buys, Review, DoNotBuy, Decision, NatOrNone
  <2>4. QED
    BY <1>2, <2>1, <2>2, <2>3
<1>3. ASSUME NEW kind \in Kinds, d.final # None
      PROVE  LET b == Decision(kind, d.final, "phase2_calculated", FALSE) IN
             /\ DecisionTyped(b) /\ b.approved = d.final /\ b.basis = "phase2_calculated"
             /\ b.kind = kind
  BY <1>3 DEF DecisionTyped, Kinds, Decision, NatOrNone
<1>4. LET b == Decision("postpone", None, "phase2_risk_review", TRUE) IN
      /\ DecisionTyped(b) /\ ~Buys(b) /\ b.basis = "phase2_risk_review" /\ b.kind = "postpone"
  BY DEF DecisionTyped, Kinds, Buys, Decision, NatOrNone
<1>5. CASE d.analyzer = 0 /\ d.sales = "missing" /\ ~d.mandatory /\ ~Positive(d.demand)
  BY <1>2, <1>5 DEF DecidePhase2Product
<1>6. CASE /\ ~(d.analyzer = 0 /\ d.sales = "missing" /\ ~d.mandatory /\ ~Positive(d.demand))
           /\ d.final = None \/ d.final = 0
  <2>1. e = Review("phase2_data_incomplete", FALSE) \/ e = DoNotBuy("phase2_calculated")
    BY <1>6 DEF DecidePhase2Product
  <2>2. ~Positive(d.final)
    BY <1>6 DEF Positive
  <2>3. QED
    BY <1>2, <2>1, <2>2
<1>7. CASE /\ ~(d.analyzer = 0 /\ d.sales = "missing" /\ ~d.mandatory /\ ~Positive(d.demand))
           /\ d.final # None /\ d.final # 0
  <2>1. \/ e = Review("phase2_data_quality_review", FALSE)
        \/ d.sales = "confirmed_zero" /\ e = DoNotBuy("phase2_calculated")
        \/ e = Review("phase2_risk_review", FALSE)
        \/ e = Review("phase2_risk_review", TRUE)
        \/ e = Decision("postpone", None, "phase2_risk_review", TRUE)
        \/ \E kind \in {"must_buy", "recommended"} :
              e = Decision(kind, d.final, "phase2_calculated", FALSE)
    BY <1>7 DEF DecidePhase2Product
  <2>2. CASE \E basis \in {"phase2_data_quality_review", "phase2_risk_review"} :
                e = Review(basis, FALSE) \/ e = Review(basis, TRUE)
    <3>1. e.kind = "manual_review"
      BY <2>2 DEF Review, Decision
    <3>2. QED
      BY <1>2, <2>2, <3>1
  <2>3. CASE d.sales = "confirmed_zero" /\ e = DoNotBuy("phase2_calculated")
    BY <1>2, <2>3
  <2>4. CASE e = Decision("postpone", None, "phase2_risk_review", TRUE)
    BY <1>4, <2>4
  <2>5. ASSUME NEW kind \in {"must_buy", "recommended"},
               e = Decision(kind, d.final, "phase2_calculated", FALSE)
        PROVE  DecisionTyped(e) /\ e.approved = d.final /\ e.basis = "phase2_calculated" /\ e.kind = kind
    BY <1>3, <1>7, <2>5 DEF Kinds
  <2>6. QED
    BY <1>1, <1>7, <2>1, <2>2, <2>3, <2>4, <2>5
<1>8. QED
  BY <1>5, <1>6, <1>7

\* The matrix controller leaves a decision alone, puts the row before the owner, or has it
\* bought, of the final quantity or, when there is none, of the report's.
LEMMA ControlFacts ==
  ASSUME NEW r, NEW d, NEW m, NEW before, NEW after, after = ControlDecision(r, d, m, before),
         DecisionTyped(before), d.final \in NatOrNone, d.analyzer \in Numbers
  PROVE  /\ DecisionTyped(after)
         /\ \/ after = before
            \/ after.kind = "manual_review"
            \/ Buys(after) /\ after.basis = "assortment_matrix_control" /\ Positive(after.approved)
                 /\ (d.final # None => after.approved = d.final)
<1> DEFINE amount == RecommendedQuantity(d)
<1>1. amount \in Int /\ (d.final # None => amount = d.final)
  BY DEF RecommendedQuantity, NatOrNone, Numbers
<1> HIDE DEF amount
<1>2. ASSUME NEW basis, after = Controlled(before, "manual_review", None, basis)
      PROVE  DecisionTyped(after) /\ after.kind = "manual_review"
  BY <1>2 DEF DecisionTyped, Controlled, Kinds, NatOrNone
<1>3. ASSUME NEW kind \in {"must_buy", "recommended"}, amount > 0,
             after = Controlled(before, kind, amount, "assortment_matrix_control")
      PROVE  /\ DecisionTyped(after) /\ Buys(after) /\ after.basis = "assortment_matrix_control"
             /\ Positive(after.approved) /\ after.approved = amount
  BY <1>1, <1>3, NoneNoNumber DEF DecisionTyped, Controlled, Kinds, NatOrNone, Buys, Positive
<1>4. \/ after = before
      \/ \E basis : after = Controlled(before, "manual_review", None, basis)
      \/ \E kind \in {"must_buy", "recommended"} :
            amount > 0 /\ after = Controlled(before, kind, amount, "assortment_matrix_control")
  BY DEF ControlDecision, amount
<1>5. QED
  BY <1>1, <1>2, <1>3, <1>4

-----------------------------------------------------------------------------
(* The invariant, along the stages.                                         *)

Planned == {"policy", "decide", "matrix", "test", "owner", "guard", "working", "done"}
Judged == Planned \ {"policy"}
Chosen == Judged \ {"decide"}
Asked == {"guard", "working", "done"}
Guarded == {"working", "done"}

StagesInv ==
    /\ stage \in Planned \union {"report", "demand"}
    /\ stage \notin Planned => row \in ReportRows
    /\ stage \in Planned => row.free \in Numbers
    /\ stage \notin Chosen => decision = None
    /\ stage \in Chosen => DecisionTyped(decision)
    /\ stage \notin Asked => order = None
    /\ order # None => order \in OwnerOrders
    /\ stage # "done" => line = None

Short == product.available # None /\ product.available < 0
Demanded == product.policy = "none" /\ Positive(product.demand)

\* The plan for the product: a quantity has a known stock and keeps the policy, a demand has
\* a quantity.
PlanInv ==
    stage \in Planned =>
        /\ {"final", "gap", "mandatory", "policy", "awaiting", "required", "guard", "conflict",
            "owner"} \subseteq DOMAIN product
        /\ product.available \in Numbers /\ product.demand \in NatOrNone
        /\ product.final \in NatOrNone /\ product.analyzer \in Numbers
        /\ product.available # None => row.free \in Int /\ row.free >= product.available
        /\ Positive(product.final) => product.available # None /\ row.free \in Nat
        /\ Positive(product.demand) /\ product.policy = "none" /\ ~Short =>
              Positive(product.final) /\ product.sales # "confirmed_zero"
        /\ stage \notin Guarded => product.guard = None /\ product.conflict = FALSE
        /\ stage = "policy" => product.policy = "none"
        /\ product.owner = IF order = None THEN None ELSE order.kind

PolicyInv ==
    stage \in Judged =>
        /\ product.policy = "none" => ~Short
        /\ product.policy = "matched" /\ Positive(product.final) =>
              /\ rule.status # "EXIT" /\ ~HoldActive(rule, product.available) /\ ~product.awaiting
              /\ rule.max # None => product.available + product.final <= rule.max

\* Without an order of the owner the final quantity is bought, or the report's, of a product
\* without a final one.
DecisionInv ==
    stage \in Chosen /\ order = None =>
        /\ Buys(decision) /\ Positive(decision.approved) =>
              \/ decision.approved = product.final
              \/ product.final = None /\ decision.basis = "assortment_matrix_control"
        /\ Demanded => decision.kind # "do_not_buy" /\ (Buys(decision) => Positive(decision.approved))

OrderInv ==
    /\ order # None /\ order.kind = "BUY" /\ (stage = "guard" \/ match.kind # "ambiguous") =>
          decision.kind = "must_buy" /\ decision.approved = order.quantity
    /\ stage \in Guarded =>
          /\ match.kind = "ambiguous" => product.conflict = TRUE
          /\ match.kind # "ambiguous" =>
                product.conflict = FALSE /\ (order # None => product.guard = None)
          /\ product.guard = "excluded" => product.required = {}
          /\ order = None /\ Demanded => product.guard # "excluded"

Answers ==
    /\ NeverBoughtBlind /\ KeepsPolicy /\ OwnerOrderStands /\ DemandIsAnswered
    /\ line # None =>
          line.status \in {"auto_approved", "pending_manual_review", "postponed",
                           "confidently_excluded", "no_order_action", None}

LineInv == StagesInv /\ PlanInv /\ PolicyInv /\ DecisionInv /\ OrderInv /\ Answers

\* Nothing is answered before the end.
LEMMA NothingAnswered ==
  ASSUME line = None
  PROVE  Answers
BY DEF Answers, NeverBoughtBlind, KeepsPolicy, OwnerOrderStands, DemandIsAnswered, AutoApproved

LEMMA LineInitial == LineInit => LineInv
<1> SUFFICES ASSUME LineInit PROVE LineInv
  OBVIOUS
<1>1. Answers
  BY NothingAnswered DEF LineInit
<1>2. QED
  BY <1>1, LineAssumption
     DEF LineInit, LineInv, StagesInv, PlanInv, PolicyInv, DecisionInv, OrderInv,
         Planned, Judged, Chosen, Asked, Guarded

LEMMA ReportStep ==
  ASSUME LineInv, ApplyMinMaxSafetyGuard
  PROVE  LineInv'
<1>1. stage = "report" /\ stage' = "demand" /\ UNCHANGED <<match, rule, order, product, decision, line>>
  BY DEF ApplyMinMaxSafetyGuard, Goes
<1>2. row \in ReportRows
  BY <1>1 DEF LineInv, StagesInv, Planned
<1>3. row' \in ReportRows
  <2>1. [row EXCEPT !.free = 0] \in ReportRows
    BY <1>2 DEF ReportRows, Numbers
  <2>2. QED
    BY <1>2, <2>1 DEF ApplyMinMaxSafetyGuard
<1>4. line' = None /\ order' = None /\ decision' = None
  BY <1>1 DEF LineInv, StagesInv, Chosen, Judged, Planned, Asked
<1>5. Answers'
  BY <1>4 DEF Answers, NeverBoughtBlind, KeepsPolicy, OwnerOrderStands, DemandIsAnswered, AutoApproved
<1>6. QED
  BY <1>1, <1>3, <1>4, <1>5
     DEF LineInv, StagesInv, PlanInv, PolicyInv, DecisionInv, OrderInv,
         Planned, Judged, Chosen, Asked, Guarded

LEMMA DemandStep ==
  ASSUME LineInv, BuildDemandPlan
  PROVE  LineInv'
<1>1. /\ stage = "demand" /\ stage' = "policy" /\ match' \in Matches
      /\ product' = CalculateDemandProduct(row, match')
      /\ row' = [free |-> row.free, supplier |-> row.supplier, class |-> row.class]
      /\ UNCHANGED <<rule, order, decision, line>>
  BY DEF BuildDemandPlan, Goes
<1>2. row \in ReportRows /\ row'.free = row.free /\ row.free \in Numbers
  BY <1>1 DEF LineInv, StagesInv, Planned, ReportRows
<1>3. line' = None /\ order' = None /\ decision' = None
  BY <1>1 DEF LineInv, StagesInv, Chosen, Judged, Planned, Asked
<1>4. /\ {"final", "gap", "mandatory", "policy", "awaiting", "required", "guard", "conflict",
          "owner"} \subseteq DOMAIN product'
      /\ product'.guard = None /\ product'.conflict = FALSE /\ product'.owner = None
      /\ product'.policy = "none"
  BY <1>1 DEF CalculateDemandProduct
<1>5. PlanInv'
  <2>1. PICK d : d = product'
    OBVIOUS
  <2>2. PICK m \in Matches : m = match'
    BY <1>1
  <2>3. d = CalculateDemandProduct(row, m)
    BY <1>1, <2>1, <2>2
  <2>4. /\ d.available \in Numbers /\ d.demand \in NatOrNone /\ d.final \in NatOrNone
        /\ d.analyzer \in Numbers
        /\ d.available # None => row.free \in Int /\ row.free >= d.available
        /\ d.final # None => d.available # None /\ row.free \in Nat
        /\ Positive(d.demand) /\ ~(d.available # None /\ d.available < 0) =>
               Positive(d.final) /\ d.sales # "confirmed_zero"
    BY <1>2, <2>3, DemandFacts
  <2>5. QED
    BY <1>1, <1>2, <1>3, <1>4, <2>1, <2>4 DEF PlanInv, Short, Positive
<1>6. Answers'
  BY <1>3 DEF Answers, NeverBoughtBlind, KeepsPolicy, OwnerOrderStands, DemandIsAnswered, AutoApproved
<1>7. QED
  BY <1>1, <1>2, <1>3, <1>5, <1>6
     DEF LineInv, StagesInv, PolicyInv, DecisionInv, OrderInv,
         Planned, Judged, Chosen, Asked, Guarded

\* The policy: a short stock is isolated, and a rule leaves what PolicyFacts says.
LEMMA PolicyStep ==
  ASSUME LineInv, ApplyAssortmentPolicyToProducts
  PROVE  LineInv'
<1>1. /\ stage = "policy" /\ stage' = "decide" /\ rule' \in PolicyRules \union {None}
      /\ product' = IF Short THEN Isolated(product)
                    ELSE IF rule' = None THEN product ELSE WithPolicy(product, rule')
      /\ UNCHANGED <<row, match, order, decision, line>>
  BY DEF ApplyAssortmentPolicyToProducts, Goes, Short
<1>2. /\ {"final", "gap", "mandatory", "policy", "awaiting", "required", "guard", "conflict",
          "owner"} \subseteq DOMAIN product
      /\ product.available \in Numbers /\ product.demand \in NatOrNone
      /\ product.final \in NatOrNone /\ product.analyzer \in Numbers
      /\ product.available # None => row.free \in Int /\ row.free >= product.available
      /\ Positive(product.final) => product.available # None /\ row.free \in Nat
      /\ Positive(product.demand) /\ product.policy = "none" /\ ~Short =>
              Positive(product.final) /\ product.sales # "confirmed_zero"
      /\ product.guard = None /\ product.conflict = FALSE /\ product.owner = None
      /\ product.policy = "none"
  BY <1>1 DEF LineInv, StagesInv, PlanInv, Planned, Asked, Guarded
<1>3. line' = None /\ order' = None /\ decision' = None
  BY <1>1 DEF LineInv, StagesInv, Chosen, Judged, Planned, Asked
<1>4. CASE Short
  <2>1. product' = [product EXCEPT !.final = 0, !.policy = "isolated"]
    BY <1>1, <1>4 DEF Isolated
  <2>2. PICK d : d = product'
    OBVIOUS
  <2>3. /\ d.final = 0 /\ d.policy = "isolated" /\ DOMAIN d = DOMAIN product
        /\ d.available = product.available /\ d.demand = product.demand
        /\ d.analyzer = product.analyzer /\ d.guard = product.guard
        /\ d.conflict = product.conflict /\ d.owner = product.owner
    BY <1>2, <2>1, <2>2
  <2>4. PlanInv' /\ PolicyInv'
    BY <1>1, <1>2, <1>3, <2>2, <2>3 DEF PlanInv, PolicyInv, Short, Positive, NatOrNone
  <2>5. QED
    BY <1>1, <1>3, <2>4
       DEF LineInv, StagesInv, DecisionInv, OrderInv, Answers, NeverBoughtBlind, KeepsPolicy,
           OwnerOrderStands, DemandIsAnswered, AutoApproved, Planned, Judged, Chosen, Asked, Guarded
<1>5. CASE ~Short /\ rule' = None
  <2>1. product' = product
    BY <1>1, <1>5
  <2>2. PlanInv' /\ PolicyInv'
    BY <1>1, <1>2, <1>3, <1>5, <2>1 DEF LineInv, PlanInv, PolicyInv, Short
  <2>3. QED
    BY <1>1, <1>3, <2>2
       DEF LineInv, StagesInv, DecisionInv, OrderInv, Answers, NeverBoughtBlind, KeepsPolicy,
           OwnerOrderStands, DemandIsAnswered, AutoApproved, Planned, Judged, Chosen, Asked, Guarded
<1>6. CASE ~Short /\ rule' # None
  <2>1. PICK p \in Policies : p = rule'
    BY <1>1, <1>6, LineAssumption
  <2>2. PICK a : a = ApplyAssortmentPolicy(p, product.available, product.final)
    OBVIOUS
  <2>3. /\ a.quantity \in NatOrNone
        /\ Positive(a.quantity) =>
              /\ product.available # None /\ p.status # "EXIT" /\ ~HoldActive(p, product.available)
              /\ ~(p.status = "TEST" /\ p.first)
              /\ p.max # None => product.available + a.quantity <= p.max
    BY <1>2, <2>2, PolicyFacts
  <2>4. PICK d : d = product'
    OBVIOUS
  <2>5. /\ d.final = a.quantity /\ d.policy = "matched"
        /\ d.awaiting = (p.status = "TEST" /\ p.first /\ ~HoldActive(p, product.available))
        /\ d.available = product.available /\ d.demand = product.demand
        /\ d.analyzer = product.analyzer /\ d.guard = product.guard
        /\ d.conflict = product.conflict /\ d.owner = product.owner
        /\ DOMAIN d = DOMAIN product
    BY <1>1, <1>2, <1>6, <2>1, <2>2, <2>4 DEF WithPolicy
  <2>6. PlanInv'
    BY <1>1, <1>2, <1>3, <1>6, <2>3, <2>4, <2>5 DEF PlanInv, Short, Positive, Numbers
  <2>7. PolicyInv'
    BY <1>1, <2>1, <2>3, <2>4, <2>5 DEF PolicyInv, Short
  <2>8. QED
    BY <1>1, <1>3, <2>6, <2>7
       DEF LineInv, StagesInv, DecisionInv, OrderInv, Answers, NeverBoughtBlind, KeepsPolicy,
           OwnerOrderStands, DemandIsAnswered, AutoApproved, Planned, Judged, Chosen, Asked, Guarded
<1>7. QED
  BY <1>1, <1>4, <1>5, <1>6

LEMMA DecideStep ==
  ASSUME LineInv, BuildPhase2PurchasingDecisions
  PROVE  LineInv'
<1>1. /\ stage = "decide" /\ stage' = "matrix" /\ decision' = DecidePhase2Product(product, row.class)
      /\ UNCHANGED <<row, match, rule, order, product, line>>
  BY DEF BuildPhase2PurchasingDecisions, Goes
<1>2. PlanInv /\ PolicyInv /\ product.final \in NatOrNone /\ order = None /\ line = None
  BY <1>1 DEF LineInv, StagesInv, PlanInv, Planned, Asked
<1>3. PICK e : e = decision'
  OBVIOUS
<1>4. /\ DecisionTyped(e)
      /\ Buys(e) => e.approved = product.final /\ Positive(e.approved)
      /\ Positive(product.demand) /\ Positive(product.final) /\ product.sales # "confirmed_zero" =>
            e.kind # "do_not_buy"
  BY <1>1, <1>2, <1>3, DecideFacts
<1>5. Demanded => Positive(product.final) /\ product.sales # "confirmed_zero"
  BY <1>1, <1>2 DEF PlanInv, PolicyInv, Demanded, Planned, Judged
<1>6. PlanInv' /\ PolicyInv'
  BY <1>1, <1>2 DEF PlanInv, PolicyInv, Short, Planned, Judged, Guarded
<1>7. DecisionInv'
  BY <1>1, <1>3, <1>4, <1>5 DEF DecisionInv, Buys, Demanded
<1>8. StagesInv'
  BY <1>1, <1>2, <1>3, <1>4
     DEF LineInv, StagesInv, DecisionTyped, Planned, Judged, Chosen, Asked
<1>9. OrderInv' /\ Answers'
  BY <1>1, <1>2
     DEF OrderInv, Guarded, Answers, NeverBoughtBlind, KeepsPolicy, OwnerOrderStands,
         DemandIsAnswered, AutoApproved
<1>10. QED
  BY <1>6, <1>7, <1>8, <1>9 DEF LineInv

LEMMA MatrixStep ==
  ASSUME LineInv, ApplyAssortmentMatrixControl
  PROVE  LineInv'
<1>1. /\ stage = "matrix" /\ stage' = "test"
      /\ decision' = ControlDecision(row, product, match, decision)
      /\ product' = [product EXCEPT !.required = @ \union RequiredByMatrix(row, product, match, decision)]
      /\ UNCHANGED <<row, match, rule, order, line>>
  BY DEF ApplyAssortmentMatrixControl, Goes
<1>2. /\ PlanInv /\ PolicyInv /\ DecisionInv /\ DecisionTyped(decision) /\ order = None /\ line = None
      /\ product.final \in NatOrNone /\ product.analyzer \in Numbers /\ row.free \in Numbers
  BY <1>1 DEF LineInv, StagesInv, PlanInv, Planned, Judged, Chosen, Asked
<1>3. PICK e : e = decision'
  OBVIOUS
<1>4. /\ DecisionTyped(e)
      /\ \/ e = decision
         \/ e.kind = "manual_review"
         \/ Buys(e) /\ e.basis = "assortment_matrix_control" /\ Positive(e.approved)
              /\ (product.final # None => e.approved = product.final)
  BY <1>1, <1>2, <1>3, ControlFacts
<1>5. PICK d : d = product'
  OBVIOUS
<1>6. /\ DOMAIN d = DOMAIN product
      /\ d.available = product.available /\ d.demand = product.demand /\ d.final = product.final
      /\ d.analyzer = product.analyzer /\ d.sales = product.sales /\ d.policy = product.policy
      /\ d.awaiting = product.awaiting /\ d.guard = product.guard /\ d.conflict = product.conflict
      /\ d.owner = product.owner
  BY <1>1, <1>2, <1>5 DEF PlanInv, Planned
<1>7. PlanInv' /\ PolicyInv'
  BY <1>1, <1>2, <1>5, <1>6 DEF PlanInv, PolicyInv, Short, Planned, Judged, Guarded
<1>8. DecisionInv'
  BY <1>1, <1>2, <1>3, <1>4, <1>5, <1>6
     DEF DecisionInv, Buys, Demanded, Planned, Judged, Chosen
<1>9. StagesInv'
  BY <1>1, <1>2, <1>3, <1>4 DEF StagesInv, DecisionTyped, Planned, Judged, Chosen, Asked
<1>10. OrderInv' /\ Answers'
  BY <1>1, <1>2
     DEF OrderInv, Guarded, Answers, NeverBoughtBlind, KeepsPolicy, OwnerOrderStands,
         DemandIsAnswered, AutoApproved
<1>11. QED
  BY <1>7, <1>8, <1>9, <1>10 DEF LineInv

LEMMA TestStep ==
  ASSUME LineInv, ApplyVerifiedOwnerTestPolicy
  PROVE  LineInv'
<1>1. /\ stage = "test" /\ stage' = "owner"
      /\ \/ decision' = decision
         \/ /\ Positive(product.final)
            /\ decision' = Decision("recommended", product.final, "verified_owner_test_policy", FALSE)
      /\ UNCHANGED <<row, match, rule, order, product, line>>
  BY DEF ApplyVerifiedOwnerTestPolicy, Goes
<1>2. /\ PlanInv /\ PolicyInv /\ DecisionInv /\ DecisionTyped(decision) /\ order = None /\ line = None
      /\ product.final \in NatOrNone /\ row.free \in Numbers
  BY <1>1 DEF LineInv, StagesInv, PlanInv, Planned, Judged, Chosen, Asked
<1>3. PICK e : e = decision'
  OBVIOUS
<1>4. /\ DecisionTyped(e)
      /\ e = decision \/ (Buys(e) /\ e.approved = product.final /\ Positive(product.final))
  <2>1. CASE e = decision
    BY <1>2, <2>1
  <2>2. CASE /\ Positive(product.final)
             /\ e = Decision("recommended", product.final, "verified_owner_test_policy", FALSE)
    BY <1>2, <2>2 DEF Decision, DecisionTyped, Kinds, Buys
  <2>3. QED
    BY <1>1, <1>3, <2>1, <2>2
<1>5. PlanInv' /\ PolicyInv'
  BY <1>1, <1>2 DEF PlanInv, PolicyInv, Short, Planned, Judged, Guarded
<1>6. DecisionInv'
  BY <1>1, <1>2, <1>3, <1>4 DEF DecisionInv, Buys, Demanded, Planned, Judged, Chosen
<1>7. StagesInv'
  BY <1>1, <1>2, <1>3, <1>4 DEF StagesInv, DecisionTyped, Planned, Judged, Chosen, Asked
<1>8. OrderInv' /\ Answers'
  BY <1>1, <1>2
     DEF OrderInv, Guarded, Answers, NeverBoughtBlind, KeepsPolicy, OwnerOrderStands,
         DemandIsAnswered, AutoApproved
<1>9. QED
  BY <1>5, <1>6, <1>7, <1>8 DEF LineInv

LEMMA OwnerStep ==
  ASSUME LineInv, ApplyActiveOwnerOrderDecision
  PROVE  LineInv'
<1>1. /\ stage = "owner" /\ stage' = "guard" /\ order' \in OwnerOrders \union {None}
      /\ decision' = IF order' = None THEN decision ELSE Ordered(decision, order')
      /\ product' = IF order' = None THEN product ELSE [product EXCEPT !.owner = order'.kind]
      /\ UNCHANGED <<row, match, rule, line>>
  BY DEF ApplyActiveOwnerOrderDecision, Goes
<1>2. /\ PlanInv /\ PolicyInv /\ DecisionInv /\ DecisionTyped(decision) /\ order = None /\ line = None
      /\ product.final \in NatOrNone /\ row.free \in Numbers /\ product.owner = None
  BY <1>1 DEF LineInv, StagesInv, PlanInv, Planned, Judged, Chosen, Asked
<1>3. Answers'
  BY <1>1, <1>2
     DEF Answers, NeverBoughtBlind, KeepsPolicy, OwnerOrderStands, DemandIsAnswered, AutoApproved
<1>4. CASE order' = None
  <2>1. PlanInv' /\ PolicyInv' /\ DecisionInv'
    BY <1>1, <1>2, <1>4
       DEF PlanInv, PolicyInv, DecisionInv, Buys, Demanded, Short, Planned, Judged, Chosen, Guarded
  <2>2. StagesInv' /\ OrderInv'
    BY <1>1, <1>2, <1>4
       DEF StagesInv, DecisionTyped, OrderInv, Planned, Judged, Chosen, Asked, Guarded
  <2>3. QED
    BY <1>3, <2>1, <2>2 DEF LineInv
<1>5. CASE order' # None
  <2>1. PICK o \in OwnerOrders : o = order'
    BY <1>1, <1>5
  <2>2. PICK e : e = decision'
    OBVIOUS
  <2>3. e = Ordered(decision, o)
    BY <1>1, <1>5, <2>1, <2>2
  <2>4. DecisionTyped(e) /\ (o.kind = "BUY" => e.kind = "must_buy" /\ e.approved = o.quantity)
    <3>1. CASE o = [kind |-> "BUY", quantity |-> OwnerQuantity]
      BY <1>2, <2>3, <3>1, LineAssumption DEF Ordered, Controlled, DecisionTyped, Kinds, NatOrNone
    <3>2. CASE o = [kind |-> "SKIP"]
      BY <1>2, <2>3, <3>2 DEF Ordered, Controlled, DecisionTyped, Kinds, NatOrNone
    <3>3. CASE o = [kind |-> "DEFER"]
      BY <1>2, <2>3, <3>3 DEF Ordered, Controlled, DecisionTyped, Kinds, NatOrNone
    <3>4. QED
      BY <2>1, <3>1, <3>2, <3>3 DEF OwnerOrders
  <2>5. PICK d : d = product'
    OBVIOUS
  <2>6. /\ DOMAIN d = DOMAIN product /\ d.owner = o.kind
        /\ d.available = product.available /\ d.demand = product.demand /\ d.final = product.final
        /\ d.analyzer = product.analyzer /\ d.sales = product.sales /\ d.policy = product.policy
        /\ d.awaiting = product.awaiting /\ d.guard = product.guard
        /\ d.conflict = product.conflict
    BY <1>1, <1>2, <1>5, <2>1, <2>5 DEF PlanInv, Planned
  <2>7. PlanInv' /\ PolicyInv' /\ DecisionInv'
    BY <1>1, <1>2, <1>5, <2>1, <2>5, <2>6
       DEF PlanInv, PolicyInv, DecisionInv, Short, Planned, Judged, Guarded
  <2>8. StagesInv' /\ OrderInv'
    BY <1>1, <1>2, <1>5, <2>1, <2>2, <2>4
       DEF StagesInv, DecisionTyped, OrderInv, Planned, Judged, Chosen, Asked, Guarded
  <2>9. QED
    BY <1>3, <2>7, <2>8 DEF LineInv
<1>6. QED
  BY <1>4, <1>5

\* The guard leaves both alone, or refuses a product nobody ordered, or puts it before the owner.
GuardLeaves(g, d, e, ambiguous) ==
    \/ ~ambiguous /\ g.d = d /\ g.decided = e
    \/ /\ ~ambiguous /\ d.owner = None /\ e.kind = "do_not_buy" /\ d.required = {}
       /\ g.d = [d EXCEPT !.guard = "excluded", !.conflict = ambiguous]
       /\ g.decided = [e EXCEPT !.approved = None]
    \/ /\ ~ambiguous => d.owner = None
       /\ g.d = [d EXCEPT !.guard = "review", !.conflict = ambiguous]
       /\ g.decided = [e EXCEPT !.kind = "manual_review", !.approved = None]

LEMMA GuardFacts ==
  ASSUME NEW d, NEW e, NEW ambiguous \in BOOLEAN, NEW supplier
  PROVE  GuardLeaves(GuardUnmatchedProduct(d, e, ambiguous, supplier), d, e, ambiguous)
<1>1. CASE ambiguous = TRUE
  BY <1>1 DEF GuardUnmatchedProduct, GuardLeaves
<1>2. CASE ambiguous = FALSE
  BY <1>2 DEF GuardUnmatchedProduct, GuardLeaves
<1>3. QED
  BY <1>1, <1>2

LEMMA GuardStep ==
  ASSUME LineInv, Guard
  PROVE  LineInv'
<1>1. /\ stage = "guard" /\ stage' = "working"
      /\ UNCHANGED <<row, match, rule, order, line>>
  BY DEF Guard, Goes
<1>2. PICK ambiguous \in BOOLEAN : ambiguous = (match.kind = "ambiguous")
  OBVIOUS
<1>3. PICK g : g = GuardUnmatchedProduct(product, decision, ambiguous, row.supplier)
  OBVIOUS
<1>4. product' = g.d /\ decision' = g.decided
  BY <1>2, <1>3 DEF Guard
<1>5. /\ PlanInv /\ PolicyInv /\ DecisionInv /\ OrderInv /\ DecisionTyped(decision) /\ line = None
      /\ order # None => order \in OwnerOrders
      /\ product.owner = (IF order = None THEN None ELSE order.kind)
      /\ product.guard = None /\ product.conflict = FALSE
      /\ product.final \in NatOrNone /\ row.free \in Numbers
  BY <1>1 DEF LineInv, StagesInv, PlanInv, Planned, Judged, Chosen, Asked, Guarded
<1>6. order # None => product.owner # None
  <2>1. ASSUME order # None
        PROVE  order.kind \in {"BUY", "SKIP", "DEFER"}
    <3>1. CASE order = [kind |-> "BUY", quantity |-> OwnerQuantity]
      BY <3>1
    <3>2. CASE order = [kind |-> "SKIP"]
      BY <3>2
    <3>3. CASE order = [kind |-> "DEFER"]
      BY <3>3
    <3>4. QED
      BY <1>5, <2>1, <3>1, <3>2, <3>3 DEF OwnerOrders
  <2>2. QED
    BY <1>5, <2>1, NoneNoWord
<1>7. Answers'
  BY <1>1, <1>5
     DEF Answers, NeverBoughtBlind, KeepsPolicy, OwnerOrderStands, DemandIsAnswered, AutoApproved
<1>8. PICK d, e : d = product' /\ e = decision'
  OBVIOUS
<1>9. /\ DOMAIN d = DOMAIN product /\ d.owner = product.owner
      /\ d.available = product.available /\ d.demand = product.demand /\ d.final = product.final
      /\ d.analyzer = product.analyzer /\ d.sales = product.sales /\ d.policy = product.policy
      /\ d.awaiting = product.awaiting /\ d.required = product.required
      /\ d.conflict = ambiguous
      /\ \/ ~ambiguous /\ e = decision /\ d.guard = None
         \/ /\ ~ambiguous /\ order = None /\ decision.kind = "do_not_buy" /\ product.required = {}
            /\ d.guard = "excluded" /\ e.kind = "do_not_buy" /\ e.approved = None
         \/ /\ ~ambiguous => order = None
            /\ d.guard = "review" /\ e.kind = "manual_review" /\ e.approved = None
      /\ DecisionTyped(e)
  <2>1. CASE ~ambiguous /\ g.d = product /\ g.decided = decision
    BY <1>2, <1>4, <1>5, <1>8, <2>1
  <2>2. CASE /\ ~ambiguous /\ product.owner = None /\ decision.kind = "do_not_buy" /\ product.required = {}
             /\ g.d = [product EXCEPT !.guard = "excluded", !.conflict = ambiguous]
             /\ g.decided = [decision EXCEPT !.approved = None]
    BY <1>1, <1>4, <1>5, <1>6, <1>8, <2>2 DEF PlanInv, Planned, DecisionTyped, Kinds, NatOrNone
  <2>3. CASE /\ ~ambiguous => product.owner = None
             /\ g.d = [product EXCEPT !.guard = "review", !.conflict = ambiguous]
             /\ g.decided = [decision EXCEPT !.kind = "manual_review", !.approved = None]
    BY <1>1, <1>4, <1>5, <1>6, <1>8, <2>3 DEF PlanInv, Planned, DecisionTyped, Kinds, NatOrNone
  <2>4. GuardLeaves(g, product, decision, ambiguous)
    BY <1>3, GuardFacts, Zenon
  <2>5. QED
    BY <2>1, <2>2, <2>3, <2>4 DEF GuardLeaves
<1>10. PlanInv' /\ PolicyInv'
  BY <1>1, <1>5, <1>8, <1>9 DEF PlanInv, PolicyInv, Short, Planned, Judged, Guarded
<1>11. DecisionInv'
  BY <1>1, <1>5, <1>8, <1>9 DEF DecisionInv, Buys, Demanded, Planned, Judged, Chosen, Guarded
<1>12. StagesInv'
  BY <1>1, <1>5, <1>8, <1>9 DEF StagesInv, DecisionTyped, Planned, Judged, Chosen, Asked
<1>13. OrderInv'
  BY <1>1, <1>2, <1>5, <1>8, <1>9, NoneNoWord
     DEF OrderInv, DecisionInv, Demanded, Planned, Judged, Chosen, Guarded
<1>14. QED
  BY <1>7, <1>10, <1>11, <1>12, <1>13 DEF LineInv

\* The working order: a line is approved with the decision the guard leaves, and the guard
\* leaves a purchase only when it changes nothing.
LEMMA WorkingStep ==
  ASSUME LineInv, BuildWorkingOrder
  PROVE  LineInv'
<1>1. /\ stage = "working" /\ stage' = "done"
      /\ UNCHANGED <<row, match, rule, order, product, decision>>
  BY DEF BuildWorkingOrder, Goes
<1>2. /\ PlanInv /\ PolicyInv /\ DecisionInv /\ OrderInv /\ DecisionTyped(decision)
      /\ order # None => order \in OwnerOrders
      /\ row.free \in Numbers /\ product.final \in NatOrNone /\ product.analyzer \in Numbers
      /\ product.owner = (IF order = None THEN None ELSE order.kind)
      /\ {"guard", "conflict"} \subseteq DOMAIN product
      /\ product.conflict = (match.kind = "ambiguous")
  BY <1>1 DEF LineInv, StagesInv, PlanInv, OrderInv, Planned, Judged, Chosen, Asked, Guarded
<1>3. PICK ambiguous \in BOOLEAN : ambiguous = product.conflict
  BY <1>2
<1>4. ambiguous = (match.kind = "ambiguous")
  BY <1>2, <1>3
<1>5. PICK g : g = GuardUnmatchedProduct(product, decision, product.conflict, row.supplier)
  OBVIOUS
<1>6. GuardLeaves(g, product, decision, ambiguous)
  BY <1>3, <1>5, GuardFacts, Zenon
<1>7. PICK d, e : d = g.d /\ e = g.decided
  OBVIOUS
<1>8. PICK status : status = WorkflowStatus(d, e)
  OBVIOUS
<1>9. line' = [status |-> status, approved |-> e.approved, basis |-> e.basis,
               provisional |-> ProvisionalQuantity(d, status)]
  BY <1>5, <1>7, <1>8 DEF BuildWorkingOrder
<1>10. PICK l : l = line'
  OBVIOUS
<1>11. l.status = status /\ l.approved = e.approved /\ l.basis = e.basis
  BY <1>9, <1>10
<1>12. /\ d.owner = product.owner /\ d.demand = product.demand /\ d.final = product.final
       /\ d.analyzer = product.analyzer /\ d.required = product.required
       /\ e.basis = decision.basis
       /\ \/ ~ambiguous /\ e = decision /\ d.guard = product.guard
          \/ /\ ~ambiguous /\ product.owner = None /\ decision.kind = "do_not_buy"
             /\ product.required = {} /\ d.guard = "excluded" /\ e.kind = "do_not_buy"
             /\ e.approved = None
          \/ /\ ~ambiguous => product.owner = None
             /\ d.guard = "review" /\ e.kind = "manual_review" /\ e.approved = None
       /\ DecisionTyped(e)
  <2>1. CASE ~ambiguous /\ g.d = product /\ g.decided = decision
    BY <1>2, <1>7, <2>1
  <2>2. CASE /\ ~ambiguous /\ product.owner = None /\ decision.kind = "do_not_buy" /\ product.required = {}
             /\ g.d = [product EXCEPT !.guard = "excluded", !.conflict = ambiguous]
             /\ g.decided = [decision EXCEPT !.approved = None]
    BY <1>2, <1>7, <2>2 DEF DecisionTyped, Kinds, NatOrNone
  <2>3. CASE /\ ~ambiguous => product.owner = None
             /\ g.d = [product EXCEPT !.guard = "review", !.conflict = ambiguous]
             /\ g.decided = [decision EXCEPT !.kind = "manual_review", !.approved = None]
    BY <1>2, <1>7, <2>3 DEF DecisionTyped, Kinds, NatOrNone
  <2>4. QED
    BY <1>6, <2>1, <2>2, <2>3 DEF GuardLeaves
<1>13. status = "auto_approved" <=>
          /\ d.owner # "SKIP" /\ d.owner # "DEFER" /\ d.guard # "excluded"
          /\ Buys(e) /\ Positive(e.approved)
  BY <1>8, NoneNoWord DEF WorkflowStatus, Buys
<1>14. status = "auto_approved" => match.kind # "ambiguous" /\ e = decision
  BY <1>4, <1>12, <1>13 DEF Buys, Positive
<1>15. status = "auto_approved" /\ order = None =>
          \/ e.approved = product.final /\ Positive(product.final)
          \/ product.final = None /\ e.basis = "assortment_matrix_control"
  BY <1>1, <1>2, <1>13, <1>14 DEF DecisionInv, Planned, Judged, Chosen, Positive
<1>16. NeverBoughtBlind'
  BY <1>1, <1>2, <1>10, <1>11, <1>14, <1>15, NoneNoNumber
     DEF NeverBoughtBlind, AutoApproved, ReportsOwnQuantity, PlanInv, Planned
<1>17. KeepsPolicy'
  BY <1>1, <1>2, <1>10, <1>11, <1>15
     DEF KeepsPolicy, AutoApproved, ReportsOwnQuantity, PolicyInv, Planned, Judged
<1>18. OwnerOrderStands'
  <2>1. order # None => order.kind # None /\ (order.kind = "BUY" => Positive(order.quantity))
    <3>1. CASE order = [kind |-> "BUY", quantity |-> OwnerQuantity]
      BY <3>1, LineAssumption DEF Positive
    <3>2. CASE order = [kind |-> "SKIP"]
      BY <3>2, NoneNoWord
    <3>3. CASE order = [kind |-> "DEFER"]
      BY <3>3, NoneNoWord
    <3>4. QED
      BY <1>2, <3>1, <3>2, <3>3 DEF OwnerOrders
  <2>2. ASSUME order # None
        PROVE  /\ order.kind = "SKIP" => status = "no_order_action"
               /\ order.kind = "DEFER" => status = "postponed"
    BY <1>2, <1>8, <1>12, <2>2 DEF WorkflowStatus
  <2>3. ASSUME order # None, order.kind = "BUY", match.kind # "ambiguous"
        PROVE  status = "auto_approved" /\ e.approved = order.quantity
    <3>1. e = decision /\ d.guard = None /\ d.owner = "BUY"
      BY <1>1, <1>2, <1>4, <1>12, <2>1, <2>3 DEF OrderInv, Guarded
    <3>2. e.kind = "must_buy" /\ e.approved = order.quantity
      BY <1>2, <2>3, <3>1 DEF OrderInv
    <3>3. QED
      BY <1>13, <2>1, <2>3, <3>1, <3>2, NoneNoWord DEF Buys
  <2>4. QED
    BY <1>1, <1>10, <1>11, <2>2, <2>3, NoneNoWord DEF OwnerOrderStands, AutoApproved
<1>19. DemandIsAnswered'
  <2> DEFINE answered == {"auto_approved", "postponed", "pending_manual_review"}
  <2>1. ASSUME order = None, Wanted(d), d.guard # "excluded", ~IsConfidentNoBuy(d, e)
        PROVE  status \in answered
    BY <1>2, <1>8, <1>12, <2>1, NoneNoWord DEF WorkflowStatus
  <2>2. ASSUME order = None, Demanded
        PROVE  status \in answered
    <3>1. Positive(product.final)
      BY <1>1, <1>2, <2>2 DEF PlanInv, PolicyInv, Demanded, Planned, Judged
    <3>2. decision.kind # "do_not_buy" /\ product.guard # "excluded"
      BY <1>1, <1>2, <2>2 DEF DecisionInv, OrderInv, Planned, Judged, Chosen, Guarded
    <3>3. e.kind # "do_not_buy" /\ d.guard # "excluded"
      BY <1>12, <3>2
    <3>4. QED
      BY <1>12, <2>1, <2>2, <3>1, <3>3 DEF Wanted, IsConfidentNoBuy
  <2>3. ASSUME order = None, Positive(product.analyzer), product.required # {}
        PROVE  status \in answered
    <3>1. d.guard # "excluded"
      BY <1>1, <1>2, <1>12, <2>3 DEF OrderInv, Guarded
    <3>2. QED
      BY <1>12, <2>1, <2>3, <3>1 DEF Wanted, IsConfidentNoBuy
  <2>4. QED
    BY <1>1, <1>10, <1>11, <2>2, <2>3 DEF DemandIsAnswered, Demanded
<1>20. status \in {"auto_approved", "pending_manual_review", "postponed",
                  "confidently_excluded", "no_order_action", None}
  BY <1>8 DEF WorkflowStatus
<1>21. Answers'
  BY <1>10, <1>11, <1>16, <1>17, <1>18, <1>19, <1>20 DEF Answers
<1>22. PlanInv' /\ PolicyInv'
  BY <1>1, <1>2 DEF PlanInv, PolicyInv, Short, Planned, Judged, Guarded
<1>23. DecisionInv' /\ OrderInv'
  BY <1>1, <1>2 DEF DecisionInv, OrderInv, Buys, Demanded, Planned, Judged, Chosen, Guarded
<1>24. StagesInv'
  BY <1>1, <1>2 DEF StagesInv, DecisionTyped, Planned, Judged, Chosen, Asked
<1>25. QED
  BY <1>21, <1>22, <1>23, <1>24 DEF LineInv

LEMMA LineStep ==
  ASSUME LineInv, [LineNext]_lineVars
  PROVE  LineInv'
<1>1. CASE UNCHANGED lineVars
  BY <1>1
     DEF lineVars, LineInv, StagesInv, DecisionTyped, PlanInv, PolicyInv, DecisionInv, OrderInv,
         Short, Demanded, Buys, Answers, NeverBoughtBlind, KeepsPolicy, OwnerOrderStands,
         DemandIsAnswered, AutoApproved, ReportsOwnQuantity
<1>2. QED
  BY <1>1, ReportStep, DemandStep, PolicyStep, DecideStep, MatrixStep, TestStep, OwnerStep,
     GuardStep, WorkingStep DEF LineNext

LEMMA LineInvHolds == LineSpec => []LineInv
<1>1. LineInit => LineInv
  BY LineInitial
<1>2. LineInv /\ [LineNext]_lineVars => LineInv'
  BY LineStep
<1>3. QED
  BY <1>1, <1>2, PTL DEF LineSpec

\* The decision on a row and the line it becomes are of the kinds the working order knows, and
\* no quantity is negative (purchasing_decision_engine.js, working_order_builder.js).
THEOREM LineTypeCorrect == LineSpec => []LineTypeOK
<1>1. LineInv => LineTypeOK
  <2> SUFFICES ASSUME LineInv PROVE LineTypeOK
    OBVIOUS
  <2>1. /\ stage \in {"report", "demand", "policy", "decide", "matrix", "test", "owner", "guard",
                     "working", "done"}
        /\ line # None =>
             line.status \in {"auto_approved", "pending_manual_review", "postponed",
                              "confidently_excluded", "no_order_action", None}
    BY DEF LineInv, StagesInv, Answers, Planned
  <2>2. decision = None \/ DecisionTyped(decision)
    BY DEF LineInv, StagesInv
  <2>3. QED
    BY <2>1, <2>2 DEF LineTypeOK, DecisionTyped, Kinds, NatOrNone
<1>2. QED
  BY <1>1, LineInvHolds, PTL

\* Whatever the report says and the owner orders, a line approved on its own has an identity
\* that is not in doubt, and without his order a known stock that is not negative.
THEOREM StockIsKnown == LineSpec => []NeverBoughtBlind
<1>1. LineInv => NeverBoughtBlind
  BY DEF LineInv, Answers
<1>2. QED
  BY <1>1, LineInvHolds, PTL

\* A line approved on its own obeys the assortment policy: after the demand, the matrix
\* controller, the verified test and the guard the stock is not above the rule's maximum.
THEOREM PolicyIsKept == LineSpec => []KeepsPolicy
<1>1. LineInv => KeepsPolicy
  BY DEF LineInv, Answers
<1>2. QED
  BY <1>1, LineInvHolds, PTL

\* No later stage undoes the owner's standing decision, and none gives his purchase to a
\* product whose identity is in doubt.
THEOREM OwnerDecides == LineSpec => []OwnerOrderStands
<1>1. LineInv => OwnerOrderStands
  BY DEF LineInv, Answers
<1>2. QED
  BY <1>1, LineInvHolds, PTL

\* A demand the engine has computed never ends as a line nobody looks at.
THEOREM NoDemandLost == LineSpec => []DemandIsAnswered
<1>1. LineInv => DemandIsAnswered
  BY DEF LineInv, Answers
<1>2. QED
  BY <1>1, LineInvHolds, PTL

-----------------------------------------------------------------------------
(* ApprovedRules: the key and the rule of a row.                            *)

\* A set of naturals has a least one.
LEMMA LeastNatural ==
  ASSUME NEW S \in SUBSET Nat, S # {}
  PROVE  Min(S) \in S /\ \A n \in S : Min(S) <= n
<1>1. PICK m \in S : \A n \in S : ~(<<n, m>> \in OpToRel(<, Nat))
  BY NatLessThanWellFounded, WFMin, Zenon
<1>2. ASSUME NEW n \in S, n < m
      PROVE  <<n, m>> \in OpToRel(<, Nat)
  BY <1>2 DEF OpToRel
<1>3. \A n \in S : ~(n < m)
  BY <1>1, <1>2, Zenon
<1>4. \A n \in S : m <= n
  BY <1>3
<1>5. QED
  BY <1>4 DEF Min

\* The key of a row is its own: of no other row, and its place only when nothing else is.
LEMMA StableKey ==
  ASSUME NEW c \in Calculations, NEW r \in DOMAIN c.lines
  PROVE  /\ StableItemKey(c.lines, r) \in Range(c.lines[r].keys) \union {r}
         /\ \A o \in DOMAIN c.lines \ {r} : StableItemKey(c.lines, r) \notin Range(c.lines[o].keys)
<1> DEFINE keys == c.lines[r].keys
           own == {n \in DOMAIN keys : \A o \in DOMAIN c.lines \ {r} : keys[n] \notin Range(c.lines[o].keys)}
<1>1. StableItemKey(c.lines, r) = IF own = {} THEN r ELSE keys[Min(own)]
  BY DEF StableItemKey
<1>2. CASE own = {}
  BY <1>1, <1>2, RulesAssumption
<1>3. CASE own # {}
  <2>1. keys \in Seq(STRING)
    BY RulesAssumption DEF CalculatedLines
  <2>2. own \in SUBSET Nat
    BY <2>1
  <2>3. Min(own) \in own
    BY <1>3, <2>2, LeastNatural
  <2>4. QED
    BY <1>1, <1>3, <2>3 DEF Range
<1>4. QED
  BY <1>2, <1>3

\* A rule is applied only when the active rules about the row agree, and not to buy.
LEMMA AppliedFacts ==
  ASSUME NEW item \in CalculatedLines, NEW decisions \in SUBSET {"BUY", "SKIP", "DEFER"}, decisions # {},
         NEW a, a = ApplyApprovedRule(item, decisions)
  PROVE  /\ a \in Remarks /\ a.agentQuantity = AgentQuantity(item)
         /\ a.status # "APPLIED" => a.quantity = AgentQuantity(item)
         /\ a.status = "APPLIED" => /\ a.quantity = 0
                                    /\ \E d \in {"SKIP", "DEFER"} : decisions = {d}
<1> DEFINE chosen == CHOOSE d \in decisions : TRUE
           agent == Recommendation(item)
           Kept(status) == Application(item, status, agent, AgentQuantity(item))
<1>1. agent \in Recommendations
  BY DEF Recommendation, Recommendations
<1>2. AgentQuantity(item) \in Nat
  BY DEF AgentQuantity, CalculatedLines, Quantities
<1>3. chosen \in decisions /\ chosen \in {"BUY", "SKIP", "DEFER"}
  OBVIOUS
<1> HIDE DEF chosen, agent
<1>4. ASSUME NEW status \in {"BLOCKED_CONFLICT", "BLOCKED_UNKNOWN_RECOMMENDATION", "UNCHANGED",
                             "MANUAL_REVIEW"}, a = Kept(status)
      PROVE  /\ a \in Remarks /\ a.agentQuantity = AgentQuantity(item)
             /\ a.quantity = AgentQuantity(item) /\ a.status # "APPLIED"
  BY <1>1, <1>2, <1>4 DEF Application, Remarks
<1>5. ASSUME ~(Cardinality(decisions) > 1), chosen # "BUY", a = Application(item, "APPLIED", chosen, 0)
      PROVE  /\ a \in Remarks /\ a.agentQuantity = AgentQuantity(item)
             /\ a.status = "APPLIED" /\ a.quantity = 0
             /\ \E d \in {"SKIP", "DEFER"} : decisions = {d}
  <2>1. /\ a \in Remarks /\ a.agentQuantity = AgentQuantity(item)
        /\ a.status = "APPLIED" /\ a.quantity = 0
    BY <1>2, <1>3, <1>5 DEF Application, Remarks, Recommendations
  <2>2. decisions = {chosen}
    <3>1. IsFiniteSet({"BUY", "SKIP", "DEFER"})
      <4>1. IsFiniteSet({"BUY"} \union {"SKIP"})
        BY FS_Singleton, FS_AddElement
      <4>2. IsFiniteSet(({"BUY"} \union {"SKIP"}) \union {"DEFER"})
        BY <4>1, FS_AddElement
      <4>3. ({"BUY"} \union {"SKIP"}) \union {"DEFER"} = {"BUY", "SKIP", "DEFER"}
        OBVIOUS
      <4>4. QED
        BY <4>2, <4>3
    <3>2. IsFiniteSet(decisions)
      BY <3>1, FS_Subset
    <3>3. Cardinality(decisions) \in Nat /\ Cardinality(decisions) # 0
      BY <3>2, FS_CardinalityType, FS_EmptySet
    <3>4. Cardinality(decisions) = 1
      BY <1>5, <3>3
    <3>5. PICK x : decisions = {x}
      BY <3>2, <3>4, FS_Singleton
    <3>6. QED
      BY <1>3, <3>5
  <2>3. QED
    BY <1>3, <1>5, <2>1, <2>2
<1>6. \/ \E status \in {"BLOCKED_CONFLICT", "BLOCKED_UNKNOWN_RECOMMENDATION", "UNCHANGED",
                        "MANUAL_REVIEW"} : a = Kept(status)
      \/ /\ ~(Cardinality(decisions) > 1) /\ chosen # "BUY"
         /\ a = Application(item, "APPLIED", chosen, 0)
  BY DEF ApplyApprovedRule, chosen, agent
<1>7. QED
  BY <1>4, <1>5, <1>6

Registry(g) == g \in [DOMAIN g -> OwnerRules]

LEMMA DecisionsTyped ==
  ASSUME NEW lines, NEW g, Registry(g), NEW r
  PROVE  Decisions(lines, g, r) \in SUBSET {"BUY", "SKIP", "DEFER"}
BY DEF Decisions, Registry, OwnerRules

\* What becomes of the rows a rule is about.
LEMMA ApplicationsFacts ==
  ASSUME NEW c \in Calculations, NEW g, Registry(g), NEW r \in DOMAIN Applications(c.lines, g)
  PROVE  LET a == Applications(c.lines, g)[r] IN
         /\ r \in DOMAIN c.lines /\ c.lines[r] \in CalculatedLines
         /\ a \in Remarks /\ a.agentQuantity = AgentQuantity(c.lines[r])
         /\ a.status # "APPLIED" => a.quantity = AgentQuantity(c.lines[r])
         /\ a.status = "APPLIED" => /\ a.quantity = 0
                                    /\ \E d \in {"SKIP", "DEFER"} : Decisions(c.lines, g, r) = {d}
<1>1. r \in DOMAIN c.lines /\ Decisions(c.lines, g, r) # {}
  BY DEF Applications
<1>2. Applications(c.lines, g)[r] = ApplyApprovedRule(c.lines[r], Decisions(c.lines, g, r))
  BY <1>1 DEF Applications
<1>3. c.lines[r] \in CalculatedLines
  BY <1>1, RulesAssumption
<1>4. PICK item \in CalculatedLines : item = c.lines[r]
  BY <1>3
<1>5. PICK decisions \in SUBSET {"BUY", "SKIP", "DEFER"} : decisions = Decisions(c.lines, g, r)
  BY DecisionsTyped
<1>6. PICK a : a = ApplyApprovedRule(item, decisions)
  OBVIOUS
<1>7. /\ a \in Remarks /\ a.agentQuantity = AgentQuantity(item)
      /\ a.status # "APPLIED" => a.quantity = AgentQuantity(item)
      /\ a.status = "APPLIED" => /\ a.quantity = 0
                                 /\ \E d \in {"SKIP", "DEFER"} : decisions = {d}
  BY <1>1, <1>5, <1>6, AppliedFacts
<1>8. QED
  BY <1>1, <1>2, <1>3, <1>4, <1>5, <1>6, <1>7

\* A published row is the calculated one, or the one with the remark and, if the rule was
\* applied, its quantity.
RowAsPublished(item, apps, r, p) ==
    \/ p = item /\ (r \in DOMAIN apps => apps[r].status # "APPLIED")
    \/ /\ r \in DOMAIN apps
       /\ p = [item EXCEPT
                 !.approved = IF apps[r].status = "APPLIED" THEN apps[r].quantity ELSE @,
                 !.application = apps[r]]

LEMMA PublishedFacts ==
  ASSUME NEW c \in Calculations, NEW g, Registry(g)
  PROVE  /\ DOMAIN Published(c.lines, g) = DOMAIN c.lines
         /\ \A r \in DOMAIN c.lines :
               RowAsPublished(c.lines[r], Applications(c.lines, g), r, Published(c.lines, g)[r])
<1>1. CASE ~\E r \in DOMAIN Applications(c.lines, g) : Applications(c.lines, g)[r].status = "APPLIED"
  <2>1. Published(c.lines, g) = c.lines
    BY <1>1 DEF Published, PublishAppliedResult
  <2>2. QED
    BY <1>1, <2>1 DEF RowAsPublished
<1>2. CASE \E r \in DOMAIN Applications(c.lines, g) : Applications(c.lines, g)[r].status = "APPLIED"
  <2>1. Published(c.lines, g) =
          [r \in DOMAIN c.lines |->
            IF r \notin DOMAIN Applications(c.lines, g) THEN c.lines[r]
            ELSE [c.lines[r] EXCEPT
                    !.approved = IF Applications(c.lines, g)[r].status = "APPLIED"
                                 THEN Applications(c.lines, g)[r].quantity ELSE @,
                    !.application = Applications(c.lines, g)[r]]]
    BY <1>2 DEF Published, PublishAppliedResult
  <2>2. QED
    BY <2>1 DEF RowAsPublished
<1>3. QED
  BY <1>1, <1>2

\* The run: what it puts in the place of a quantity, and which rules said so.
TakenAway(c, g, r, p) ==
    p.approved # c.lines[r].approved =>
        p.approved = 0 /\ \E d \in {"SKIP", "DEFER"} : Decisions(c.lines, g, r) = {d}

LEMMA PublishedRow ==
  ASSUME NEW c \in Calculations, NEW g, Registry(g), NEW r \in DOMAIN c.lines,
         NEW p, p = Published(c.lines, g)[r]
  PROVE  /\ p.approved \in Quantities /\ p.application \in Remarks \union {None}
         /\ TakenAway(c, g, r, p)
         /\ p.decision = c.lines[r].decision /\ p.price = c.lines[r].price
         /\ p.keys = c.lines[r].keys /\ DOMAIN p = DOMAIN c.lines[r]
         /\ p.application = None => p = c.lines[r]
         /\ p.application # None => p.application.agentQuantity = AgentQuantity(c.lines[r])
         /\ AgentQuantity(p) = Outcome(c.lines, Applications(c.lines, g))[r].quantity
<1> DEFINE item == c.lines[r]
           apps == Applications(c.lines, g)
           a == apps[r]
<1>1. item \in CalculatedLines
  BY RulesAssumption
<1>2. Outcome(c.lines, apps)[r].quantity = IF r \in DOMAIN apps THEN a.quantity ELSE AgentQuantity(item)
  BY DEF Outcome
<1>3. CASE p = item /\ (r \in DOMAIN apps => a.status # "APPLIED")
  <2>1. r \in DOMAIN apps => a.quantity = AgentQuantity(item)
    BY <1>3, ApplicationsFacts
  <2>2. QED
    BY <1>1, <1>2, <1>3, <2>1 DEF CalculatedLines, TakenAway
<1>4. CASE /\ r \in DOMAIN apps
           /\ p = [item EXCEPT !.approved = IF a.status = "APPLIED" THEN a.quantity ELSE @,
                               !.application = a]
  <2>1. /\ a \in Remarks /\ a.agentQuantity = AgentQuantity(item)
        /\ a.status # "APPLIED" => a.quantity = AgentQuantity(item)
        /\ a.status = "APPLIED" => /\ a.quantity = 0
                                   /\ \E d \in {"SKIP", "DEFER"} : Decisions(c.lines, g, r) = {d}
    BY <1>4, ApplicationsFacts
  <2>2. a # None
    BY <2>1, RulesAssumption
  <2> HIDE DEF apps, a, item
  <2>3. /\ p.approved = (IF a.status = "APPLIED" THEN a.quantity ELSE item.approved)
        /\ p.application = a /\ p.decision = item.decision /\ p.price = item.price
        /\ p.keys = item.keys /\ DOMAIN p = DOMAIN item
    BY <1>1, <1>4 DEF CalculatedLines
  <2>4. p.approved \in Quantities /\ 0 # None
    BY <1>1, <2>1, <2>3, RulesAssumption DEF CalculatedLines, Quantities
  <2>5. AgentQuantity(p) = a.quantity
    BY <1>1, <2>1, <2>3, <2>4 DEF AgentQuantity, CalculatedLines, Quantities
  <2>6. QED
    BY <1>2, <1>4, <2>1, <2>2, <2>3, <2>4, <2>5 DEF TakenAway, item, apps
<1>5. RowAsPublished(item, apps, r, p)
  BY PublishedFacts
<1>6. QED
  BY <1>3, <1>4, <1>5 DEF RowAsPublished

\* What was taken away, active rules took that name the row and are of one mind.
LEMMA NamedByRules ==
  ASSUME NEW c \in Calculations, NEW g, Registry(g), NEW r \in DOMAIN c.lines,
         NEW p, TakenAway(c, g, r, p), p.approved # c.lines[r].approved
  PROVE  LET Names(k) == /\ k \in Range(c.lines[r].keys) \union {r}
                         /\ \A o \in DOMAIN c.lines \ {r} : k \notin Range(c.lines[o].keys)
             about == {i \in DOMAIN g : g[i].status = "ACTIVE" /\ g[i].valid /\ Names(g[i].key)} IN
         /\ p.approved = 0
         /\ \E against \in {"SKIP", "DEFER"}, i \in about :
               \A j \in about : g[j].key = g[i].key => g[j].decision = against
<1> DEFINE key == StableItemKey(c.lines, r)
           Names(k) == /\ k \in Range(c.lines[r].keys) \union {r}
                       /\ \A o \in DOMAIN c.lines \ {r} : k \notin Range(c.lines[o].keys)
           about == {i \in DOMAIN g : g[i].status = "ACTIVE" /\ g[i].valid /\ Names(g[i].key)}
<1>1. Names(key)
  BY StableKey
<1> HIDE DEF key, Names
<1>2. PICK against \in {"SKIP", "DEFER"} : p.approved = 0 /\ Decisions(c.lines, g, r) = {against}
  BY DEF TakenAway
<1>3. Decisions(c.lines, g, r) =
        {g[i].decision : i \in {j \in DOMAIN g : g[j].status = "ACTIVE" /\ g[j].valid /\ g[j].key = key}}
  BY DEF Decisions, key
<1>4. PICK i \in DOMAIN g : g[i].status = "ACTIVE" /\ g[i].valid /\ g[i].key = key
  BY <1>2, <1>3
<1>5. i \in about
  BY <1>1, <1>4
<1>6. ASSUME NEW j \in about, g[j].key = g[i].key
      PROVE  g[j].decision = against
  BY <1>2, <1>3, <1>4, <1>6
<1>7. QED
  BY <1>2, <1>5, <1>6 DEF Names

-----------------------------------------------------------------------------
(* ApprovedRules: the forecast.                                             *)

\* Two calculations that differ in nothing the rules and the totals look at.
Alike(b, lines) ==
    /\ DOMAIN b = DOMAIN lines
    /\ \A r \in DOMAIN lines :
          /\ b[r].decision = lines[r].decision /\ b[r].price = lines[r].price
          /\ b[r].keys = lines[r].keys /\ AgentQuantity(b[r]) = AgentQuantity(lines[r])

LEMMA AlikeApplications ==
  ASSUME NEW b, NEW lines, Alike(b, lines), NEW g
  PROVE  Applications(b, g) = Applications(lines, g)
<1>1. ASSUME NEW r \in DOMAIN lines
      PROVE  StableItemKey(b, r) = StableItemKey(lines, r)
  <2>1. /\ b[r].keys = lines[r].keys /\ DOMAIN b = DOMAIN lines
        /\ \A o \in DOMAIN lines : Range(b[o].keys) = Range(lines[o].keys)
    BY DEF Alike
  <2>2. {n \in DOMAIN b[r].keys : \A o \in DOMAIN b \ {r} : b[r].keys[n] \notin Range(b[o].keys)}
          = {n \in DOMAIN lines[r].keys :
                \A o \in DOMAIN lines \ {r} : lines[r].keys[n] \notin Range(lines[o].keys)}
    BY <2>1
  <2>3. QED
    BY <2>1, <2>2 DEF StableItemKey
<1>2. ASSUME NEW r \in DOMAIN lines
      PROVE  Decisions(b, g, r) = Decisions(lines, g, r)
  BY <1>1 DEF Decisions
<1>3. ASSUME NEW r \in DOMAIN lines, NEW decisions
      PROVE  ApplyApprovedRule(b[r], decisions) = ApplyApprovedRule(lines[r], decisions)
  <2>1. Recommendation(b[r]) = Recommendation(lines[r]) /\ AgentQuantity(b[r]) = AgentQuantity(lines[r])
    BY DEF Alike, Recommendation
  <2>2. QED
    BY <2>1 DEF ApplyApprovedRule, Application
<1>4. DOMAIN b = DOMAIN lines
  BY DEF Alike
<1>5. {s \in DOMAIN b : Decisions(b, g, s) # {}} = {s \in DOMAIN lines : Decisions(lines, g, s) # {}}
  BY <1>2, <1>4
<1>6. QED
  BY <1>2, <1>3, <1>5 DEF Applications

LEMMA AlikeOutcome ==
  ASSUME NEW b, NEW lines, Alike(b, lines), NEW apps
  PROVE  Outcome(b, apps) = Outcome(lines, apps)
<1>1. DOMAIN b = DOMAIN lines
  BY DEF Alike
<1>2. ASSUME NEW r \in DOMAIN lines
      PROVE  Recommendation(b[r]) = Recommendation(lines[r]) /\ AgentQuantity(b[r]) = AgentQuantity(lines[r])
  BY DEF Alike, Recommendation
<1>3. QED
  BY <1>1, <1>2 DEF Outcome

LEMMA AlikeTotals ==
  ASSUME NEW money, NEW b, NEW lines, Alike(b, lines), NEW outcome
  PROVE  Recalculate(money, b, outcome) = Recalculate(money, lines, outcome)
<1> DEFINE Ordered_(x) == {r \in DOMAIN x : outcome[r].quantity > 0}
           Amounts(x) == [r \in Ordered_(x) |-> outcome[r].quantity * x[r].price]
           Unsure(x) == \/ \E r \in Ordered_(x) : outcome[r].recommendation # "BUY" \/ x[r].price = None
                        \/ money.available = None
<1>1. Ordered_(b) = Ordered_(lines)
  BY DEF Alike
<1>2. Amounts(b) = Amounts(lines)
  BY <1>1 DEF Alike
<1>3. Unsure(b) <=> Unsure(lines)
  BY <1>1 DEF Alike
<1>4. ASSUME NEW x
      PROVE  Recalculate(money, x, outcome) =
               LET amount == SumFunction(Amounts(x))
                   status == FinancialStatus(money.available - amount, money.reserve, money.warning) IN
               IF Unsure(x) THEN None
               ELSE [amount |-> amount,
                     units |-> SumFunction([r \in Ordered_(x) |-> outcome[r].quantity]),
                     status |-> status, permitted |-> status \in {"APPROVED", "APPROVED_WITH_WARNING"}]
  BY DEF Recalculate
<1> HIDE DEF Ordered_, Amounts, Unsure
<1>5. QED
  BY <1>1, <1>2, <1>3, <1>4

LEMMA AlikeShown ==
  ASSUME NEW money, NEW b, NEW lines, Alike(b, lines), NEW g
  PROVE  Report(money, b, g) = Report(money, lines, g) /\ Shown(money, b, g) = Shown(money, lines, g)
BY AlikeApplications, AlikeOutcome, AlikeTotals DEF Report, Shown

\* What an application remembers is enough to take it back.
Restorable(x, lines) ==
    /\ DOMAIN x = DOMAIN lines
    /\ \A r \in DOMAIN lines :
          /\ x[r].decision = lines[r].decision /\ x[r].price = lines[r].price
          /\ x[r].keys = lines[r].keys /\ DOMAIN x[r] = DOMAIN lines[r]
          /\ x[r].application = None => x[r] = lines[r]
          /\ x[r].application # None => x[r].application.agentQuantity = AgentQuantity(lines[r])

\* Whatever the run did to the calculation, the forecast starts from the agent's.
LEMMA RestoredAlike ==
  ASSUME NEW c \in Calculations, NEW x,
         x = c.lines \/ \E g : Registry(g) /\ x = Published(c.lines, g)
  PROVE  Alike(RestoreBaselineAgentResult(x), c.lines)
<1> DEFINE b == RestoreBaselineAgentResult(x)
<1>1. Restorable(x, c.lines)
  <2>1. CASE x = c.lines
    <3>1. \A r \in DOMAIN c.lines : c.lines[r].application = None
      BY RulesAssumption DEF CalculatedLines
    <3>2. QED
      BY <2>1, <3>1 DEF Restorable
  <2>2. ASSUME NEW g, Registry(g), x = Published(c.lines, g)
        PROVE  Restorable(x, c.lines)
    <3>1. DOMAIN x = DOMAIN c.lines
      BY <2>2, PublishedFacts
    <3>2. ASSUME NEW r \in DOMAIN c.lines
          PROVE  /\ x[r].decision = c.lines[r].decision /\ x[r].price = c.lines[r].price
                 /\ x[r].keys = c.lines[r].keys /\ DOMAIN x[r] = DOMAIN c.lines[r]
                 /\ x[r].application = None => x[r] = c.lines[r]
                 /\ x[r].application # None =>
                       x[r].application.agentQuantity = AgentQuantity(c.lines[r])
      BY <2>2, PublishedRow
    <3>3. QED
      BY <3>1, <3>2 DEF Restorable
  <2>3. QED
    BY <2>1, <2>2
<1>2. ASSUME NEW r \in DOMAIN c.lines
      PROVE  /\ b[r].decision = c.lines[r].decision /\ b[r].price = c.lines[r].price
             /\ b[r].keys = c.lines[r].keys /\ AgentQuantity(b[r]) = AgentQuantity(c.lines[r])
  <2>1. c.lines[r] \in CalculatedLines
    BY RulesAssumption
  <2>2. CASE x[r].application = None
    <3>1. b[r] = c.lines[r]
      BY <1>1, <2>2 DEF Restorable, RestoreBaselineAgentResult
    <3>2. QED
      BY <3>1
  <2>3. CASE x[r].application # None
    <3>1. b[r] = [x[r] EXCEPT !.approved = x[r].application.agentQuantity, !.application = None]
      BY <1>1, <2>3 DEF Restorable, RestoreBaselineAgentResult
    <3>2. {"decision", "approved", "price", "keys", "application"} = DOMAIN x[r]
      BY <1>1, <2>1 DEF Restorable, CalculatedLines
    <3>3. PICK p : p = b[r]
      OBVIOUS
    <3>4. /\ p.decision = x[r].decision /\ p.price = x[r].price /\ p.keys = x[r].keys
          /\ p.approved = x[r].application.agentQuantity
      BY <3>1, <3>2, <3>3
    <3>5. AgentQuantity(c.lines[r]) \in Nat
      BY <2>1 DEF AgentQuantity, CalculatedLines, Quantities
    <3>6. AgentQuantity(p) = AgentQuantity(c.lines[r])
      BY <1>1, <2>3, <3>4, <3>5, RulesAssumption DEF Restorable, AgentQuantity
    <3>7. QED
      BY <1>1, <3>3, <3>4, <3>6 DEF Restorable
  <2>4. QED
    BY <2>2, <2>3
<1>3. DOMAIN b = DOMAIN c.lines
  BY <1>1 DEF Restorable, RestoreBaselineAgentResult
<1>4. QED
  BY <1>2, <1>3 DEF Alike

\* An order is permitted only if it leaves the reserve.
LEMMA PermittedLeavesReserve ==
  ASSUME NEW money, NEW lines, NEW outcome, NEW totals, totals = Recalculate(money, lines, outcome),
         totals # None, totals.permitted
  PROVE  ~(money.available - totals.amount - money.reserve < 0)
<1> DEFINE ordered == {r \in DOMAIN lines : outcome[r].quantity > 0}
           amount == SumFunction([r \in ordered |-> outcome[r].quantity * lines[r].price])
           status == FinancialStatus(money.available - amount, money.reserve, money.warning)
<1>1. totals = [amount |-> amount, units |-> SumFunction([r \in ordered |-> outcome[r].quantity]),
                status |-> status, permitted |-> status \in {"APPROVED", "APPROVED_WITH_WARNING"}]
  BY DEF Recalculate
<1> HIDE DEF amount, status
<1>2. totals.amount = amount
  BY <1>1
<1>3. CASE status \in {"APPROVED", "APPROVED_WITH_WARNING"}
  BY <1>2, <1>3 DEF FinancialStatus, status
<1>4. CASE status \notin {"APPROVED", "APPROVED_WITH_WARNING"}
  <2>1. (status \in {"APPROVED", "APPROVED_WITH_WARNING"}) = FALSE
    BY <1>4
  <2>2. PICK permitted : permitted = (status \in {"APPROVED", "APPROVED_WITH_WARNING"})
    OBVIOUS
  <2>3. PICK units : totals = [amount |-> amount, units |-> units, status |-> status, permitted |-> permitted]
    BY <1>1, <2>2, Zenon
  <2>4. totals.permitted = permitted
    BY <2>3
  <2>5. permitted = FALSE
    BY <2>1, <2>2, Zenon
  <2>6. QED
    BY <2>4, <2>5
<1>5. QED
  BY <1>3, <1>4

-----------------------------------------------------------------------------
(* ApprovedRules: the invariant.                                            *)

\* What the owner is shown is of the agent's calculation, and there are totals to show.
ShownOf(shown, g) ==
    /\ Report(calculation, calculation.lines, g) # None
    /\ shown = Shown(calculation, calculation.lines, g)

RulesInv ==
    /\ calculation \in Calculations /\ mode \in {"OFF", "PREVIEW", "APPLY_SAFE"}
    /\ Registry(rules)
    /\ result # None =>
          /\ Registry(ranWith)
          /\ \/ result = calculation.lines
             \/ mode = "APPLY_SAFE" /\ result = Published(calculation.lines, ranWith)
    /\ forecast # None =>
          /\ forecast.rule \in DOMAIN rules
          /\ ShownOf(forecast.before, rules) /\ ShownOf(forecast.after, WithRule(forecast.rule))
          /\ forecast.permitted =>
                Report(calculation, calculation.lines, WithRule(forecast.rule)).after.permitted

LEMMA SwitchTyped ==
  ASSUME Registry(rules), NEW i \in DOMAIN rules
  PROVE  Registry(WithRule(i))
<1>1. rules[i] \in OwnerRules
  BY DEF Registry
<1>2. [rules[i] EXCEPT !.status = Toggled(@)] \in OwnerRules
  BY <1>1 DEF OwnerRules, Toggled
<1>3. QED
  BY <1>2 DEF WithRule, Registry

LEMMA RulesInvHolds == RulesSpec => []RulesInv
<1>1. RulesInit => RulesInv
  BY RulesAssumption DEF RulesInit, RulesInv, Registry
<1>2. RulesInv /\ [RulesNext]_ruleVars => RulesInv'
  <2> SUFFICES ASSUME RulesInv, [RulesNext]_ruleVars
               PROVE  RulesInv'
    OBVIOUS
  <2>1. CASE ProcessApprovedRules
    <3>1. result' = calculation.lines \/ (mode = "APPLY_SAFE" /\ result' = Published(calculation.lines, rules))
      BY <2>1 DEF ProcessApprovedRules
    <3>2. ranWith' = rules /\ UNCHANGED <<calculation, mode, rules, forecast>>
      BY <2>1 DEF ProcessApprovedRules
    <3>3. QED
      BY <3>1, <3>2 DEF RulesInv, ShownOf, WithRule
  <2>2. ASSUME NEW i \in DOMAIN rules, PreviewRuleStatusChange(i)
        PROVE  RulesInv'
    <3> DEFINE lines == RestoreBaselineAgentResult(result)
    <3>1. /\ Report(calculation, lines, rules) # None
          /\ Report(calculation, lines, WithRule(i)) # None
          /\ forecast' = [rule |-> i, before |-> Shown(calculation, lines, rules),
                          after |-> Shown(calculation, lines, WithRule(i)),
                          permitted |-> Report(calculation, lines, WithRule(i)).after.permitted]
          /\ result # None /\ UNCHANGED <<calculation, mode, rules, result, ranWith>>
      BY <2>2 DEF PreviewRuleStatusChange
    <3>2. Alike(lines, calculation.lines)
      BY <3>1, RestoredAlike DEF RulesInv
    <3>3. \A g : /\ Report(calculation, lines, g) = Report(calculation, calculation.lines, g)
                 /\ Shown(calculation, lines, g) = Shown(calculation, calculation.lines, g)
      BY <3>2, AlikeShown
    <3> HIDE DEF lines
    <3>4. PICK f : f = forecast'
      OBVIOUS
    <3>5. /\ f.rule = i /\ ShownOf(f.before, rules) /\ ShownOf(f.after, WithRule(i))
          /\ f.permitted = Report(calculation, calculation.lines, WithRule(i)).after.permitted
      BY <3>1, <3>3, <3>4 DEF ShownOf
    <3>6. QED
      BY <3>1, <3>4, <3>5 DEF RulesInv, ShownOf, WithRule
  <2>3. ASSUME NEW i \in DOMAIN rules, SwitchRule(i)
        PROVE  RulesInv'
    <3>1. PICK g : g = WithRule(i) /\ Registry(g)
      BY SwitchTyped DEF RulesInv
    <3>2. rules' = g /\ forecast' = None /\ UNCHANGED <<calculation, mode, result, ranWith>>
      BY <2>3, <3>1 DEF SwitchRule
    <3>3. QED
      BY <3>1, <3>2 DEF RulesInv, Registry
  <2>4. CASE UNCHANGED ruleVars
    BY <2>4 DEF RulesInv, ShownOf, WithRule, ruleVars
  <2>5. QED
    BY <2>1, <2>2, <2>3, <2>4 DEF RulesNext
<1>3. QED
  BY <1>1, <1>2, PTL DEF RulesSpec

\* What a run publishes and what the owner is shown of a rule are well formed
\* (approved_rule_application.js, owner_rule_activation_preview_service.js).
THEOREM RulesTypeCorrect == RulesSpec => []RulesTypeOK
<1>1. RulesInv => RulesTypeOK
  <2> SUFFICES ASSUME RulesInv PROVE RulesTypeOK
    OBVIOUS
  <2> DEFINE lines == calculation.lines
  <2>1. \A r \in DOMAIN lines : lines[r] \in CalculatedLines
    BY RulesAssumption DEF RulesInv
  <2>2. ASSUME NEW r \in DOMAIN lines, NEW g, Registry(g)
        PROVE  Outcome(lines, Applications(lines, g))[r].quantity \in Nat
    <3>1. PICK p : p = Published(lines, g)[r]
      OBVIOUS
    <3>2. p.approved \in Quantities /\ AgentQuantity(p) = Outcome(lines, Applications(lines, g))[r].quantity
      BY <2>2, <3>1, PublishedRow DEF RulesInv
    <3>3. QED
      BY <3>2 DEF AgentQuantity, Quantities
  <2>3. ASSUME NEW shown, NEW g, Registry(g), ShownOf(shown, g), NEW r \in DOMAIN lines
        PROVE  shown.rows[r].quantity \in Nat
    BY <2>2, <2>3 DEF ShownOf, Shown, Report
  <2>4. ASSUME result # None
        PROVE  /\ DOMAIN result = DOMAIN lines
               /\ ranWith \in [DOMAIN ranWith -> OwnerRules]
               /\ \A r \in DOMAIN result : /\ result[r].approved \in Quantities
                                          /\ result[r].application \in Remarks \union {None}
    <3>1. CASE result = lines
      BY <2>1, <2>4, <3>1 DEF RulesInv, Registry, CalculatedLines
    <3>2. CASE result = Published(lines, ranWith)
      BY <2>4, <3>2, PublishedFacts, PublishedRow DEF RulesInv, Registry
    <3>3. QED
      BY <2>4, <3>1, <3>2 DEF RulesInv
  <2>5. ASSUME forecast # None
        PROVE  /\ forecast.rule \in DOMAIN rules
               /\ \A r \in DOMAIN lines :
                     {forecast.before.rows[r].quantity, forecast.after.rows[r].quantity} \subseteq Nat
    <3>1. forecast.rule \in DOMAIN rules /\ Registry(rules) /\ Registry(WithRule(forecast.rule))
      BY <2>5, SwitchTyped DEF RulesInv
    <3>2. QED
      BY <2>3, <2>5, <3>1 DEF RulesInv
  <2>6. QED
    BY <2>4, <2>5 DEF RulesTypeOK, RulesInv, Registry
<1>2. QED
  BY <1>1, RulesInvHolds, PTL

\* A run with rules only ever takes a quantity away, and only on the word of active rules that
\* name the row by a key of its own and agree.
THEOREM RulesNeverAdd == RulesSpec => []RulesOnlyTakeAway
<1>1. RulesInv => RulesOnlyTakeAway
  <2> SUFFICES ASSUME RulesInv, result # None, NEW r \in DOMAIN result,
                      result[r].approved # calculation.lines[r].approved
               PROVE  LET Names(k) == /\ k \in Range(calculation.lines[r].keys) \union {r}
                                      /\ \A o \in DOMAIN result \ {r} : k \notin Range(calculation.lines[o].keys)
                          about == {i \in DOMAIN ranWith : /\ ranWith[i].status = "ACTIVE"
                                                           /\ ranWith[i].valid /\ Names(ranWith[i].key)} IN
                      /\ mode = "APPLY_SAFE" /\ result[r].approved = 0
                      /\ \E against \in {"SKIP", "DEFER"}, i \in about :
                            \A j \in about : ranWith[j].key = ranWith[i].key =>
                                               ranWith[j].decision = against
    BY DEF RulesOnlyTakeAway
  <2>1. PICK c \in Calculations : c = calculation
    BY DEF RulesInv
  <2>2. /\ Registry(ranWith) /\ mode = "APPLY_SAFE" /\ result = Published(c.lines, ranWith)
        /\ DOMAIN result = DOMAIN c.lines
    BY <2>1, PublishedFacts DEF RulesInv
  <2>3. TakenAway(c, ranWith, r, result[r])
    BY <2>2, PublishedRow
  <2>4. result[r].approved # c.lines[r].approved
    BY <2>1
  <2>5. QED
    BY <2>1, <2>2, <2>3, <2>4, NamedByRules
<1>2. QED
  BY <1>1, RulesInvHolds, PTL

\* The forecast is of the agent's calculation, is what a run would publish, and permits an
\* order only when it leaves the reserve.
THEOREM ForecastIsTrue == RulesSpec => []ForecastComesTrue
<1>1. RulesInv => ForecastComesTrue
  <2> SUFFICES ASSUME RulesInv, forecast # None PROVE ForecastComesTrue
    BY DEF ForecastComesTrue
  <2> DEFINE lines == calculation.lines
             ComesTrue(shown, g) ==
                /\ shown = Shown(calculation, lines, g)
                /\ \A r \in DOMAIN lines : shown.rows[r].quantity = AgentQuantity(Published(lines, g)[r])
  <2>1. ASSUME NEW shown, NEW g, Registry(g), ShownOf(shown, g)
        PROVE  ComesTrue(shown, g)
    <3>1. shown.rows = Outcome(lines, Applications(lines, g))
      BY <2>1 DEF ShownOf, Shown, Report
    <3>2. QED
      BY <2>1, <3>1, PublishedRow DEF ShownOf, RulesInv
  <2>2. PICK g : g = WithRule(forecast.rule) /\ Registry(g)
    BY SwitchTyped DEF RulesInv
  <2>3. ComesTrue(forecast.before, rules) /\ ComesTrue(forecast.after, g)
    BY <2>1, <2>2 DEF RulesInv
  <2>4. ASSUME forecast.permitted
        PROVE  ~(calculation.available - forecast.after.totals.amount - calculation.reserve < 0)
    <3>1. PICK report : report = Report(calculation, lines, g)
      OBVIOUS
    <3>2. report # None /\ report.after.permitted /\ forecast.after.totals = report.after
      BY <2>2, <2>4, <3>1 DEF RulesInv, ShownOf, Shown
    <3>3. PICK totals : totals = Recalculate(calculation, lines, Outcome(lines, Applications(lines, g)))
      OBVIOUS
    <3>4. totals # None /\ report.after = totals
      BY <3>1, <3>2, <3>3 DEF Report
    <3>5. QED
      BY <3>2, <3>3, <3>4, PermittedLeavesReserve
  <2>5. QED
    BY <2>2, <2>3, <2>4 DEF ForecastComesTrue
<1>2. QED
  BY <1>1, RulesInvHolds, PTL

-----------------------------------------------------------------------------
(* OrderReview: the memory of decisions.                                    *)

\* The decisions that were answered with success, and the one that is about to be.
Promised ==
    acknowledged \union
        (IF saving # None /\ saving.stage = "record" THEN {saving.decision} ELSE {})
Missing(store) == Promised \ Range(store)

Writing == saving # None /\ saving.stage = "write"

\* What is in the files was decided, and what is saved was decided before or is just now.
SavingTyped ==
    saving # None => /\ saving \in Savings
                     /\ saving.decision \in Range(saving.store)
                     /\ Range(saving.store) \subseteq decided \union {saving.decision}
                     /\ saving.stage = "record" => saving.decision \in decided
MainTyped ==
    /\ main \in Memories \union {None, Damaged}
    /\ main \notin {None, Damaged} => Range(main) \subseteq decided
BackupsTyped ==
    /\ backups \in Seq(Memories \union {Damaged}) /\ Len(backups) <= MaxBackups + faults
    /\ \A i \in DOMAIN backups : backups[i] # Damaged => Range(backups[i]) \subseteq decided
CountsTyped ==
    /\ run \in Runs /\ triage \in {None, BuildReviewTriage(run.items)}
    /\ history \subseteq decided /\ acknowledged \subseteq decided
    /\ clock \in 1 .. MaxClock /\ faults \in 0 .. MaxFaults
    /\ damages \in 0 .. MaxDamage /\ saves \in 0 .. run.saves
FilesTyped == SavingTyped /\ MainTyped /\ BackupsTyped /\ CountsTyped

\* What the file, the newest backup that parses and the content to be written may lack.
\* The newest backup lacks one decision more than damage explains, while the file is whole.
MainWhole ==
    /\ main = None => backups = <<>> /\ Promised = {}
    /\ main \notin {None, Damaged} => Cardinality(Missing(main)) <= damages
NewestWhole ==
    \A i \in Readable : (\A j \in Readable : i <= j) =>
        Cardinality(Missing(backups[i])) <=
            damages + (IF main = Damaged \/ Writing THEN 0 ELSE 1)
StoreWhole ==
    saving # None /\ saving.stage # "record" => Cardinality(Missing(saving.store)) <= damages
NothingMissing == IsFiniteSet(acknowledged) /\ MainWhole /\ NewestWhole /\ StoreWhole

ReviewInv == FilesTyped /\ NothingMissing

\* A request that saves is not nothing.
LEMMA NoneNoSaving ==
  ASSUME NEW s \in Savings
  PROVE  s # None
BY ReviewAssumption

LEMMA Fewer ==
  ASSUME NEW B, IsFiniteSet(B), NEW A \in SUBSET B
  PROVE  /\ IsFiniteSet(A) /\ Cardinality(A) \in Nat /\ Cardinality(B) \in Nat
         /\ Cardinality(A) <= Cardinality(B)
BY FS_Subset, FS_CardinalityType

LEMMA OneMore ==
  ASSUME NEW B, IsFiniteSet(B), NEW d, NEW A \in SUBSET (B \union {d})
  PROVE  /\ IsFiniteSet(A) /\ Cardinality(A) \in Nat /\ Cardinality(B) \in Nat
         /\ Cardinality(A) <= Cardinality(B) + 1
<1>1. Cardinality(B) \in Nat
  BY FS_CardinalityType
<1>2. /\ IsFiniteSet(B \union {d})
      /\ Cardinality(B \union {d}) = IF d \in B THEN Cardinality(B) ELSE Cardinality(B) + 1
  BY FS_AddElement, Zenon
<1>3. Cardinality(B \union {d}) <= Cardinality(B) + 1
  BY <1>1, <1>2
<1>4. /\ IsFiniteSet(A) /\ Cardinality(A) \in Nat
      /\ Cardinality(A) <= Cardinality(B \union {d})
  BY <1>2, Fewer
<1>5. QED
  BY <1>1, <1>2, <1>3, <1>4

\* What is missing of a memory is finite.
LEMMA MissingFinite ==
  ASSUME IsFiniteSet(acknowledged), NEW store
  PROVE  /\ IsFiniteSet(Promised) /\ IsFiniteSet(Missing(store))
         /\ Cardinality(Missing(store)) \in Nat
<1>1. Promised \in SUBSET (acknowledged \union {saving.decision})
  BY DEF Promised
<1>2. IsFiniteSet(Promised)
  BY <1>1, OneMore
<1>3. Missing(store) \in SUBSET Promised
  BY DEF Missing
<1>4. QED
  BY <1>2, <1>3, Fewer

LEMMA RangeOfAppend ==
  ASSUME NEW S, NEW s \in Seq(S), NEW d \in S
  PROVE  Append(s, d) \in Seq(S) /\ Range(Append(s, d)) = Range(s) \union {d}
<1>1. /\ Append(s, d) \in Seq(S) /\ Len(Append(s, d)) = Len(s) + 1
      /\ \A i \in 1 .. Len(s) : Append(s, d)[i] = s[i]
      /\ Append(s, d)[Len(s) + 1] = d
  BY AppendProperties
<1>2. /\ DOMAIN s = 1 .. Len(s) /\ Len(s) \in Nat
      /\ DOMAIN Append(s, d) = 1 .. Len(s) + 1
  BY <1>1, LenProperties
<1>3. QED
  BY <1>1, <1>2 DEF Range

\* What is loaded was decided, and lacks no more than damage explains.
LEMMA LoadedWhole ==
  ASSUME ReviewInv, LoadOwnerDecisions # Damaged
  PROVE  /\ LoadOwnerDecisions \in Memories
         /\ Range(LoadOwnerDecisions) \subseteq decided
         /\ Cardinality(Missing(LoadOwnerDecisions)) <= damages
<1> USE DEF ReviewInv, FilesTyped, NothingMissing
<1>1. CASE main = None
  <2>1. LoadOwnerDecisions = <<>> /\ Promised = {}
    BY <1>1 DEF LoadOwnerDecisions, MainWhole
  <2>2. Range(<<>>) = {}
    BY DEF Range
  <2>3. Missing(<<>>) = {} /\ damages \in Nat
    BY <2>1, ReviewAssumption DEF Missing, CountsTyped
  <2>4. <<>> \in Memories
    BY EmptySeq DEF Memories
  <2>5. Cardinality(Missing(<<>>)) <= damages
    BY <2>3, FS_EmptySet
  <2>6. QED
    BY <2>1, <2>2, <2>4, <2>5, Zenon
<1>2. CASE main # None /\ main # Damaged
  BY <1>2 DEF LoadOwnerDecisions, MainTyped, MainWhole
<1>3. CASE main = Damaged
  <2>1. Readable # {} /\ LoadOwnerDecisions = backups[Min(Readable)]
    BY <1>3, ReviewAssumption DEF LoadOwnerDecisions
  <2>2. DOMAIN backups \subseteq Nat
    BY LenProperties DEF BackupsTyped
  <2>3. Min(Readable) \in Readable /\ \A j \in Readable : Min(Readable) <= j
    BY <2>1, <2>2, LeastNatural DEF Readable
  <2>4. Min(Readable) \in DOMAIN backups /\ backups[Min(Readable)] # Damaged
    BY <2>3 DEF Readable
  <2>5. backups[Min(Readable)] \in Memories
    BY <2>4, ElementOfSeq, LenProperties DEF BackupsTyped
  <2>6. Cardinality(Missing(backups[Min(Readable)])) <= damages + 0
    BY <2>3, <1>3 DEF NewestWhole
  <2>7. QED
    BY <2>1, <2>4, <2>5, <2>6, ReviewAssumption DEF BackupsTyped, CountsTyped
<1>4. QED
  BY <1>1, <1>2, <1>3

LEMMA ReviewInitial == ReviewInit => ReviewInv
<1> SUFFICES ASSUME ReviewInit PROVE ReviewInv
  OBVIOUS
<1> USE DEF ReviewInit
<1>1. Promised = {} /\ Readable = {}
  BY DEF Promised, Readable
<1>2. SavingTyped /\ StoreWhole /\ NewestWhole
  BY <1>1 DEF SavingTyped, StoreWhole, NewestWhole
<1>3. MainTyped
  BY ReviewAssumption DEF MainTyped
<1>4. BackupsTyped
  BY ReviewAssumption, EmptySeq DEF BackupsTyped
<1>5. CountsTyped
  BY ReviewAssumption DEF CountsTyped
<1>6. Missing(main) = {}
  BY <1>1 DEF Missing
<1>7. MainWhole /\ IsFiniteSet(acknowledged)
  BY <1>1, <1>6, FS_EmptySet DEF MainWhole
<1>8. QED
  BY <1>2, <1>3, <1>4, <1>5, <1>7 DEF ReviewInv, FilesTyped, NothingMissing

\* A step that leaves the memory and what is promised of it alone.
LEMMA MemoryKept ==
  ASSUME ReviewInv, UNCHANGED <<run, triage, main, backups, damages, decided>>,
         faults' >= faults, Promised' = Promised, acknowledged' = acknowledged, CountsTyped',
         SavingTyped',         Writing' <=> Writing, StoreWhole'
  PROVE  ReviewInv'
<1> USE DEF ReviewInv, FilesTyped, NothingMissing
<1>1. MainTyped' /\ BackupsTyped'
  BY ReviewAssumption DEF MainTyped, BackupsTyped, CountsTyped
<1>2. \A store : Missing(store)' = Missing(store)
  BY DEF Missing
<1>3. Readable' = Readable
  BY DEF Readable
<1>4. MainWhole'
  BY <1>2 DEF MainWhole, Missing
<1>5. NewestWhole'
  BY <1>2, <1>3 DEF NewestWhole, Missing
<1>6. QED
  BY <1>1, <1>4, <1>5

\* A save appends a decision about the row, newer than all, to what it has loaded.
LEMMA SaveMade ==
  ASSUME ReviewInv, NEW r \in Rows, NEW o \in Offers, NEW permanent \in BOOLEAN,
         NEW t \in Tokens, SaveDecision(r, o, permanent, t)
  PROVE  \E d \in OwnerDecisions, store \in Memories :
            /\ d.product = run.items[r].product /\ d.key = UniqueKey(r) /\ d.key # None
            /\ d.at = clock /\ d.no = saves + 1
            /\ store = LoadOwnerDecisions /\ store # Damaged
            /\ Append(store, d) \in Memories
            /\ saving = None /\ saves < run.saves /\ saves' = saves + 1
            /\ saving' \in Savings /\ saving' # None /\ saving'.stage = "rotate"
            /\ saving'.decision = d /\ saving'.store = Append(store, d)
            /\ UNCHANGED <<run, triage, main, backups, history, file, clock, faults, damages,
                           acknowledged, decided>>
<1> DEFINE store == LoadOwnerDecisions
           d == [product |-> run.items[r].product, key |-> UniqueKey(r),
                 decision |-> o.decision, quantity |-> o.quantity,
                 permanent |-> permanent /\ o.decision # "DEFER",
                 at |-> clock, token |-> t, no |-> saves + 1]
<1>1. /\ saving = None /\ saves < run.saves /\ UniqueKey(r) # None /\ store # Damaged
      /\ saves' = saves + 1
      /\ saving' = [stage |-> "rotate", decision |-> d, store |-> Append(store, d)]
      /\ UNCHANGED <<run, triage, main, backups, history, file, clock, faults, damages,
                     acknowledged, decided>>
  BY DEF SaveDecision
<1>2. run \in Runs /\ clock \in 1 .. MaxClock /\ saves \in 0 .. run.saves /\ run.saves \in Nat
  BY ReviewAssumption DEF ReviewInv, FilesTyped, CountsTyped
<1>3. d \in OwnerDecisions
  <2>1. r \in DOMAIN run.items /\ run.items[r] \in Range(run.items)
    BY DEF Rows, Range
  <2> DEFINE keys == run.items[r].keys
             unique == {i \in DOMAIN keys : Unique(keys[i])}
  <2>2. unique # {} /\ UniqueKey(r) = keys[Min(unique)]
    BY <1>1 DEF UniqueKey
  <2>3. keys \in Seq(Range(keys))
    BY <1>2, <2>1, ReviewAssumption
  <2>4. DOMAIN keys \subseteq Nat
    BY <2>3, LenProperties
  <2>5. Min(unique) \in DOMAIN keys
    BY <2>2, <2>4, LeastNatural
  <2>6. UniqueKey(r) \in Range(keys)
    BY <2>2, <2>5 DEF Range
  <2>7. /\ run.items[r].product \in UNION {{i.product : i \in Range(x.items)} : x \in Runs}
        /\ UniqueKey(r) \in UNION {UNION {Range(i.keys) : i \in Range(x.items)} : x \in Runs}
    <3>1. run.items[r].product \in {i.product : i \in Range(run.items)}
      BY <2>1, Zenon
    <3>2. UniqueKey(r) \in UNION {Range(i.keys) : i \in Range(run.items)}
      BY <2>1, <2>6, Zenon
    <3>3. QED
      BY <1>2, <3>1, <3>2, Zenon
  <2>8. (permanent /\ o.decision # "DEFER") \in BOOLEAN
    OBVIOUS
  <2>9. saves + 1 \in Nat
    BY <1>2
  <2>10. o.decision \in {p.decision : p \in Offers} /\ o.quantity \in {p.quantity : p \in Offers}
    OBVIOUS
  <2>11. d \in Submitted
    BY <1>2, <2>7, <2>8, <2>9, <2>10, Zenon DEF Submitted
  <2>12. ChoiceOf(d) = ChoiceOf(o)
    BY DEF ChoiceOf
  <2>13. ChoiceOf(d) \in OwnerChoices
    BY <2>12, ReviewAssumption
  <2>14. QED
    BY <2>11, <2>13, Zenon DEF OwnerDecisions
<1>4. /\ d.product = run.items[r].product /\ d.key = UniqueKey(r) /\ d.key # None
      /\ d.at = clock /\ d.no = saves + 1
  BY <1>1
<1> HIDE DEF d
<1>5. store \in Memories
  BY <1>1, LoadedWhole
<1>6. Append(store, d) \in Memories
  BY <1>3, <1>5, RangeOfAppend DEF Memories
<1>7. store = LoadOwnerDecisions
  OBVIOUS
<1> HIDE DEF store
<1>8. /\ saving' \in Savings /\ saving'.stage = "rotate" /\ saving'.decision = d
      /\ saving'.store = Append(store, d)
  BY <1>1, <1>3, <1>6 DEF Savings
<1>9. saving' # None
  BY <1>8, NoneNoSaving
<1>10. QED
  BY <1>1, <1>3, <1>4, <1>5, <1>6, <1>7, <1>8, <1>9

LEMMA SaveStep ==
  ASSUME ReviewInv, NEW r \in Rows, NEW o \in Offers, NEW permanent \in BOOLEAN,
         NEW t \in Tokens, SaveDecision(r, o, permanent, t)
  PROVE  ReviewInv'
<1>1. PICK d \in OwnerDecisions, store \in Memories :
         /\ store = LoadOwnerDecisions /\ store # Damaged
         /\ saving = None /\ saves < run.saves /\ saves' = saves + 1
         /\ saving' \in Savings /\ saving'.stage = "rotate"
         /\ saving'.decision = d /\ saving'.store = Append(store, d)
         /\ UNCHANGED <<run, triage, main, backups, history, file, clock, faults, damages,
                        acknowledged, decided>>
  BY SaveMade
<1>2. run \in Runs /\ clock \in 1 .. MaxClock /\ saves \in 0 .. run.saves /\ run.saves \in Nat
  BY ReviewAssumption DEF ReviewInv, FilesTyped, CountsTyped
<1>3. /\ store \in Memories /\ Range(store) \subseteq decided
      /\ Cardinality(Missing(store)) <= damages
  BY <1>1, LoadedWhole
<1>4. Append(store, d) \in Memories /\ Range(Append(store, d)) = Range(store) \union {d}
  BY <1>3, RangeOfAppend DEF Memories
<1>5. SavingTyped'
  BY <1>1, <1>3, <1>4 DEF SavingTyped
<1>6. CountsTyped'
  BY <1>1, <1>2 DEF ReviewInv, FilesTyped, CountsTyped
<1>7. Promised' = Promised /\ ~Writing /\ ~Writing'
  BY <1>1 DEF Promised, Writing
<1>8. Missing(saving.store)' \in SUBSET Missing(store)
  BY <1>1, <1>4, <1>7 DEF Missing
<1>9. Cardinality(Missing(saving.store)') <= damages
  <2>1. IsFiniteSet(Missing(store)) /\ damages \in Nat
    BY MissingFinite, ReviewAssumption DEF ReviewInv, NothingMissing, FilesTyped, CountsTyped
  <2>2. QED
    BY <1>3, <1>8, <2>1, Fewer
<1>10. StoreWhole'
  BY <1>1, <1>9 DEF StoreWhole
<1>11. faults' >= faults
  BY <1>1, ReviewAssumption DEF ReviewInv, FilesTyped, CountsTyped
<1>12. QED
  BY <1>1, <1>5, <1>6, <1>7, <1>10, <1>11, MemoryKept

\* The file is the newest backup now; the others follow as they were, or go.
LEMMA Rotated ==
  ASSUME NEW S, NEW s \in Seq(S), NEW x \in S, MaxBackups \in Nat,
         NEW n, n = IF Len(s) < MaxBackups THEN Len(s) + 1 ELSE MaxBackups,
         NEW new, new = SubSeq(<<x>> \o s, 1, n)
  PROVE  /\ new \in Seq(S) /\ Len(new) = n /\ n <= MaxBackups
         /\ n > 0 => new[1] = x
         /\ \A i \in 2 .. n : i - 1 \in 1 .. Len(s) /\ new[i] = s[i - 1]
<1>1. <<x>> \in Seq(S) /\ Len(<<x>>) = 1 /\ <<x>>[1] = x
  OBVIOUS
<1>2. Len(s) \in Nat
  BY LenProperties
<1>3. n \in Nat /\ n <= Len(s) + 1 /\ n <= MaxBackups
  BY <1>2
<1> DEFINE long == <<x>> \o s
<1>4. /\ long \in Seq(S) /\ Len(long) = Len(s) + 1
      /\ \A i \in 1 .. Len(s) + 1 : long[i] = IF i <= 1 THEN <<x>>[i] ELSE s[i - 1]
  BY <1>1, <1>2, ConcatProperties
<1> HIDE DEF long
<1>5. \A i \in 1 .. n : long[i] \in S
  BY <1>3, <1>4, ElementOfSeq
<1>6. /\ SubSeq(long, 1, n) \in Seq(S)
      /\ Len(SubSeq(long, 1, n)) = IF 1 <= n THEN n - 1 + 1 ELSE 0
      /\ \A i \in 1 .. n - 1 + 1 : SubSeq(long, 1, n)[i] = long[1 + i - 1]
  BY <1>3, <1>5, SubSeqProperties
<1>7. new = SubSeq(long, 1, n)
  BY DEF long
<1>8. Len(new) = n /\ \A i \in 1 .. n : new[i] = long[i]
  BY <1>3, <1>6, <1>7
<1>9. QED
  BY <1>1, <1>2, <1>3, <1>4, <1>6, <1>7, <1>8

LEMMA RotateStep ==
  ASSUME ReviewInv, RotateBackup
  PROVE  ReviewInv'
<1> DEFINE n == IF Len(backups) < MaxBackups THEN Len(backups) + 1 ELSE MaxBackups
<1>1. /\ saving # None /\ saving.stage = "rotate"
      /\ backups' = IF main = None THEN backups ELSE SubSeq(<<main>> \o backups, 1, n)
      /\ saving' = [saving EXCEPT !.stage = "write"]
      /\ UNCHANGED <<run, triage, main, history, file, clock, faults, damages, saves,
                     acknowledged, decided>>
  BY DEF RotateBackup
<1>2. /\ saving \in Savings /\ saving.decision \in Range(saving.store)
      /\ Range(saving.store) \subseteq decided \union {saving.decision}
  BY <1>1 DEF ReviewInv, FilesTyped, SavingTyped
<1>3. /\ saving' \in Savings /\ saving' # None /\ saving'.stage = "write"
      /\ saving'.decision = saving.decision /\ saving'.store = saving.store
  <2>1. PICK new : new = saving'
    OBVIOUS
  <2>2. new = [saving EXCEPT !.stage = "write"]
    BY <1>1, <2>1
  <2>3. /\ new \in Savings /\ new.stage = "write" /\ new.decision = saving.decision
        /\ new.store = saving.store
    BY <1>2, <2>2 DEF Savings
  <2>4. new # None
    BY <2>3, NoneNoSaving
  <2>5. QED
    BY <2>1, <2>3, <2>4
<1>4. Promised = acknowledged /\ Promised' = acknowledged
  BY <1>1, <1>3 DEF Promised
<1>5. Writing' /\ ~Writing
  BY <1>1, <1>3 DEF Writing
<1>6. \A store : Missing(store)' = Missing(store)
  BY <1>4 DEF Missing
<1>7. SavingTyped'
  BY <1>1, <1>2, <1>3 DEF SavingTyped
<1>8. MainTyped' /\ CountsTyped'
  BY <1>1 DEF ReviewInv, FilesTyped, MainTyped, CountsTyped
<1>9. MainWhole'
  <2>1. main = None => backups' = backups
    BY <1>1
  <2>2. Missing(main)' = Missing(main)
    BY <1>1, <1>4 DEF Missing
  <2>3. QED
    BY <1>1, <1>4, <2>1, <2>2 DEF ReviewInv, NothingMissing, MainWhole
<1>10. StoreWhole'
  <2>1. Missing(saving.store)' = Missing(saving.store)
    BY <1>3, <1>4 DEF Missing
  <2>2. QED
    BY <1>1, <2>1 DEF ReviewInv, NothingMissing, StoreWhole
<1>11. BackupsTyped' /\ NewestWhole'
  <2>1. CASE main = None
    <3>1. backups' = <<>>
      BY <1>1, <2>1 DEF ReviewInv, NothingMissing, MainWhole
    <3>2. BackupsTyped'
      BY <1>1, <2>1 DEF ReviewInv, FilesTyped, BackupsTyped
    <3>3. Readable' = {}
      BY <3>1 DEF Readable
    <3>4. QED
      BY <3>2, <3>3 DEF NewestWhole
  <2>2. CASE main # None
    <3> DEFINE new == SubSeq(<<main>> \o backups, 1, n)
    <3>1. /\ main \in Memories \union {Damaged} /\ backups \in Seq(Memories \union {Damaged})
          /\ MaxBackups \in Nat /\ faults \in Nat
          /\ main # Damaged => Range(main) \subseteq decided
          /\ \A i \in DOMAIN backups : backups[i] # Damaged => Range(backups[i]) \subseteq decided
      BY <2>2, ReviewAssumption DEF ReviewInv, FilesTyped, MainTyped, BackupsTyped, CountsTyped
    <3>2. /\ new \in Seq(Memories \union {Damaged}) /\ Len(new) = n /\ n <= MaxBackups
          /\ n > 0 => new[1] = main
          /\ \A i \in 2 .. n : i - 1 \in 1 .. Len(backups) /\ new[i] = backups[i - 1]
      BY <3>1, Rotated
    <3>3. backups' = new
      BY <1>1, <2>2
    <3> HIDE DEF new, n
    <3>4. /\ DOMAIN new = 1 .. n /\ n \in Nat
          /\ DOMAIN backups = 1 .. Len(backups) /\ Len(backups) \in Nat
      BY <3>1, <3>2, LenProperties
    <3>5. BackupsTyped'
      <4>1. \A i \in DOMAIN new : new[i] # Damaged => Range(new[i]) \subseteq decided
        <5>1. ASSUME NEW i \in DOMAIN new, new[i] # Damaged
              PROVE  Range(new[i]) \subseteq decided
          <6>1. CASE i = 1
            BY <3>1, <3>2, <3>4, <5>1, <6>1
          <6>2. CASE i # 1
            <7>1. i - 1 \in DOMAIN backups /\ new[i] = backups[i - 1]
              BY <3>2, <3>4, <5>1, <6>2
            <7>2. QED
              BY <3>1, <5>1, <7>1
          <6>3. QED
            BY <6>1, <6>2
        <5>2. QED
          BY <5>1
      <4>2. Len(new) <= MaxBackups + faults
        BY <3>1, <3>2, <3>4
      <4>3. QED
        BY <1>1, <3>2, <3>3, <4>1, <4>2 DEF BackupsTyped
    <3>6. ASSUME NEW i \in DOMAIN new, new[i] # Damaged,
                 \A j \in DOMAIN new : new[j] # Damaged => i <= j
          PROVE  Cardinality(Missing(new[i])) <= damages
      <4>1. CASE i = 1
        <5>1. new[i] = main
          BY <3>2, <3>4, <4>1
        <5>2. QED
          BY <2>2, <3>6, <5>1 DEF ReviewInv, NothingMissing, MainWhole
      <4>2. CASE i # 1
        <5>1. i \in 2 .. n /\ new[i] = backups[i - 1] /\ i - 1 \in DOMAIN backups
          BY <3>2, <3>4, <4>2
        <5>2. 1 \in DOMAIN new /\ new[1] = main /\ main = Damaged
          BY <3>2, <3>4, <3>6, <5>1
        <5>3. i - 1 \in Readable
          BY <3>6, <5>1 DEF Readable
        <5>4. ASSUME NEW j \in Readable
              PROVE  i - 1 <= j
          <6>1. j \in DOMAIN backups /\ backups[j] # Damaged
            BY DEF Readable
          <6>2. CASE j + 1 \in 2 .. n
            <7>1. new[j + 1] = backups[j]
              BY <3>2, <3>4, <6>1, <6>2
            <7>2. i <= j + 1
              BY <3>4, <3>6, <6>1, <6>2, <7>1
            <7>3. QED
              BY <3>4, <5>1, <6>1, <7>2
          <6>3. CASE j + 1 \notin 2 .. n
            BY <3>4, <5>1, <6>1, <6>3
          <6>4. QED
            BY <6>2, <6>3
        <5>5. Cardinality(Missing(backups[i - 1])) <= damages + 0
          BY <5>2, <5>3, <5>4 DEF ReviewInv, NothingMissing, NewestWhole
        <5>6. QED
          BY <5>1, <5>5, ReviewAssumption DEF ReviewInv, FilesTyped, CountsTyped
      <4>3. QED
        BY <4>1, <4>2
    <3>7. NewestWhole'
      <4>1. Readable' = {i \in DOMAIN new : new[i] # Damaged}
        BY <3>3 DEF Readable
      <4>2. \A i \in Readable' : Missing(backups[i])' = Missing(new[i])
        BY <1>4, <3>3 DEF Missing
      <4>3. damages' = damages /\ damages \in Nat
        BY <1>1, ReviewAssumption DEF ReviewInv, FilesTyped, CountsTyped
      <4>4. QED
        BY <1>5, <3>6, <4>1, <4>2, <4>3 DEF NewestWhole
    <3>8. QED
      BY <3>5, <3>7
  <2>3. QED
    BY <2>1, <2>2
<1>12. QED
  BY <1>1, <1>7, <1>8, <1>9, <1>10, <1>11 DEF ReviewInv, FilesTyped, NothingMissing

\* The new content in place of the file: whether the request goes on or ends with an error.
LEMMA ReplacedStep ==
  ASSUME ReviewInv, saving # None, saving.stage = "write", main' = saving.store,
         decided' = decided \union {saving.decision},
         UNCHANGED <<run, triage, backups, history, clock, damages, saves, acknowledged>>,
         faults' \in faults .. MaxFaults,
         saving' = None \/ saving' = [saving EXCEPT !.stage = "record"]
  PROVE  ReviewInv'
<1>1. /\ saving \in Savings /\ saving.decision \in Range(saving.store)
      /\ Range(saving.store) \subseteq decided \union {saving.decision}
  BY DEF ReviewInv, FilesTyped, SavingTyped
<1>2. \/ saving' = None
      \/ /\ saving' \in Savings /\ saving' # None /\ saving'.stage = "record"
         /\ saving'.decision = saving.decision /\ saving'.store = saving.store
  <2>1. PICK new : new = saving'
    OBVIOUS
  <2>2. CASE new = [saving EXCEPT !.stage = "record"]
    <3>1. /\ new \in Savings /\ new.stage = "record" /\ new.decision = saving.decision
          /\ new.store = saving.store
      BY <1>1, <2>2 DEF Savings
    <3>2. QED
      BY <2>1, <3>1, NoneNoSaving
  <2>3. QED
    BY <2>1, <2>2
<1>3. saving.store \in Memories /\ saving.store # None /\ saving.store # Damaged
  BY <1>1, ReviewAssumption DEF Savings, Memories
<1>4. SavingTyped' /\ MainTyped'
  BY <1>1, <1>2, <1>3 DEF SavingTyped, MainTyped
<1>5. BackupsTyped' /\ CountsTyped'
  BY ReviewAssumption DEF ReviewInv, FilesTyped, BackupsTyped, CountsTyped
<1>6. Writing /\ ~Writing' /\ Promised = acknowledged
  BY <1>2 DEF Writing, Promised
<1>7. Promised' \subseteq acknowledged \union {saving.decision}
  BY <1>2 DEF Promised
<1>8. damages \in Nat /\ IsFiniteSet(acknowledged)
  BY ReviewAssumption DEF ReviewInv, FilesTyped, CountsTyped, NothingMissing
<1>9. MainWhole'
  <2>1. Missing(main)' \in SUBSET Missing(saving.store)
    BY <1>1, <1>6, <1>7 DEF Missing
  <2>2. Cardinality(Missing(saving.store)) <= damages
    BY DEF ReviewInv, NothingMissing, StoreWhole
  <2>3. Cardinality(Missing(main)') <= damages
    BY <1>8, <2>1, <2>2, MissingFinite, Fewer
  <2>4. QED
    BY <1>3, <2>3 DEF MainWhole
<1>10. NewestWhole'
  <2> SUFFICES ASSUME NEW i \in Readable, \A j \in Readable : i <= j
               PROVE  Cardinality(Missing(backups[i])') <= damages + 1
    <3>1. Readable' = Readable
      BY DEF Readable
    <3>2. QED
      BY <1>3, <1>6, <3>1 DEF NewestWhole
  <2>1. Cardinality(Missing(backups[i])) <= damages + 0
    BY <1>6 DEF ReviewInv, NothingMissing, NewestWhole
  <2>2. Missing(backups[i])' \in SUBSET (Missing(backups[i]) \union {saving.decision})
    BY <1>6, <1>7 DEF Missing
  <2>3. IsFiniteSet(Missing(backups[i]))
    BY <1>8, MissingFinite
  <2>4. /\ Cardinality(Missing(backups[i])') \in Nat /\ Cardinality(Missing(backups[i])) \in Nat
        /\ Cardinality(Missing(backups[i])') <= Cardinality(Missing(backups[i])) + 1
    BY <2>2, <2>3, OneMore
  <2>5. QED
    BY <1>8, <2>1, <2>4
<1>11. StoreWhole'
  BY <1>2 DEF StoreWhole
<1>12. QED
  BY <1>4, <1>5, <1>8, <1>9, <1>10, <1>11 DEF ReviewInv, FilesTyped, NothingMissing

\* The request that saves ends without touching the files: with success, or in a crash or an
\* error.
LEMMA EndedStep ==
  ASSUME ReviewInv, saving # None, saving' = None, acknowledged' \subseteq decided,
         \/ acknowledged' = acknowledged
         \/ saving.stage = "record" /\ acknowledged' = acknowledged \union {saving.decision},
         UNCHANGED <<run, triage, main, backups, clock, damages, saves, decided>>,
         history' \subseteq decided, faults' \in faults .. MaxFaults
  PROVE  ReviewInv'
<1>1. CountsTyped' /\ SavingTyped' /\ MainTyped' /\ BackupsTyped'
  BY ReviewAssumption DEF ReviewInv, FilesTyped, CountsTyped, SavingTyped, MainTyped, BackupsTyped
<1>2. Promised' \subseteq Promised /\ ~Writing'
  BY DEF Promised, Writing
<1>3. IsFiniteSet(acknowledged) /\ damages \in Nat /\ damages' = damages
  BY ReviewAssumption DEF ReviewInv, NothingMissing, FilesTyped, CountsTyped
<1>4. ASSUME NEW store
      PROVE  /\ Missing(store)' \in SUBSET Missing(store)
             /\ Cardinality(Missing(store)') <= Cardinality(Missing(store))
             /\ Cardinality(Missing(store)') \in Nat /\ Cardinality(Missing(store)) \in Nat
  <2>1. Missing(store)' \in SUBSET Missing(store)
    BY <1>2 DEF Missing
  <2>2. IsFiniteSet(Missing(store))
    BY <1>3, MissingFinite
  <2>3. QED
    BY <2>1, <2>2, Fewer
<1>5. IsFiniteSet(acknowledged')
  <2>1. acknowledged' \in SUBSET (acknowledged \union {saving.decision})
    OBVIOUS
  <2>2. QED
    BY <1>3, <2>1, OneMore
<1>6. MainWhole'
  BY <1>2, <1>3, <1>4 DEF ReviewInv, NothingMissing, MainWhole
<1>7. NewestWhole'
  <2>1. Readable' = Readable
    BY DEF Readable
  <2>2. QED
    BY <1>2, <1>3, <1>4, <2>1 DEF ReviewInv, NothingMissing, NewestWhole
<1>8. StoreWhole'
  BY DEF StoreWhole
<1>9. QED
  BY <1>1, <1>5, <1>6, <1>7, <1>8 DEF ReviewInv, FilesTyped, NothingMissing

\* A copy put before the backups, of the file or a part of it.
LEMMA Prefixed ==
  ASSUME NEW S, NEW s \in Seq(S), NEW x \in S, NEW new, new = <<x>> \o s
  PROVE  /\ new \in Seq(S) /\ Len(new) = Len(s) + 1 /\ new[1] = x
         /\ DOMAIN new = 1 .. Len(s) + 1 /\ DOMAIN s = 1 .. Len(s) /\ Len(s) \in Nat
         /\ \A i \in 2 .. Len(s) + 1 : new[i] = s[i - 1]
<1>1. <<x>> \in Seq(S) /\ Len(<<x>>) = 1 /\ <<x>>[1] = x
  OBVIOUS
<1>2. Len(s) \in Nat /\ DOMAIN s = 1 .. Len(s)
  BY LenProperties
<1>3. /\ new \in Seq(S) /\ Len(new) = Len(s) + 1
      /\ \A i \in 1 .. Len(s) + 1 : new[i] = IF i <= 1 THEN <<x>>[i] ELSE s[i - 1]
  BY <1>1, <1>2, ConcatProperties
<1>4. DOMAIN new = 1 .. Len(s) + 1
  BY <1>3, LenProperties
<1>5. new[1] = x
  BY <1>1, <1>2, <1>3
<1>6. QED
  BY <1>2, <1>3, <1>4, <1>5

\* The request ends in the middle of a rotation, with one backup more, whole or not.
LEMMA CutStep ==
  ASSUME ReviewInv, saving # None, saving.stage = "rotate", saving' = None, main # None,
         NEW copy \in {main, Damaged}, backups' = <<copy>> \o backups,
         faults < MaxFaults, faults' = faults + 1,
         UNCHANGED <<run, triage, main, history, clock, damages, saves, acknowledged, decided>>
  PROVE  ReviewInv'
<1>1. Promised = acknowledged /\ Promised' = acknowledged /\ ~Writing /\ ~Writing'
  BY DEF Promised, Writing
<1>2. /\ damages \in Nat /\ faults \in Nat /\ MaxFaults \in Nat /\ MaxBackups \in Nat
      /\ IsFiniteSet(acknowledged)
  BY ReviewAssumption DEF ReviewInv, FilesTyped, CountsTyped, NothingMissing
<1>3. CountsTyped' /\ SavingTyped' /\ MainTyped'
  BY <1>2 DEF ReviewInv, FilesTyped, CountsTyped, SavingTyped, MainTyped
<1>4. /\ copy \in Memories \union {Damaged}
      /\ copy # Damaged => copy = main /\ Range(copy) \subseteq decided
      /\ copy # Damaged => Cardinality(Missing(copy)) <= damages
  BY DEF ReviewInv, FilesTyped, NothingMissing, MainTyped, MainWhole
<1>5. /\ backups \in Seq(Memories \union {Damaged}) /\ Len(backups) <= MaxBackups + faults
      /\ \A i \in DOMAIN backups : backups[i] # Damaged => Range(backups[i]) \subseteq decided
  BY DEF ReviewInv, FilesTyped, BackupsTyped
<1>6. PICK new : new = <<copy>> \o backups
  OBVIOUS
<1>7. /\ new \in Seq(Memories \union {Damaged}) /\ Len(new) = Len(backups) + 1
      /\ new[1] = copy /\ DOMAIN new = 1 .. Len(backups) + 1
      /\ DOMAIN backups = 1 .. Len(backups) /\ Len(backups) \in Nat
      /\ \A i \in 2 .. Len(backups) + 1 : new[i] = backups[i - 1]
  BY <1>4, <1>5, <1>6, Prefixed
<1>8. BackupsTyped'
  <2>1. ASSUME NEW i \in DOMAIN new, new[i] # Damaged
        PROVE  Range(new[i]) \subseteq decided
    <3>1. CASE i = 1
      BY <1>4, <1>7, <2>1, <3>1
    <3>2. CASE i # 1
      <4>1. i - 1 \in DOMAIN backups /\ new[i] = backups[i - 1]
        BY <1>7, <2>1, <3>2
      <4>2. QED
        BY <1>5, <2>1, <4>1
    <3>3. QED
      BY <3>1, <3>2
  <2>2. Len(new) <= MaxBackups + (faults + 1)
    BY <1>2, <1>5, <1>7
  <2>3. QED
    BY <1>6, <1>7, <2>1, <2>2 DEF BackupsTyped
<1>9. MainWhole'
  <2>1. Missing(main)' = Missing(main)
    BY <1>1 DEF Missing
  <2>2. QED
    BY <2>1 DEF ReviewInv, NothingMissing, MainWhole
<1>10. ASSUME NEW i \in DOMAIN new, new[i] # Damaged,
              \A j \in DOMAIN new : new[j] # Damaged => i <= j
       PROVE  /\ Cardinality(Missing(new[i])) \in Nat
              /\ Cardinality(Missing(new[i])) <=
                    damages + (IF main = Damaged THEN 0 ELSE 1)
  <2>1. Cardinality(Missing(new[i])) \in Nat
    BY <1>2, MissingFinite
  <2>2. CASE i = 1
    BY <1>2, <1>4, <1>7, <1>10, <2>1, <2>2
  <2>3. CASE i # 1
    <3>1. i - 1 \in DOMAIN backups /\ new[i] = backups[i - 1] /\ i - 1 \in Readable
      BY <1>7, <1>10, <2>3 DEF Readable
    <3>2. ASSUME NEW j \in Readable
          PROVE  i - 1 <= j
      <4>1. j \in 1 .. Len(backups) /\ backups[j] # Damaged
        BY <1>7 DEF Readable
      <4>2. j + 1 \in DOMAIN new /\ new[j + 1] = backups[j]
        BY <1>7, <4>1
      <4>3. i <= j + 1
        BY <1>10, <4>1, <4>2
      <4>4. QED
        BY <1>7, <4>1, <4>3
    <3>3. Cardinality(Missing(backups[i - 1])) <=
              damages + (IF main = Damaged THEN 0 ELSE 1)
      BY <1>1, <3>1, <3>2 DEF ReviewInv, NothingMissing, NewestWhole
    <3>4. QED
      BY <2>1, <3>1, <3>3
  <2>4. QED
    BY <2>2, <2>3
<1>11. NewestWhole'
  <2>1. Readable' = {i \in DOMAIN new : new[i] # Damaged}
    BY <1>6 DEF Readable
  <2>2. \A i \in Readable' : Missing(backups[i])' = Missing(new[i])
    BY <1>1, <1>6 DEF Missing
  <2>3. QED
    BY <1>1, <1>10, <2>1, <2>2 DEF NewestWhole
<1>12. StoreWhole'
  BY DEF StoreWhole
<1>13. QED
  BY <1>2, <1>3, <1>8, <1>9, <1>11, <1>12 DEF ReviewInv, FilesTyped, NothingMissing

\* A crash or an error that leaves the file and what was decided.
LEMMA BrokenStep ==
  ASSUME ReviewInv, saving # None, saving' = None, backups' \in BackupsLeft,
         faults < MaxFaults, faults' = faults + 1,
         UNCHANGED <<run, triage, main, history, clock, damages, saves, acknowledged, decided>>
  PROVE  ReviewInv'
<1>1. /\ faults' \in faults .. MaxFaults
      /\ history' \subseteq decided /\ acknowledged' \subseteq decided
  BY ReviewAssumption DEF ReviewInv, FilesTyped, CountsTyped
<1>2. CASE backups' = backups
  BY <1>1, <1>2, EndedStep
<1>3. CASE backups' # backups
  <2>1. /\ saving.stage = "rotate" /\ main # None
        /\ backups' = <<main>> \o backups \/ backups' = <<Damaged>> \o backups
    BY <1>3 DEF BackupsLeft, CutRotation
  <2>2. QED
    BY <2>1, CutStep
<1>4. QED
  BY <1>2, <1>3

LEMMA DamageStep ==
  ASSUME ReviewInv, Damage
  PROVE  ReviewInv'
<1> USE DEF ReviewInv, FilesTyped, NothingMissing
<1>1. /\ damages < MaxDamage /\ main \notin {None, Damaged}
      /\ damages' = damages + 1 /\ main' = Damaged /\ Damaged # None
      /\ UNCHANGED <<run, triage, backups, saving, history, file, clock, faults, saves,
                     acknowledged, decided>>
  BY ReviewAssumption DEF Damage
<1>2. damages \in Nat /\ damages' \in 0 .. MaxDamage
  BY <1>1, ReviewAssumption DEF CountsTyped
<1>3. CountsTyped' /\ SavingTyped' /\ MainTyped' /\ BackupsTyped'
  BY <1>1, <1>2 DEF CountsTyped, SavingTyped, MainTyped, BackupsTyped
<1>4. Promised' = Promised /\ Readable' = Readable
  BY <1>1 DEF Promised, Readable
<1>5. MainWhole'
  BY <1>1 DEF MainWhole
<1>6. \A i \in DOMAIN backups : /\ Missing(backups[i])' = Missing(backups[i])
                                /\ Cardinality(Missing(backups[i])) \in Nat
  BY <1>1, <1>4, MissingFinite DEF Missing
<1>7. NewestWhole'
  <2> SUFFICES ASSUME NEW i \in Readable, \A j \in Readable : i <= j
               PROVE  Cardinality(Missing(backups[i])') <= damages + 1
    BY <1>1, <1>2, <1>4 DEF NewestWhole
  <2>1. Cardinality(Missing(backups[i])) <=
            damages + (IF main = Damaged \/ Writing THEN 0 ELSE 1)
    BY DEF NewestWhole
  <2>2. i \in DOMAIN backups
    BY DEF Readable
  <2>3. QED
    BY <1>2, <1>6, <2>1, <2>2
<1>8. StoreWhole'
  <2>1. Missing(saving.store)' = Missing(saving.store)
    BY <1>1, <1>4 DEF Missing
  <2>2. Cardinality(Missing(saving.store)) \in Nat
    BY MissingFinite
  <2>3. QED
    BY <1>1, <1>2, <2>1, <2>2 DEF StoreWhole
<1>9. QED
  BY <1>1, <1>3, <1>5, <1>7, <1>8

LEMMA ReviewStep ==
  ASSUME ReviewInv, [ReviewNext]_reviewVars
  PROVE  ReviewInv'
<1> USE ReviewAssumption DEF ReviewInv, FilesTyped, CountsTyped
<1>1. ASSUME NEW r \in Rows, NEW o \in Offers, NEW p \in BOOLEAN, NEW t \in Tokens,
             SaveDecision(r, o, p, t)
      PROVE  ReviewInv'
  BY <1>1, SaveStep
<1>2. CASE RotateBackup
  BY <1>2, RotateStep
<1>3. CASE AtomicWrite
  BY <1>3, ReplacedStep DEF AtomicWrite
<1>4. CASE RecordHistory
  <2>1. /\ saving # None /\ saving.stage = "record" /\ saving.decision \in decided
        /\ history' \subseteq history \union {saving.decision}
        /\ faults' \in faults .. MaxFaults
        /\ acknowledged' = acknowledged \union {saving.decision} /\ saving' = None
        /\ UNCHANGED <<run, triage, main, backups, file, clock, damages, saves, decided>>
    BY <1>4 DEF RecordHistory, Answer, SavingTyped
  <2>2. history' \subseteq decided /\ acknowledged' \subseteq decided
    BY <2>1
  <2>3. QED
    BY <2>1, <2>2, EndedStep
<1>5. CASE WriteFails
  <2>1. /\ saving # None /\ saving.stage \in {"rotate", "write"} /\ saving' = None
        /\ faults < MaxFaults /\ faults' = faults + 1 /\ faults' \in faults .. MaxFaults
        /\ UNCHANGED <<run, triage, history, file, clock, damages, saves, acknowledged>>
        /\ backups' \in BackupsLeft
        /\ \/ UNCHANGED <<main, decided>>
           \/ /\ saving.stage = "write" /\ main' = saving.store
              /\ decided' = decided \union {saving.decision}
    BY <1>5 DEF WriteFails, Answer
  <2>2. history' \subseteq decided /\ acknowledged' \subseteq decided
    BY <2>1
  <2>3. CASE UNCHANGED <<main, decided>>
    BY <2>1, <2>2, <2>3, BrokenStep
  <2>4. CASE /\ saving.stage = "write" /\ main' = saving.store
             /\ decided' = decided \union {saving.decision}
    BY <2>1, <2>4, ReplacedStep DEF BackupsLeft
  <2>5. QED
    BY <2>1, <2>3, <2>4
<1>6. CASE Crash
  <2>1. /\ saving # None /\ saving' = None /\ faults < MaxFaults /\ faults' = faults + 1
        /\ UNCHANGED <<run, triage, main, history, file, clock, damages, saves,
                       acknowledged, decided>>
        /\ backups' \in BackupsLeft
    BY <1>6 DEF Crash, Answer
  <2>2. QED
    BY <2>1, BrokenStep
<1>7. ASSUME UNCHANGED <<run, triage, main, backups, saving, history, faults, damages, saves,
                         acknowledged, decided>>,
             clock' \in 1 .. MaxClock
      PROVE  ReviewInv'
  <2>1. Promised' = Promised /\ (Writing' <=> Writing)
    BY <1>7 DEF Promised, Writing
  <2>2. CountsTyped' /\ SavingTyped'
    BY <1>7 DEF SavingTyped
  <2>3. StoreWhole'
    <3>1. Missing(saving.store)' = Missing(saving.store)
      BY <1>7, <2>1 DEF Missing
    <3>2. QED
      BY <1>7, <3>1 DEF NothingMissing, StoreWhole
  <2>4. QED
    BY <1>7, <2>1, <2>2, <2>3, MemoryKept
<1>8. CASE BuildSupplierOrderFile
  BY <1>7, <1>8 DEF BuildSupplierOrderFile
<1>9. CASE Damage
  BY <1>9, DamageStep
<1>10. CASE ClockTick
  BY <1>7, <1>10 DEF ClockTick
<1>11. CASE UNCHANGED reviewVars
  BY <1>7, <1>11 DEF reviewVars
<1>12. QED
  BY <1>1, <1>2, <1>3, <1>4, <1>5, <1>6, <1>8, <1>9, <1>10, <1>11 DEF ReviewNext

LEMMA ReviewInvHolds == ReviewSpec => []ReviewInv
<1>1. ReviewInv /\ [ReviewNext]_reviewVars => ReviewInv'
  BY ReviewStep
<1>2. QED
  BY ReviewInitial, <1>1, PTL DEF ReviewSpec

\* No decision that was answered with success is lost by a crash, a failed write or a later
\* save; damage of the file costs at most one each, as long as a backup parses: for any number
\* of backups, saves, failures and damages.
THEOREM DecisionsAreKept == ReviewSpec => []DecisionsSurvive
<1>1. ReviewInv => DecisionsSurvive
  <2> SUFFICES ASSUME ReviewInv, LoadOwnerDecisions # Damaged
               PROVE  Cardinality(acknowledged \ Range(LoadOwnerDecisions)) <= damages
    BY DEF DecisionsSurvive
  <2> DEFINE store == LoadOwnerDecisions
  <2>1. Cardinality(Missing(store)) <= damages /\ damages \in Nat
    BY LoadedWhole, ReviewAssumption DEF ReviewInv, FilesTyped, CountsTyped
  <2>2. IsFiniteSet(Missing(store)) /\ Cardinality(Missing(store)) \in Nat
    BY MissingFinite DEF ReviewInv, NothingMissing
  <2>3. acknowledged \ Range(store) \in SUBSET Missing(store)
    BY DEF Missing, Promised
  <2> HIDE DEF store
  <2>4. /\ Cardinality(acknowledged \ Range(store)) <= Cardinality(Missing(store))
        /\ Cardinality(acknowledged \ Range(store)) \in Nat
    BY <2>2, <2>3, Fewer
  <2>5. QED
    BY <2>1, <2>2, <2>4 DEF store
<1>2. QED
  BY <1>1, ReviewInvHolds, PTL

\* The packages and the single questions are all the questions.
LEMMA NothingUnasked ==
  ASSUME NEW positions
  PROVE  (UNION Packages(positions)) \union Individuals(positions) = Business(positions)
<1>1. Packages(positions) \in SUBSET SUBSET Business(positions)
  BY DEF Packages
<1>2. UNION Packages(positions) \subseteq Business(positions)
  BY <1>1
<1>3. Individuals(positions) = Business(positions) \ (UNION Packages(positions))
  BY Zenon DEF Individuals
<1>4. \A P, B : P \subseteq B => P \union (B \ P) = B
  OBVIOUS
<1>5. QED
  BY <1>2, <1>3, <1>4, Zenon

\* The types of the review: what is in the files and in the history was decided.
THEOREM ReviewTypeCorrect == ReviewSpec => []ReviewTypeOK
<1>1. ReviewInv => ReviewTypeOK
  <2> SUFFICES ASSUME ReviewInv PROVE ReviewTypeOK
    OBVIOUS
  <2> USE DEF ReviewInv, FilesTyped
  <2>1. triage = None \/ (UNION triage.packages) \union triage.individuals \subseteq Rows
    <3> DEFINE positions == [r \in DOMAIN run.items |-> run.items[r].position]
    <3>1. SUFFICES ASSUME triage # None
                   PROVE  (UNION triage.packages) \union triage.individuals \subseteq Rows
      OBVIOUS
    <3>2. triage = BuildReviewTriage(run.items)
      BY <3>1 DEF CountsTyped
    <3>3. /\ triage.packages = Packages(positions)
          /\ triage.individuals = Individuals(positions)
      BY <3>2 DEF BuildReviewTriage
    <3>4. Business(positions) \subseteq DOMAIN positions
      BY DEF Business, Questions
    <3>5. QED
      BY <3>3, <3>4, NothingUnasked DEF Rows
  <2>2. main \in {None, Damaged} \/ Range(main) \subseteq Entries
    BY DEF MainTyped, Entries
  <2>3. saving = None \/ saving.stage \in {"rotate", "write", "record"}
    BY DEF SavingTyped, Savings
  <2>4. QED
    BY <2>1, <2>2, <2>3 DEF ReviewTypeOK, BackupsTyped, CountsTyped
<1>2. QED
  BY <1>1, ReviewInvHolds, PTL

-----------------------------------------------------------------------------
(* OrderReview: the questions put to the owner.                             *)

\* A set of naturals that has a bound has a greatest one.
LEMMA GreatestNatural ==
  ASSUME NEW m \in Nat, NEW S \in SUBSET (0 .. m), S # {}
  PROVE  \E g \in S : \A n \in S : n <= g
<1> DEFINE T == {m - n : n \in S}
<1>1. T \in SUBSET Nat /\ T # {}
  <2>1. \A n \in S : m - n \in Nat
    OBVIOUS
  <2>2. QED
    BY <2>1, Zenon
<1>2. Min(T) \in T /\ \A t \in T : Min(T) <= t
  BY <1>1, LeastNatural
<1>3. PICK g \in S : Min(T) = m - g
  BY <1>2
<1>4. \A n \in S : m - g <= m - n
  BY <1>2, <1>3
<1>5. QED
  BY <1>4

LEMMA NoneNoStatus == None # "ACTIVE"
BY ReviewAssumption

LEMMA DecidedWhen ==
  ASSUME NEW d \in OwnerDecisions
  PROVE  d.at \in 0 .. MaxClock
BY ReviewAssumption DEF OwnerDecisions, Submitted

\* What counts under a key is one of the decisions in the memory.
LEMMA LatestTyped ==
  ASSUME NEW store \in Memories, NEW key, LatestActive(store, key) # None
  PROVE  LatestActive(store, key) \in OwnerDecisions
<1> DEFINE active == {i \in DOMAIN store : store[i].key = key /\ ~IsDecisionExpired(store[i])}
           times == {store[i].at : i \in active}
<1>1. active # {}
  BY DEF LatestActive
<1>2. /\ DOMAIN store = 1 .. Len(store) /\ Len(store) \in Nat
      /\ \A i \in DOMAIN store : store[i] \in OwnerDecisions
  BY LenProperties, ElementOfSeq DEF Memories
<1>3. active \subseteq DOMAIN store
  OBVIOUS
<1> HIDE DEF active
<1>4. times \in SUBSET (0 .. MaxClock) /\ times # {}
  BY <1>1, <1>2, <1>3, DecidedWhen
<1>5. PICK latest \in times : \A n \in times : n <= latest
  BY <1>4, GreatestNatural, ReviewAssumption
<1> DEFINE last == {i \in active : store[i].at = latest}
<1>6. last \in SUBSET (0 .. Len(store)) /\ last # {}
  BY <1>2, <1>3, <1>5
<1>7. PICK i \in last : \A j \in last : j <= i
  BY <1>2, <1>6, GreatestNatural
<1>8. i \in active /\ store[i].at = latest /\ latest \in Int
  BY <1>4, <1>5, <1>7
<1>9. ASSUME NEW j \in active \ {i}
      PROVE  store[i].at > store[j].at \/ (store[i].at = store[j].at /\ i > j)
  <2>1. store[j].at \in times /\ store[j].at \in Int /\ j \in Int /\ i \in Int
    BY <1>2, <1>3, <1>4, <1>8
  <2>2. store[j].at <= latest
    BY <1>5, <2>1
  <2>3. CASE store[j].at = latest
    <3>1. j \in last
      BY <2>3
    <3>2. j <= i /\ j # i
      BY <1>7, <3>1
    <3>3. QED
      BY <1>8, <2>1, <2>3, <3>2
  <2>4. CASE store[j].at # latest
    <3>1. store[j].at < latest
      BY <1>8, <2>1, <2>2, <2>4
    <3>2. QED
      BY <1>8, <2>1, <3>1
  <2>5. QED
    BY <2>3, <2>4
<1> DEFINE IsLast(k) == \A j \in active \ {k} :
                          \/ store[k].at > store[j].at
                          \/ store[k].at = store[j].at /\ k > j
<1>10. IsLast(i)
  BY <1>9
<1>11. LatestActive(store, key) = store[CHOOSE k \in active : IsLast(k)]
  BY <1>1 DEF LatestActive, active
<1> HIDE DEF IsLast
<1>12. (CHOOSE k \in active : IsLast(k)) \in active
  BY <1>8, <1>10
<1>13. QED
  BY <1>2, <1>3, <1>11, <1>12

\* A row's decision is one of the decisions in the memory.
LEMMA RowDecisionTyped ==
  ASSUME NEW store \in Memories, run \in Runs, NEW r \in Rows, DecisionOf(r, store) # None
  PROVE  DecisionOf(r, store) \in OwnerDecisions
<1> DEFINE keys == run.items[r].keys
           found == {i \in DOMAIN keys : Unique(keys[i]) /\ LatestActive(store, keys[i]) # None}
<1>1. found # {} /\ DecisionOf(r, store) = LatestActive(store, keys[Min(found)])
  BY DEF DecisionOf
<1>2. keys \in Seq(Range(keys))
  BY ReviewAssumption DEF Rows
<1>3. found \in SUBSET Nat
  BY <1>2, LenProperties
<1>4. Min(found) \in found
  BY <1>1, <1>3, LeastNatural
<1>5. QED
  BY <1>1, <1>4, LatestTyped

\* A row the owner has decided about is settled.
LEMMA DecidedIsSettled ==
  ASSUME NEW store \in Memories, run \in Runs, NEW r \in Rows, DecisionOf(r, store) # None
  PROVE  ClassifyItem(r, store).kind \in {"included", "excluded"}
<1> DEFINE d == DecisionOf(r, store)
<1>1. d \in OwnerDecisions
  BY RowDecisionTyped
<1>2. ChoiceOf(d) \in OwnerChoices
  BY <1>1 DEF OwnerDecisions
<1>3. /\ d.decision \in {"BUY", "SKIP", "DEFER"}
      /\ d.decision = "BUY" => d.quantity \in Nat
  BY <1>2 DEF OwnerChoices, ChoiceOf
<1>4. CASE d.decision = "BUY" /\ d.quantity > 0
  BY <1>4 DEF ClassifyItem, Included
<1>5. CASE d.decision = "BUY" /\ d.quantity = 0
  BY <1>5 DEF ClassifyItem, Excluded
<1>6. CASE d.decision = "SKIP"
  BY <1>6 DEF ClassifyItem, Excluded
<1>7. CASE d.decision = "DEFER"
  BY <1>7 DEF ClassifyItem, Excluded
<1>8. QED
  BY <1>3, <1>4, <1>5, <1>6, <1>7

\* The rows asked about are the active ones of the triage.
LEMMA AskedAreActive ==
  ASSUME triage = BuildReviewTriage(run.items), triage # None
  PROVE  /\ (UNION triage.packages) \union triage.individuals
                = {r \in Rows : TriageStatus(r) = "ACTIVE"}
         /\ {r \in Rows : DecoratedClass(r) = "OWNER_ACTION_REQUIRED"}
                = {r \in Rows : TriageStatus(r) = "ACTIVE"}
<1> DEFINE positions == [r \in DOMAIN run.items |-> run.items[r].position]
           current == {r \in DOMAIN run.items : Pending(positions[r])}
<1>1. /\ triage.packages = Packages(positions) /\ triage.individuals = Individuals(positions)
      /\ triage.blocked = Blocked(positions) /\ triage.exclusions = Exclusions(positions)
      /\ triage.current = [r \in current |-> TriageItem(positions[r])]
  BY DEF BuildReviewTriage
<1>2. (UNION Packages(positions)) \union Individuals(positions) = Business(positions)
  BY NothingUnasked
<1>3. ASSUME NEW r \in Rows
      PROVE  r \in Business(positions) <=> TriageStatus(r) = "ACTIVE"
  <2>1. r \in DOMAIN positions /\ r \in DOMAIN run.items
    BY DEF Rows
  <2>2. TriageItem(positions[r]).status = "ACTIVE" => TriageItem(positions[r]).required
    BY NoneNoStatus DEF TriageItem
  <2>3. r \in Questions(positions) <=> r \in current /\ TriageItem(positions[r]).required
    BY <2>1 DEF Questions
  <2>4. TriageStatus(r) = IF r \in Blocked(positions) THEN "BLOCKED_BY_DATA"
                          ELSE IF r \in Exclusions(positions) THEN "DATA_ISSUE"
                          ELSE IF r \in current THEN TriageItem(positions[r]).status ELSE None
    BY <1>1, <2>1 DEF TriageStatus
  <2>5. /\ Exclusions(positions) \subseteq Questions(positions)
        /\ r \in Blocked(positions) <=>
              /\ r \in Questions(positions) \ Exclusions(positions)
              /\ TriageItem(positions[r]).status # "ACTIVE"
    BY DEF Exclusions, Blocked
  <2> HIDE DEF positions, current
  <2>6. QED
    BY <2>2, <2>3, <2>4, <2>5, NoneNoStatus DEF Business
<1>4. Business(positions) \subseteq Rows
  BY DEF Business, Questions, Rows
<1>5. ASSUME NEW r \in Rows
      PROVE  DecoratedClass(r) = "OWNER_ACTION_REQUIRED" <=> TriageStatus(r) = "ACTIVE"
  BY DEF DecoratedClass
<1>6. QED
  BY <1>1, <1>2, <1>3, <1>4, <1>5

\* The rows the compaction asks about are those the page counts, and those the order waits for:
\* for any run, any memory of earlier decisions and whatever is decided meanwhile.
THEOREM QueuesAlwaysAgree == ReviewSpec => []QueuesAgree
<1>1. ReviewInv => QueuesAgree
  <2> DEFINE store == LoadOwnerDecisions
             asked == {r \in (UNION triage.packages) \union triage.individuals :
                         DecisionOf(r, store) = None}
  <2> SUFFICES ASSUME ReviewInv, triage # None, store # Damaged
               PROVE  /\ asked = NeedsDecisionRows(store)
                      /\ \A r \in asked : ClassifyItem(r, store).kind = "unresolved"
                      /\ \A r \in Rows :
                            ClassifyItem(r, store) = Unresolved("review_required") => r \in asked
    BY DEF QueuesAgree
  <2>1. store \in Memories /\ run \in Runs /\ triage = BuildReviewTriage(run.items)
    BY LoadedWhole DEF ReviewInv, FilesTyped, CountsTyped
  <2> HIDE DEF store
  <2>2. asked = {r \in Rows : TriageStatus(r) = "ACTIVE" /\ DecisionOf(r, store) = None}
    BY <2>1, AskedAreActive
  <2>3. asked = NeedsDecisionRows(store)
    BY <2>1, <2>2, AskedAreActive DEF NeedsDecisionRows
  <2>4. ASSUME NEW r \in Rows, TriageStatus(r) = "ACTIVE", DecisionOf(r, store) = None
        PROVE  ClassifyItem(r, store).kind = "unresolved"
    BY <2>4 DEF ClassifyItem, Unresolved
  <2>5. ASSUME NEW r \in Rows, ClassifyItem(r, store) = Unresolved("review_required")
        PROVE  TriageStatus(r) = "ACTIVE" /\ DecisionOf(r, store) = None
    <3>1. ClassifyItem(r, store).kind = "unresolved"
      BY <2>5 DEF Unresolved
    <3>2. DecisionOf(r, store) = None
      BY <2>1, <3>1, DecidedIsSettled
    <3>3. QED
      BY <2>5, <3>2 DEF ClassifyItem, Unresolved, Included, Excluded
  <2>6. QED
    BY <2>2, <2>3, <2>4, <2>5
<1>2. QED
  BY <1>1, ReviewInvHolds, PTL

-----------------------------------------------------------------------------
(* Sums over finite sets, by their smallest counterexamples.                *)

\* Of sets of elements of a finite set, one contains no other.
LEMMA SmallestSet ==
  ASSUME NEW S, IsFiniteSet(S), NEW B, B \subseteq SUBSET S, B # {}
  PROVE  \E T \in B : \A U \in B : U \subseteq T => U = T
<1> DEFINE R == StrictSubsetOrdering(S)
<1>1. IsWellFoundedOn(R, SUBSET S)
  BY FS_StrictSubsetOrderingWellFounded, FS_FiniteSubsetsOfFinite
<1> HIDE DEF R
<1>2. PICK T \in B : \A U \in B : <<U, T>> \notin R
  BY <1>1, WFMin
<1>3. ASSUME NEW U \in B, U \subseteq T PROVE U = T
  <2>1. U \in SUBSET S /\ T \in SUBSET S /\ <<U, T>> \notin R
    BY <1>2
  <2>2. U # T => <<U, T>> \in R
    BY <1>3, <2>1 DEF R, StrictSubsetOrdering
  <2>3. QED
    BY <2>1, <2>2
<1>4. QED
  BY <1>3

\* The element that a sum takes next, and the function that sums up all subsets.
Next1(s) == CHOOSE x \in s : TRUE
Sums(h, S, g) ==
  g = [s \in SUBSET S |-> IF s = {} THEN 0 ELSE h[Next1(s)] + g[s \ {Next1(s)}]]
SumsOf(h, S) == CHOOSE g : Sums(h, S, g)

LEMMA SumIsLast ==
  ASSUME NEW h, NEW S
  PROVE  SumFunctionOnSet(h, S) = SumsOf(h, S)[S]
BY DEF SumFunctionOnSet, FoldFunctionOnSet, MapThenFoldSet, SumsOf, Sums, Next1

LEMMA NextIn == ASSUME NEW s, s # {} PROVE Next1(s) \in s
BY DEF Next1

LEMMA SumsAt ==
  ASSUME NEW h, NEW S, NEW g, Sums(h, S, g)
  PROVE  /\ DOMAIN g = SUBSET S /\ g[{}] = 0
         /\ \A s \in SUBSET S : s # {} => g[s] = h[Next1(s)] + g[s \ {Next1(s)}]
BY DEF Sums

\* There is one such function at most, ...
LEMMA SumsUnique ==
  ASSUME NEW h, NEW S, IsFiniteSet(S), NEW f, Sums(h, S, f), NEW g, Sums(h, S, g)
  PROVE  f = g
<1> DEFINE B == {s \in SUBSET S : f[s] # g[s]}
<1>1. ASSUME B # {} PROVE FALSE
  <2>1. PICK T \in B : \A U \in B : U \subseteq T => U = T
    <3>1. B \subseteq SUBSET S
      OBVIOUS
    <3> HIDE DEF B
    <3>2. QED
      BY <1>1, <3>1, SmallestSet
  <2>2. T # {}
    BY SumsAt
  <2>3. Next1(T) \in T
    BY <2>2, NextIn
  <2>4. T \ {Next1(T)} \in SUBSET S /\ T \ {Next1(T)} # T
    BY <2>3
  <2>5. f[T \ {Next1(T)}] = g[T \ {Next1(T)}]
    BY <2>1, <2>4
  <2>6. f[T] = g[T]
    <3>1. T \in SUBSET S
      BY <2>1
    <3>2. \A s \in SUBSET S : s # {} => /\ f[s] = h[Next1(s)] + f[s \ {Next1(s)}]
                                        /\ g[s] = h[Next1(s)] + g[s \ {Next1(s)}]
      BY DEF Sums
    <3>3. QED
      BY <2>2, <2>5, <3>1, <3>2
  <2>7. QED
    BY <2>6
<1>2. \A s \in SUBSET S : f[s] = g[s]
  BY <1>1
<1>3. f = [s \in SUBSET S |-> f[s]] /\ g = [s \in SUBSET S |-> g[s]]
  BY DEF Sums
<1> HIDE DEF B
<1>4. [s \in SUBSET S |-> f[s]] = [s \in SUBSET S |-> g[s]]
  BY <1>2
<1>5. QED
  BY <1>3, <1>4

\* ... a part of it is that of the part, ...
LEMMA SumsPart ==
  ASSUME NEW h, NEW S, NEW g, Sums(h, S, g), NEW T \in SUBSET S
  PROVE  Sums(h, T, [s \in SUBSET T |-> g[s]])
<1> DEFINE f == [s \in SUBSET T |-> g[s]]
<1>1. ASSUME NEW s \in SUBSET T
      PROVE  f[s] = IF s = {} THEN 0 ELSE h[Next1(s)] + f[s \ {Next1(s)}]
  <2>1. s \in SUBSET S /\ s \ {Next1(s)} \in SUBSET T
    OBVIOUS
  <2>2. f[s] = g[s] /\ f[s \ {Next1(s)}] = g[s \ {Next1(s)}]
    BY <2>1
  <2>3. QED
    <3>1. s = {} => g[s] = 0
      BY SumsAt
    <3>2. \A t \in SUBSET S : t # {} => g[t] = h[Next1(t)] + g[t \ {Next1(t)}]
      BY DEF Sums
    <3>3. QED
      BY <2>1, <2>2, <3>1, <3>2
<1>2. f = [s \in SUBSET T |-> f[s]]
  OBVIOUS
<1> HIDE DEF f
<1>3. f = [s \in SUBSET T |-> IF s = {} THEN 0 ELSE h[Next1(s)] + f[s \ {Next1(s)}]]
  BY <1>1, <1>2
<1>4. Sums(h, T, f)
  BY <1>3 DEF Sums
<1>5. QED
  BY <1>4 DEF f

\* ... and there is one.
LEMMA SumsExist ==
  ASSUME NEW h, NEW S, IsFiniteSet(S)
  PROVE  \E g : Sums(h, S, g)
<1> DEFINE B == {s \in SUBSET S : ~\E g : Sums(h, s, g)}
<1>1. ASSUME B # {} PROVE FALSE
  <2>1. PICK T \in B : \A U \in B : U \subseteq T => U = T
    <3>1. B \subseteq SUBSET S
      OBVIOUS
    <3> HIDE DEF B
    <3>2. QED
      BY <1>1, <3>1, SmallestSet
  <2>2. \A U \in SUBSET T : U # T => Sums(h, U, SumsOf(h, U))
    <3>1. ASSUME NEW U \in SUBSET T, U # T PROVE \E g : Sums(h, U, g)
      BY <2>1, <3>1
    <3>2. QED
      BY <3>1 DEF SumsOf
  <2> DEFINE w(s) == SumsOf(h, s)[s]
             g == [s \in SUBSET T |->
                     IF s = {} THEN 0 ELSE h[Next1(s)] + w(s \ {Next1(s)})]
  <2>3. ASSUME NEW s \in SUBSET T, s # T PROVE g[s] = w(s)
    <3>1. Sums(h, s, SumsOf(h, s))
      BY <2>2, <2>3
    <3>2. CASE s = {}
      BY <3>1, <3>2, SumsAt
    <3>3. CASE s # {}
      <4> DEFINE t == s \ {Next1(s)}
      <4>1. t \in SUBSET s /\ t \in SUBSET T /\ t # T
        BY <2>3
      <4>2. w(s) = h[Next1(s)] + SumsOf(h, s)[t]
        <5> HIDE DEF t
        <5>1. s \in SUBSET s
          OBVIOUS
        <5>2. PICK f : f = SumsOf(h, s)
          OBVIOUS
        <5>3. \A u \in SUBSET s : u # {} => f[u] = h[Next1(u)] + f[u \ {Next1(u)}]
          BY <3>1, <5>2 DEF Sums
        <5>4. f[s] = h[Next1(s)] + f[s \ {Next1(s)}]
          BY <3>3, <5>1, <5>3
        <5>5. QED
          BY <5>2, <5>4 DEF t
      <4>3. IsFiniteSet(t)
        BY <4>1, FS_Subset
      <4>4. Sums(h, t, SumsOf(h, t)) /\ Sums(h, t, [u \in SUBSET t |-> SumsOf(h, s)[u]])
        BY <2>2, <3>1, <4>1, SumsPart
      <4>5. SumsOf(h, t) = [u \in SUBSET t |-> SumsOf(h, s)[u]]
        BY <4>3, <4>4, SumsUnique
      <4>6. w(t) = SumsOf(h, s)[t]
        BY <4>5
      <4>7. g[s] = h[Next1(s)] + w(t)
        BY <3>3
      <4>8. QED
        BY <4>2, <4>6, <4>7
    <3>4. QED
      BY <3>2, <3>3
  <2>4. ASSUME NEW s \in SUBSET T, s # {} PROVE g[s] = h[Next1(s)] + g[s \ {Next1(s)}]
    <3>1. Next1(s) \in s
      BY <2>4, NextIn
    <3>2. s \ {Next1(s)} \in SUBSET T /\ s \ {Next1(s)} # T
      BY <3>1
    <3>3. g[s \ {Next1(s)}] = w(s \ {Next1(s)})
      BY <2>3, <3>2
    <3>4. g[s] = h[Next1(s)] + w(s \ {Next1(s)})
      BY <2>4
    <3>5. QED
      BY <3>3, <3>4
  <2>5. g[{}] = 0 /\ g = [s \in SUBSET T |-> g[s]]
    OBVIOUS
  <2> HIDE DEF g
  <2>6. g = [s \in SUBSET T |-> IF s = {} THEN 0 ELSE h[Next1(s)] + g[s \ {Next1(s)}]]
    BY <2>4, <2>5
  <2>7. Sums(h, T, g)
    BY <2>6 DEF Sums
  <2>8. QED
    BY <2>7
<1>2. S \notin B
  BY <1>1
<1>3. QED
  BY <1>2

\* What holds of no elements, and of some once it holds without one of them, holds of all.
LEMMA ByElements ==
  ASSUME NEW S, IsFiniteSet(S), NEW B, {} \in B,
         \A T \in SUBSET S : T # {} /\ T \ {Next1(T)} \in B => T \in B
  PROVE  S \in B
<1> DEFINE C == {T \in SUBSET S : T \notin B}
<1>1. C \subseteq SUBSET S
  OBVIOUS
<1>2. ASSUME C # {} PROVE FALSE
  <2> HIDE DEF C
  <2>1. PICK T \in C : \A U \in C : U \subseteq T => U = T
    BY <1>1, <1>2, SmallestSet
  <2> USE DEF C
  <2>2. T # {} /\ T \in SUBSET S /\ T \notin B
    BY <2>1
  <2>3. Next1(T) \in T
    BY <2>2, NextIn
  <2>4. T \ {Next1(T)} \in B
    BY <2>1, <2>2, <2>3
  <2>5. QED
    BY <2>2, <2>4
<1>3. QED
  BY <1>2

LEMMA SumEmpty == ASSUME NEW h PROVE SumFunctionOnSet(h, {}) = 0
<1>1. Sums(h, {}, SumsOf(h, {}))
  BY SumsExist, FS_EmptySet DEF SumsOf
<1>2. SumsOf(h, {})[{}] = 0
  BY <1>1, SumsAt
<1>3. QED
  BY <1>2, SumIsLast

LEMMA SumNext ==
  ASSUME NEW h, NEW S, IsFiniteSet(S), S # {}
  PROVE  SumFunctionOnSet(h, S) = h[Next1(S)] + SumFunctionOnSet(h, S \ {Next1(S)})
<1> DEFINE T == S \ {Next1(S)}
<1>1. PICK g : g = SumsOf(h, S)
  OBVIOUS
<1>2. Sums(h, S, g)
  BY <1>1, SumsExist DEF SumsOf
<1>3. S \in SUBSET S /\ T \in SUBSET S /\ T \in SUBSET T /\ IsFiniteSet(T)
  BY FS_Subset
<1>4. g[S] = h[Next1(S)] + g[T]
  <2>1. \A s \in SUBSET S : s # {} => g[s] = h[Next1(s)] + g[s \ {Next1(s)}]
    BY <1>2 DEF Sums
  <2>2. QED
    BY <1>3, <2>1
<1> HIDE DEF T
<1>5. PICK f : f = SumsOf(h, T)
  OBVIOUS
<1>6. Sums(h, T, f)
  BY <1>3, <1>5, SumsExist DEF SumsOf
<1>7. f = [s \in SUBSET T |-> g[s]]
  <2>1. Sums(h, T, [s \in SUBSET T |-> g[s]])
    BY <1>2, <1>3, SumsPart
  <2>2. QED
    BY <1>3, <1>6, <2>1, SumsUnique
<1>8. f[T] = g[T]
  BY <1>3, <1>7
<1>9. SumFunctionOnSet(h, S) = g[S] /\ SumFunctionOnSet(h, T) = f[T]
  BY <1>1, <1>5, SumIsLast
<1>10. QED
  BY <1>4, <1>8, <1>9 DEF T

LEMMA SumInt ==
  ASSUME NEW S, IsFiniteSet(S), NEW h, \A x \in S : h[x] \in Int
  PROVE  SumFunctionOnSet(h, S) \in Int
<1> DEFINE B == {T \in SUBSET S : SumFunctionOnSet(h, T) \in Int}
<1>1. {} \in B
  BY SumEmpty
<1>2. ASSUME NEW T \in SUBSET S, T # {}, T \ {Next1(T)} \in B PROVE T \in B
  <2>1. IsFiniteSet(T) /\ Next1(T) \in S
    BY <1>2, FS_Subset, NextIn
  <2>2. SumFunctionOnSet(h, T) = h[Next1(T)] + SumFunctionOnSet(h, T \ {Next1(T)})
    BY <1>2, <2>1, SumNext
  <2>3. QED
    BY <1>2, <2>1, <2>2
<1> HIDE DEF B
<1>3. S \in B
  BY <1>1, <1>2, ByElements
<1>4. QED
  BY <1>3 DEF B

\* A sum of naturals.
LEMMA SumNat ==
  ASSUME NEW S, IsFiniteSet(S), NEW h, \A x \in S : h[x] \in Nat
  PROVE  SumFunctionOnSet(h, S) \in Nat
<1> DEFINE B == {T \in SUBSET S : SumFunctionOnSet(h, T) \in Nat}
<1>1. {} \in B
  BY SumEmpty
<1>2. ASSUME NEW T \in SUBSET S, T # {}, T \ {Next1(T)} \in B PROVE T \in B
  <2>1. IsFiniteSet(T) /\ Next1(T) \in S
    BY <1>2, FS_Subset, NextIn
  <2>2. SumFunctionOnSet(h, T) = h[Next1(T)] + SumFunctionOnSet(h, T \ {Next1(T)})
    BY <1>2, <2>1, SumNext
  <2>3. QED
    BY <1>2, <2>1, <2>2
<1> HIDE DEF B
<1>3. S \in B
  BY <1>1, <1>2, ByElements
<1>4. QED
  BY <1>3 DEF B

\* Any element may be taken first.
LEMMA SumStep ==
  ASSUME NEW S, IsFiniteSet(S), NEW h, \A x \in S : h[x] \in Int, NEW e \in S
  PROVE  SumFunctionOnSet(h, S) = h[e] + SumFunctionOnSet(h, S \ {e})
<1> DEFINE AnyFirst(T) == \A x \in T :
                        SumFunctionOnSet(h, T) = h[x] + SumFunctionOnSet(h, T \ {x})
           B == {T \in SUBSET S : ~AnyFirst(T)}
<1>1. B \subseteq SUBSET S
  OBVIOUS
<1>2. ASSUME B # {} PROVE FALSE
  <2>1. PICK T \in B : \A U \in B : U \subseteq T => U = T
    <3> HIDE DEF B
    <3>1. QED
      BY <1>1, <1>2, SmallestSet
  <2>2. \A U \in SUBSET S : U \subseteq T /\ U # T => AnyFirst(U)
    BY <2>1
  <2>3. PICK x \in T : SumFunctionOnSet(h, T) # h[x] + SumFunctionOnSet(h, T \ {x})
    BY <2>1
  <2>4. PICK y : y = Next1(T)
    OBVIOUS
  <2>5. T \in SUBSET S /\ IsFiniteSet(T) /\ y \in T
    BY <2>1, <2>3, <2>4, FS_Subset, NextIn
  <2>6. SumFunctionOnSet(h, T) = h[y] + SumFunctionOnSet(h, T \ {y})
    BY <2>3, <2>4, <2>5, SumNext
  <2>7. x # y
    BY <2>3, <2>6
  <2> DEFINE V == (T \ {y}) \ {x}
  <2>8. SumFunctionOnSet(h, T \ {y}) = h[x] + SumFunctionOnSet(h, V)
    <3>1. AnyFirst(T \ {y}) /\ x \in T \ {y}
      BY <2>2, <2>5, <2>7
    <3>2. QED
      BY <3>1
  <2>9. SumFunctionOnSet(h, T \ {x}) = h[y] + SumFunctionOnSet(h, V)
    <3>1. AnyFirst(T \ {x}) /\ y \in T \ {x} /\ (T \ {x}) \ {y} = V
      BY <2>2, <2>5, <2>7
    <3>2. QED
      BY <3>1
  <2>10. h[x] \in Int /\ h[y] \in Int
    BY <2>1, <2>5
  <2>11. SumFunctionOnSet(h, V) \in Int
    <3>1. IsFiniteSet(V) /\ \A z \in V : h[z] \in Int
      BY <2>5, FS_Subset
    <3> HIDE DEF V
    <3>2. QED
      BY <3>1, SumInt
  <2> HIDE DEF V
  <2>12. SumFunctionOnSet(h, T) = h[x] + SumFunctionOnSet(h, T \ {x})
    BY <2>6, <2>8, <2>9, <2>10, <2>11
  <2>13. QED
    BY <2>3, <2>12
<1>3. S \notin B
  BY <1>2
<1>4. QED
  BY <1>3

\* Sums that are equal element by element.
LEMMA SumSame ==
  ASSUME NEW S, IsFiniteSet(S), NEW h, NEW f, \A x \in S : h[x] = f[x]
  PROVE  SumFunctionOnSet(h, S) = SumFunctionOnSet(f, S)
<1> DEFINE B == {T \in SUBSET S : SumFunctionOnSet(h, T) = SumFunctionOnSet(f, T)}
<1>1. {} \in B
  BY SumEmpty
<1>2. ASSUME NEW T \in SUBSET S, T # {}, T \ {Next1(T)} \in B PROVE T \in B
  <2>1. IsFiniteSet(T) /\ Next1(T) \in S
    BY <1>2, FS_Subset, NextIn
  <2>2. /\ SumFunctionOnSet(h, T) = h[Next1(T)] + SumFunctionOnSet(h, T \ {Next1(T)})
        /\ SumFunctionOnSet(f, T) = f[Next1(T)] + SumFunctionOnSet(f, T \ {Next1(T)})
    BY <1>2, <2>1, SumNext
  <2>3. h[Next1(T)] = f[Next1(T)]
    BY <2>1
  <2>4. SumFunctionOnSet(h, T) = SumFunctionOnSet(f, T)
    BY <1>2, <2>2, <2>3
  <2>5. QED
    BY <2>4
<1> HIDE DEF B
<1>3. S \in B
  BY <1>1, <1>2, ByElements
<1>4. QED
  BY <1>3 DEF B

\* What a subset takes away from a sum.
LEMMA SumLess ==
  ASSUME NEW S, IsFiniteSet(S), NEW G \in SUBSET S, NEW h, NEW f, NEW d,
         \A x \in S : h[x] \in Int /\ f[x] \in Int, \A x \in G : d[x] \in Int,
         \A x \in G : f[x] = h[x] - d[x], \A x \in S \ G : f[x] = h[x]
  PROVE  SumFunctionOnSet(f, S) = SumFunctionOnSet(h, S) - SumFunctionOnSet(d, G)
<1> DEFINE B == {T \in SUBSET S : SumFunctionOnSet(f, T)
                   = SumFunctionOnSet(h, T) - SumFunctionOnSet(d, T \intersect G)}
<1>1. {} \in B
  <2>1. {} \intersect G = {}
    OBVIOUS
  <2>2. QED
    BY <2>1, SumEmpty
<1>2. ASSUME NEW T \in SUBSET S, T # {}, T \ {Next1(T)} \in B PROVE T \in B
  <2> DEFINE x == Next1(T)
             U == T \ {x}
  <2>1. IsFiniteSet(T) /\ IsFiniteSet(U) /\ x \in T /\ x \in S
    BY <1>2, FS_Subset, NextIn
  <2>2. /\ SumFunctionOnSet(h, T) = h[x] + SumFunctionOnSet(h, U)
        /\ SumFunctionOnSet(f, T) = f[x] + SumFunctionOnSet(f, U)
    BY <1>2, <2>1, SumNext
  <2>3. SumFunctionOnSet(f, U) = SumFunctionOnSet(h, U) - SumFunctionOnSet(d, U \intersect G)
    BY <1>2
  <2>4. SumFunctionOnSet(h, U) \in Int /\ SumFunctionOnSet(f, U) \in Int
    BY <2>1, SumInt
  <2>5. IsFiniteSet(T \intersect G) /\ IsFiniteSet(U \intersect G)
    BY <2>1, FS_Subset
  <2>6. SumFunctionOnSet(d, U \intersect G) \in Int
    BY <2>5, SumInt
  <2> HIDE DEF x
  <2>7. CASE x \in G
    <3>1. (T \intersect G) \ {x} = U \intersect G /\ x \in T \intersect G
      BY <2>1, <2>7
    <3>2. SumFunctionOnSet(d, T \intersect G) = d[x] + SumFunctionOnSet(d, U \intersect G)
      BY <2>5, <2>7, <3>1, SumStep
    <3>3. f[x] = h[x] - d[x] /\ h[x] \in Int /\ d[x] \in Int
      BY <2>1, <2>7
    <3> HIDE DEF U
    <3>4. SumFunctionOnSet(f, T)
            = SumFunctionOnSet(h, T) - SumFunctionOnSet(d, T \intersect G)
      BY <2>2, <2>3, <2>4, <2>6, <3>2, <3>3
    <3>5. QED
      BY <3>4
  <2>8. CASE x \notin G
    <3>1. U \intersect G = T \intersect G
      BY <2>8
    <3>2. f[x] = h[x] /\ h[x] \in Int
      BY <2>1, <2>8
    <3>3. SumFunctionOnSet(f, T)
            = SumFunctionOnSet(h, T) - SumFunctionOnSet(d, T \intersect G)
      <4>1. SumFunctionOnSet(d, U \intersect G) = SumFunctionOnSet(d, T \intersect G)
        BY <3>1
      <4> HIDE DEF U
      <4>2. QED
        BY <2>2, <2>3, <2>4, <2>6, <3>2, <4>1
    <3>4. QED
      BY <3>3
  <2>9. QED
    BY <2>7, <2>8
<1> HIDE DEF B
<1>3. S \in B
  BY <1>1, <1>2, ByElements
<1>4. S \intersect G = G
  OBVIOUS
<1>5. QED
  BY <1>3, <1>4 DEF B

\* A sum of smaller elements is no larger.
LEMMA SumAtMost ==
  ASSUME NEW S, IsFiniteSet(S), NEW h, NEW f,
         \A x \in S : h[x] \in Int /\ f[x] \in Int /\ f[x] <= h[x]
  PROVE  SumFunctionOnSet(f, S) <= SumFunctionOnSet(h, S)
<1> DEFINE B == {T \in SUBSET S : SumFunctionOnSet(f, T) <= SumFunctionOnSet(h, T)}
<1>1. {} \in B
  BY SumEmpty
<1>2. ASSUME NEW T \in SUBSET S, T # {}, T \ {Next1(T)} \in B PROVE T \in B
  <2> DEFINE x == Next1(T)
             U == T \ {x}
  <2>1. IsFiniteSet(T) /\ IsFiniteSet(U) /\ x \in S
    BY <1>2, FS_Subset, NextIn
  <2>2. /\ SumFunctionOnSet(h, T) = h[x] + SumFunctionOnSet(h, U)
        /\ SumFunctionOnSet(f, T) = f[x] + SumFunctionOnSet(f, U)
    BY <1>2, <2>1, SumNext
  <2>3. SumFunctionOnSet(f, U) <= SumFunctionOnSet(h, U)
    BY <1>2
  <2>4. SumFunctionOnSet(h, U) \in Int /\ SumFunctionOnSet(f, U) \in Int
    BY <2>1, SumInt
  <2>5. h[x] \in Int /\ f[x] \in Int /\ f[x] <= h[x]
    BY <2>1
  <2> HIDE DEF x, U
  <2>6. SumFunctionOnSet(f, T) <= SumFunctionOnSet(h, T)
    BY <2>2, <2>3, <2>4, <2>5
  <2>7. QED
    BY <2>6
<1> HIDE DEF B
<1>3. S \in B
  BY <1>1, <1>2, ByElements
<1>4. QED
  BY <1>3 DEF B

-----------------------------------------------------------------------------
(* BudgetCut: an order cut to a budget.                                     *)

LineRank(l) == ReductionRank(Line(l).decision)

\* Each line lies between what is protected and what was ordered.
QuantitiesInv ==
    /\ quantity \in [Lines -> Int]
    /\ \A l \in Lines : quantity[l] \in MinimumQuantity(l) .. Line(l).quantity

\* What is left to cut is what the order is above its target.
RemainingInv ==
    /\ rank \in 0 .. 5
    /\ remaining # None => rank \in Ranks /\ remaining = RequiredReduction

\* The ranks behind the one under way give nothing more, while the order is above its target
\* and where a line of a later rank has been cut.
RanksInv ==
    /\ Total > ReductionTarget => \A l \in Lines : LineRank(l) < rank => ~Reducible(l)
    /\ \A l, k \in Lines : WasCut(l) /\ LineRank(k) < LineRank(l) => ~Reducible(k)

\* An order above its target alone is cut, below the target by less than a unit of a cut line.
CutNoDeeper ==
    /\ Total < ReductionTarget =>
          \/ quantity = Original
          \/ \E l \in Lines : WasCut(l) /\ ReductionTarget - Total < Line(l).price
    /\ Amount(Original) <= ReductionTarget => quantity = Original

CutInv ==
    /\ simulation \in Simulations
    /\ QuantitiesInv /\ RemainingInv /\ RanksInv /\ CutNoDeeper

\* Larger and smaller of two, and the quantity times a price.
LEMMA MaxMinOfTwo ==
  ASSUME NEW a \in Int, NEW b \in Int
  PROVE  /\ Max({a, b}) \in {a, b} /\ Max({a, b}) >= a /\ Max({a, b}) >= b
         /\ Min({a, b}) \in {a, b} /\ Min({a, b}) <= a /\ Min({a, b}) <= b
<1>1. \E x \in {a, b} : \A y \in {a, b} : x >= y
  <2>1. CASE a >= b
    BY <2>1
  <2>2. CASE b >= a
    BY <2>2
  <2>3. QED
    BY <2>1, <2>2
<1>2. \E x \in {a, b} : \A y \in {a, b} : x =< y
  <2>1. CASE a >= b
    BY <2>1
  <2>2. CASE b >= a
    BY <2>2
  <2>3. QED
    BY <2>1, <2>2
<1>3. QED
  BY <1>1, <1>2 DEF Max, Min

LEMMA TimesAtMost ==
  ASSUME NEW a \in Int, NEW b \in Int, a <= b, NEW p \in Nat
  PROVE  a * p \in Int /\ b * p \in Int /\ a * p <= b * p
OBVIOUS

LEMMA TimesMinus ==
  ASSUME NEW a \in Int, NEW b \in Int, NEW p \in Int
  PROVE  (a - b) * p = a * p - b * p
OBVIOUS

LEMMA DivAtMost ==
  ASSUME NEW r \in Nat, NEW p \in Nat \ {0}
  PROVE  r \div p \in Nat /\ (r \div p) * p <= r
OBVIOUS

\* Finitely many integers have a largest one.
LEMMA MaxExists ==
  ASSUME NEW S \in SUBSET Int, IsFiniteSet(S), NEW e \in S
  PROVE  Max(S) \in S /\ \A y \in S : Max(S) >= y
<1> DEFINE B == {T \in SUBSET S : T # {} => \E m \in T : \A y \in T : m >= y}
<1>1. {} \in B
  OBVIOUS
<1>2. ASSUME NEW T \in SUBSET S, T # {}, T \ {Next1(T)} \in B PROVE T \in B
  <2>1. PICK n : n = Next1(T)
    OBVIOUS
  <2>2. n \in T /\ n \in Int
    BY <1>2, <2>1, NextIn
  <2>3. CASE T \ {n} = {}
    BY <2>2, <2>3
  <2>4. CASE T \ {n} # {}
    <3>1. PICK m \in T \ {n} : \A y \in T \ {n} : m >= y
      BY <1>2, <2>1, <2>4
    <3>2. CASE n >= m
      <4>1. \A y \in T : n >= y
        BY <2>2, <3>1, <3>2
      <4>2. QED
        BY <2>2, <4>1
    <3>3. CASE m >= n
      <4>1. \A y \in T : m >= y
        BY <2>2, <3>1, <3>3
      <4>2. QED
        BY <3>1, <4>1
    <3>4. QED
      BY <2>2, <3>1, <3>2, <3>3
  <2>5. QED
    BY <2>3, <2>4
<1> HIDE DEF B
<1>3. S \in B
  BY <1>1, <1>2, ByElements
<1>4. \E m \in S : \A y \in S : m >= y
  BY <1>3 DEF B
<1>5. QED
  BY <1>4 DEF Max

\* A rank is one of five.
LEMMA RankTyped == ASSUME NEW d PROVE ReductionRank(d) \in 0 .. 4
<1>1. \/ ReductionRank(d) = 0 \/ ReductionRank(d) = 1 \/ ReductionRank(d) = 2
      \/ ReductionRank(d) = 3 \/ ReductionRank(d) = 4
  BY Zenon DEF ReductionRank
<1>2. QED
  BY <1>1

LEMMA OrderTyped ==
  ASSUME simulation \in Simulations
  PROVE  /\ None \notin Int /\ simulation.target \in Nat /\ IsFiniteSet(Lines)
         /\ \A l \in Lines : /\ Line(l).price \in Nat \ {0} /\ Line(l).quantity \in Nat
                             /\ LineRank(l) \in 0 .. 4
BY CutAssumption, RankTyped DEF Lines, Line, LineRank

\* What is protected in a line is at most what is ordered.
LEMMA MinimumTyped ==
  ASSUME simulation \in Simulations, NEW l \in Lines
  PROVE  MinimumQuantity(l) \in Nat /\ MinimumQuantity(l) <= Line(l).quantity
<1>1. Line(l).quantity \in Nat
  BY OrderTyped
<1>2. CASE simulation.from = "agent"
  <2>1. /\ Line(l).minimum \in Nat
        /\ Line(l).gap \in (Nat \ {0}) \union {None}
    BY <1>2, CutAssumption DEF Lines, Line
  <2> DEFINE gap == IF Line(l).gap = None THEN 1 ELSE Line(l).gap
             minimum == IF Line(l).mandatory THEN Max({Line(l).minimum, gap})
                        ELSE Line(l).minimum
  <2>2. gap \in Nat
    BY <2>1
  <2> HIDE DEF gap
  <2>3. minimum \in Nat
    <3>1. PICK a \in Int : a = Line(l).minimum
      BY <2>1
    <3>2. Max({a, gap}) \in {a, gap}
      BY <2>2, MaxMinOfTwo
    <3>3. QED
      BY <2>1, <2>2, <3>1, <3>2
  <2>4. MinimumQuantity(l) = IF Line(l).decision = "must_buy" THEN Line(l).quantity
                             ELSE Min({Line(l).quantity, minimum})
    BY <1>2 DEF MinimumQuantity, ProtectedQuantity, gap
  <2> HIDE DEF minimum
  <2>5. /\ Min({Line(l).quantity, minimum}) \in {Line(l).quantity, minimum}
        /\ Min({Line(l).quantity, minimum}) <= Line(l).quantity
    <3>1. PICK a \in Int : a = Line(l).quantity
      BY <1>1
    <3>2. minimum \in Int
      BY <2>3
    <3>3. Min({a, minimum}) \in {a, minimum} /\ Min({a, minimum}) <= a
      BY <3>2, MaxMinOfTwo
    <3>4. QED
      BY <3>1, <3>3
  <2>6. QED
    BY <1>1, <2>3, <2>4, <2>5
<1>3. CASE simulation.from # "agent"
  BY <1>1, <1>3 DEF MinimumQuantity
<1>4. QED
  BY <1>2, <1>3

-----------------------------------------------------------------------------
(* Amounts.                                                                 *)

LEMMA AmountTyped ==
  ASSUME simulation \in Simulations, NEW q, \A l \in Lines : q[l] \in Int
  PROVE  Amount(q) \in Int
<1> DEFINE h == [l \in Lines |-> q[l] * Line(l).price]
<1>1. \A l \in Lines : h[l] \in Int
  BY OrderTyped
<1>2. Amount(q) = SumFunctionOnSet(h, Lines)
  BY DEF Amount, SumFunction
<1> HIDE DEF h
<1>3. QED
  BY <1>1, <1>2, OrderTyped, SumInt

LEMMA AmountSame ==
  ASSUME NEW q, NEW r, \A l \in Lines : q[l] = r[l]
  PROVE  Amount(q) = Amount(r)
<1>1. [l \in Lines |-> q[l] * Line(l).price] = [l \in Lines |-> r[l] * Line(l).price]
  OBVIOUS
<1>2. QED
  BY <1>1 DEF Amount

LEMMA AmountAtMost ==
  ASSUME simulation \in Simulations, NEW q, NEW r,
         \A l \in Lines : q[l] \in Int /\ r[l] \in Int /\ r[l] <= q[l]
  PROVE  Amount(r) <= Amount(q)
<1> DEFINE h == [l \in Lines |-> q[l] * Line(l).price]
           f == [l \in Lines |-> r[l] * Line(l).price]
<1>1. ASSUME NEW l \in Lines PROVE h[l] \in Int /\ f[l] \in Int /\ f[l] <= h[l]
  <2>1. Line(l).price \in Nat
    BY OrderTyped
  <2>2. q[l] * Line(l).price \in Int /\ r[l] * Line(l).price \in Int
        /\ r[l] * Line(l).price <= q[l] * Line(l).price
    BY <2>1, TimesAtMost
  <2>3. QED
    BY <2>2
<1>2. Amount(q) = SumFunctionOnSet(h, Lines) /\ Amount(r) = SumFunctionOnSet(f, Lines)
  BY DEF Amount, SumFunction
<1> HIDE DEF h, f
<1>3. QED
  BY <1>1, <1>2, OrderTyped, SumAtMost

\* What is taken from some lines is missing from the amount.
Takes(q, r, n, G) ==
    /\ G \subseteq Lines
    /\ \A l \in Lines : q[l] \in Int
    /\ \A l \in G : n[l] \in Int
    /\ \A l \in G : r[l] = q[l] - n[l]
    /\ \A l \in Lines \ G : r[l] = q[l]
Freed(n, G) == SumFunction([l \in G |-> n[l] * Line(l).price])

LEMMA AmountLess ==
  ASSUME simulation \in Simulations, NEW G, NEW q, NEW r, NEW n, Takes(q, r, n, G)
  PROVE  Amount(r) = Amount(q) - Freed(n, G)
<1> USE DEF Takes
<1> DEFINE h == [l \in Lines |-> q[l] * Line(l).price]
           f == [l \in Lines |-> r[l] * Line(l).price]
           d == [l \in G |-> n[l] * Line(l).price]
<1>1. G \subseteq Lines /\ \A l \in Lines : Line(l).price \in Int /\ r[l] \in Int
  BY OrderTyped
<1>2. \A l \in Lines : h[l] \in Int /\ f[l] \in Int
  BY <1>1
<1>3. \A l \in G : d[l] \in Int
  BY <1>1
<1>4. ASSUME NEW l \in G PROVE f[l] = h[l] - d[l]
  <2>1. (q[l] - n[l]) * Line(l).price = q[l] * Line(l).price - n[l] * Line(l).price
    BY <1>1, TimesMinus
  <2>2. QED
    BY <2>1
<1>5. \A l \in Lines \ G : f[l] = h[l]
  OBVIOUS
<1>6. /\ Amount(q) = SumFunctionOnSet(h, Lines) /\ Amount(r) = SumFunctionOnSet(f, Lines)
      /\ SumFunction(d) = SumFunctionOnSet(d, G)
  BY DEF Amount, SumFunction
<1> HIDE DEF h, f, d
<1>7. SumFunctionOnSet(f, Lines) = SumFunctionOnSet(h, Lines) - SumFunctionOnSet(d, G)
  BY <1>1, <1>2, <1>3, <1>4, <1>5, OrderTyped, SumLess
<1>8. Amount(r) = Amount(q) - SumFunction(d)
  BY <1>6, <1>7
<1>9. QED
  BY <1>8 DEF d, Freed

LEMMA AmountOfOneLess ==
  ASSUME simulation \in Simulations, NEW l \in Lines, NEW q, NEW r, NEW n \in Int,
         \A k \in Lines : q[k] \in Int,
         r[l] = q[l] - n, \A k \in Lines \ {l} : r[k] = q[k]
  PROVE  Amount(r) = Amount(q) - n * Line(l).price
<1> DEFINE d == [k \in {l} |-> n * Line(k).price]
<1>1. Amount(r) = Amount(q) - SumFunction(d)
  <2>1. PICK m : m = [k \in {l} |-> n]
    OBVIOUS
  <2>2. Takes(q, r, m, {l})
    BY <2>1 DEF Takes
  <2>3. Amount(r) = Amount(q) - Freed(m, {l})
    BY <2>2, AmountLess
  <2>4. [k \in {l} |-> m[k] * Line(k).price] = d
    BY <2>1
  <2>5. QED
    BY <2>3, <2>4 DEF Freed
<1>2. d[l] = n * Line(l).price /\ d[l] \in Int /\ DOMAIN d = {l}
  BY OrderTyped
<1> HIDE DEF d
<1>3. SumFunctionOnSet(d, {l}) = d[l] + SumFunctionOnSet(d, {l} \ {l})
  <2>1. IsFiniteSet({l}) /\ \A x \in {l} : d[x] \in Int
    BY <1>2, FS_Singleton
  <2>2. QED
    BY <2>1, SumStep
<1>4. {l} \ {l} = {}
  OBVIOUS
<1>5. SumFunctionOnSet(d, {l}) = d[l]
  <2>1. SumFunctionOnSet(d, {l} \ {l}) = 0
    BY <1>4, SumEmpty
  <2>2. QED
    BY <1>2, <1>3, <2>1
<1>6. QED
  BY <1>1, <1>2, <1>5 DEF SumFunction

-----------------------------------------------------------------------------
(* Steps of the simulation.                                                 *)

LEMMA CutTotals ==
  ASSUME CutInv
  PROVE  /\ Total \in Int /\ ReductionTarget \in Int /\ RequiredReduction \in Int
         /\ Amount(Original) \in Int /\ Amount(MinimumQuantities) \in Int
         /\ simulation.target <= ReductionTarget
         /\ Amount(MinimumQuantities) <= ReductionTarget
<1>1. simulation \in Simulations /\ \A l \in Lines : quantity[l] \in Int
  BY DEF CutInv, QuantitiesInv
<1>2. Total \in Int
  BY <1>1, AmountTyped DEF Total
<1>3. Amount(Original) \in Int
  <2>1. \A l \in Lines : Original[l] \in Int
    BY <1>1, OrderTyped DEF Original
  <2>2. QED
    BY <1>1, <2>1, AmountTyped
<1>4. Amount(MinimumQuantities) \in Int
  <2>1. \A l \in Lines : MinimumQuantities[l] \in Int
    BY <1>1, MinimumTyped DEF MinimumQuantities
  <2>2. QED
    BY <1>1, <2>1, AmountTyped
<1>5. PICK a \in Int, b \in Int : a = simulation.target /\ b = Amount(MinimumQuantities)
  BY <1>1, <1>4, OrderTyped
<1>6. ReductionTarget = Max({a, b})
  BY <1>5 DEF ReductionTarget
<1>7. Max({a, b}) \in Int /\ a <= Max({a, b}) /\ b <= Max({a, b})
  BY MaxMinOfTwo
<1>8. QED
  BY <1>2, <1>3, <1>4, <1>5, <1>6, <1>7 DEF RequiredReduction

\* The order that is cut stays the same, and what is said of it.
LEMMA OrderStays ==
  ASSUME simulation' = simulation, NEW new, new = quantity'
  PROVE  /\ Lines' = Lines /\ Original' = Original /\ ReductionTarget' = ReductionTarget
         /\ \A l \in Lines : /\ Line(l)' = Line(l) /\ LineRank(l)' = LineRank(l)
                             /\ MinimumQuantity(l)' = MinimumQuantity(l)
                             /\ WasCut(l)' = (new[l] < Line(l).quantity)
                             /\ Reducible(l)' = (new[l] > MinimumQuantity(l))
         /\ Total' = Amount(new) /\ Amount(Original)' = Amount(Original)
<1>1. Lines' = Lines
  BY DEF Lines
<1>2. \A l \in Lines : Line(l)' = Line(l)
  BY DEF Line
<1>3. \A l \in Lines : MinimumQuantity(l)' = MinimumQuantity(l)
  BY <1>2 DEF MinimumQuantity, ProtectedQuantity, Line
<1>4. \A l \in Lines : LineRank(l)' = LineRank(l)
  BY <1>2 DEF LineRank, ReductionRank, Line
<1>5. Original' = Original
  BY <1>1 DEF Original, Line
<1>6. ReductionTarget' = ReductionTarget
  BY <1>1, <1>3 DEF ReductionTarget, Amount, MinimumQuantities, MinimumQuantity,
                    ProtectedQuantity, Lines, Line
<1>7. Total' = Amount(new) /\ Amount(Original)' = Amount(Original)
  BY <1>5 DEF Total, Amount, Lines, Line
<1>8. \A l \in Lines : /\ WasCut(l)' = (new[l] < Line(l).quantity)
                       /\ Reducible(l)' = (new[l] > MinimumQuantity(l))
  BY <1>2, <1>3 DEF WasCut, Reducible
<1>9. QED
  BY <1>1, <1>2, <1>3, <1>4, <1>5, <1>6, <1>7, <1>8

\* What any cut of the rank under way keeps, of an order above its target.
LEMMA CutOfRank ==
  ASSUME CutInv, Total > ReductionTarget, simulation' = simulation,
         NEW new \in [Lines -> Int], new = quantity',
         \A l \in Lines : new[l] \in MinimumQuantity(l) .. quantity[l],
         \A l \in Lines : new[l] # quantity[l] => LineRank(l) = rank
  PROVE  /\ simulation' \in Simulations /\ QuantitiesInv'
         /\ Amount(new) \in Int /\ Amount(new) <= Total
         /\ \A l \in Lines : LineRank(l) < rank => ~Reducible(l)'
         /\ (\A l, k \in Lines : WasCut(l) /\ LineRank(k) < LineRank(l) => ~Reducible(k))'
         /\ (Amount(Original) <= ReductionTarget => quantity = Original)'
<1>1. simulation \in Simulations
  BY DEF CutInv
<1>2. \A l \in Lines : /\ quantity[l] \in Int /\ quantity[l] <= Line(l).quantity
                       /\ MinimumQuantity(l) \in Int /\ Line(l).quantity \in Int
                       /\ LineRank(l) \in Int
                       /\ new[l] \in Int /\ new[l] <= quantity[l]
                       /\ MinimumQuantity(l) <= new[l]
  BY <1>1, MinimumTyped, OrderTyped DEF CutInv, QuantitiesInv
<1>3. QuantitiesInv'
  BY <1>2, OrderStays DEF QuantitiesInv
<1>4. Amount(new) \in Int /\ Amount(new) <= Total
  BY <1>1, <1>2, AmountTyped, AmountAtMost DEF Total
<1>5. ASSUME NEW l \in Lines, ~Reducible(l) PROVE ~Reducible(l)'
  <2>1. ~(quantity[l] > MinimumQuantity(l))
    BY <1>5 DEF Reducible
  <2>2. ~(new[l] > MinimumQuantity(l))
    BY <1>2, <2>1
  <2>3. QED
    BY <2>2, OrderStays
<1>6. \A l \in Lines : LineRank(l) < rank => ~Reducible(l)
  BY DEF CutInv, RanksInv
<1>7. \A l \in Lines : LineRank(l) < rank => ~Reducible(l)'
  BY <1>5, <1>6
<1>8. ASSUME NEW l \in Lines, NEW k \in Lines, WasCut(l)', LineRank(k) < LineRank(l)
      PROVE  ~Reducible(k)'
  <2>1. new[l] < Line(l).quantity
    BY <1>8, OrderStays
  <2>2. CASE new[l] = quantity[l]
    <3>1. WasCut(l)
      BY <2>1, <2>2 DEF WasCut
    <3>2. ~Reducible(k)
      BY <1>8, <3>1 DEF CutInv, RanksInv
    <3>3. QED
      BY <1>5, <3>2
  <2>3. CASE new[l] # quantity[l]
    <3>1. LineRank(l) = rank
      BY <2>3
    <3>2. QED
      BY <1>7, <1>8, <3>1
  <2>4. QED
    BY <2>2, <2>3
<1>9. (\A l, k \in Lines : WasCut(l) /\ LineRank(k) < LineRank(l) => ~Reducible(k))'
  BY <1>8, OrderStays
<1>10. ~(Amount(Original) <= ReductionTarget)
  <2>1. Total \in Int /\ ReductionTarget \in Int
    BY CutTotals
  <2>2. quantity = Original => Total = Amount(Original)
    BY DEF Total
  <2>3. Amount(Original) <= ReductionTarget => quantity = Original
    BY DEF CutInv, CutNoDeeper
  <2>4. QED
    BY <2>1, <2>2, <2>3
<1>11. (Amount(Original) <= ReductionTarget => quantity = Original)'
  BY <1>10, OrderStays
<1>12. QED
  BY <1>1, <1>3, <1>4, <1>7, <1>9, <1>11

LEMMA SkipKeeps == ASSUME CutInv, SkipGroup PROVE CutInv'
<1>1. /\ simulation' = simulation /\ quantity' = quantity
      /\ rank' = rank + 1 /\ remaining' = None /\ rank \in Ranks
  BY DEF SkipGroup
<1>2. PICK new : new = quantity'
  OBVIOUS
<1>3. new = quantity
  BY <1>1, <1>2
<1>4. simulation \in Simulations
  BY DEF CutInv
<1>5. QuantitiesInv' /\ RemainingInv'
  BY <1>1, <1>2, <1>3, <1>4, OrderStays DEF CutInv, QuantitiesInv, RemainingInv, Ranks
<1>6. Total' = Total /\ ReductionTarget' = ReductionTarget
      /\ Amount(Original)' = Amount(Original) /\ Original' = Original
  BY <1>1, <1>2, <1>3, OrderStays DEF Total
<1>7. \A l \in Lines : /\ WasCut(l)' = WasCut(l) /\ Reducible(l)' = Reducible(l)
                       /\ LineRank(l)' = LineRank(l) /\ Line(l)' = Line(l)
  BY <1>1, <1>2, <1>3, OrderStays DEF WasCut, Reducible
<1>8. Lines' = Lines
  BY <1>1, <1>2, OrderStays
<1>9. CutNoDeeper'
  BY <1>1, <1>6, <1>7, <1>8 DEF CutInv, CutNoDeeper
<1>10. ASSUME Total > ReductionTarget, NEW l \in Lines, LineRank(l) < rank + 1
       PROVE  ~Reducible(l)
  <2>1. Group = {}
    BY <1>10, CutTotals DEF SkipGroup, RequiredReduction
  <2>2. LineRank(l) \in Int /\ rank \in Int
    BY <1>1, <1>4, OrderTyped DEF Ranks
  <2>3. CASE LineRank(l) = rank
    BY <2>1, <2>3 DEF Group, LineRank
  <2>4. CASE LineRank(l) < rank
    BY <1>10, <2>4 DEF CutInv, RanksInv
  <2>5. QED
    BY <1>10, <2>2, <2>3, <2>4
<1>11. RanksInv'
  BY <1>1, <1>6, <1>7, <1>8, <1>10 DEF CutInv, RanksInv
<1>12. QED
  BY <1>1, <1>4, <1>5, <1>9, <1>11 DEF CutInv

LEMMA CutWholeKeeps == ASSUME CutInv, CutWholeGroup PROVE CutInv'
<1>1. /\ simulation' = simulation /\ rank' = rank + 1 /\ remaining' = None /\ rank \in Ranks
      /\ RequiredReduction > 0 /\ GroupCapacity <= RequiredReduction
  BY DEF CutWholeGroup
<1>2. PICK new : new = quantity'
  OBVIOUS
<1>3. new = [l \in Lines |-> IF l \in Group THEN MinimumQuantity(l) ELSE quantity[l]]
  BY <1>2 DEF CutWholeGroup
<1>4. simulation \in Simulations /\ Group \subseteq Lines
  BY DEF CutInv, Group
<1>5. \A l \in Lines : /\ quantity[l] \in Int /\ MinimumQuantity(l) \in Int
                       /\ MinimumQuantity(l) <= quantity[l] /\ LineRank(l) \in Int
  BY <1>4, MinimumTyped, OrderTyped DEF CutInv, QuantitiesInv
<1>6. Total > ReductionTarget /\ Total \in Int /\ ReductionTarget \in Int
  BY <1>1, CutTotals DEF RequiredReduction
<1>7. new \in [Lines -> Int] /\ \A l \in Lines : new[l] \in MinimumQuantity(l) .. quantity[l]
  BY <1>3, <1>5
<1>8. \A l \in Lines : new[l] # quantity[l] => LineRank(l) = rank
  BY <1>3 DEF Group, LineRank
<1>9. /\ simulation' \in Simulations /\ QuantitiesInv'
      /\ Amount(new) \in Int /\ Amount(new) <= Total
      /\ \A l \in Lines : LineRank(l) < rank => ~Reducible(l)'
      /\ (\A l, k \in Lines : WasCut(l) /\ LineRank(k) < LineRank(l) => ~Reducible(k))'
      /\ (Amount(Original) <= ReductionTarget => quantity = Original)'
  BY <1>1, <1>2, <1>6, <1>7, <1>8, CutOfRank
<1>10. Amount(new) >= ReductionTarget
  <2>1. PICK n : n = [l \in Group |-> quantity[l] - MinimumQuantity(l)]
    OBVIOUS
  <2>2. Takes(quantity, new, n, Group)
    BY <1>3, <1>4, <1>5, <2>1 DEF Takes
  <2>3. Amount(new) = Total - Freed(n, Group)
    BY <1>4, <2>2, AmountLess DEF Total
  <2>4. [l \in Group |-> n[l] * Line(l).price]
          = [l \in Group |-> (quantity[l] - MinimumQuantity(l)) * Line(l).price]
    BY <2>1
  <2>5. Freed(n, Group) = GroupCapacity
    BY <2>4 DEF Freed, GroupCapacity
  <2>6. GroupCapacity \in Int
    <3>1. PICK d : d = [l \in Group |-> n[l] * Line(l).price]
      OBVIOUS
    <3>2. IsFiniteSet(Group)
      BY <1>4, OrderTyped, FS_Subset
    <3>3. \A l \in Group : d[l] \in Int
      <4>1. \A l \in Group : n[l] \in Int /\ Line(l).price \in Int
        BY <1>4, <1>5, <2>1, OrderTyped
      <4>2. QED
        BY <3>1, <4>1
    <3>4. SumFunctionOnSet(d, Group) \in Int
      BY <3>2, <3>3, SumInt
    <3>5. Freed(n, Group) = SumFunctionOnSet(d, Group)
      BY <3>1 DEF Freed, SumFunction
    <3>6. QED
      BY <2>5, <3>4, <3>5
  <2>7. QED
    BY <1>1, <1>6, <1>9, <2>3, <2>5, <2>6 DEF RequiredReduction
<1>11. RemainingInv'
  BY <1>1 DEF RemainingInv, Ranks
<1>12. ASSUME NEW l \in Lines, LineRank(l) < rank + 1 PROVE ~Reducible(l)'
  <2>1. rank \in Int
    BY <1>1 DEF Ranks
  <2>2. CASE LineRank(l) < rank
    BY <1>9, <2>2
  <2>3. CASE LineRank(l) = rank
    <3>1. ~(new[l] > MinimumQuantity(l))
      <4>1. CASE l \in Group
        BY <1>3, <1>5, <4>1
      <4>2. CASE l \notin Group
        BY <1>3, <2>3, <4>2 DEF Group, LineRank, Reducible
      <4>3. QED
        BY <4>1, <4>2
    <3>2. QED
      BY <1>1, <1>2, <3>1, OrderStays
  <2>4. QED
    BY <1>5, <1>12, <2>1, <2>2, <2>3
<1>13. RanksInv'
  BY <1>1, <1>2, <1>9, <1>12, OrderStays DEF RanksInv
<1>14. CutNoDeeper'
  <2>1. Total' = Amount(new) /\ ReductionTarget' = ReductionTarget
    BY <1>1, <1>2, OrderStays
  <2>2. ~(Total' < ReductionTarget')
    BY <1>6, <1>9, <1>10, <2>1
  <2>3. QED
    BY <1>9, <2>2 DEF CutNoDeeper
<1>15. QED
  BY <1>9, <1>11, <1>13, <1>14 DEF CutInv

\* Neither the start nor the end of a rank's lines changes a quantity.
LEMMA QuantityStays ==
  ASSUME CutInv, simulation' = simulation, quantity' = quantity
  PROVE  /\ simulation' \in Simulations /\ QuantitiesInv' /\ CutNoDeeper'
         /\ Total' = Total /\ ReductionTarget' = ReductionTarget /\ Lines' = Lines
         /\ \A l \in Lines : /\ WasCut(l)' = WasCut(l) /\ Reducible(l)' = Reducible(l)
                             /\ LineRank(l)' = LineRank(l)
<1>1. PICK new : new = quantity'
  OBVIOUS
<1>2. new = quantity /\ simulation \in Simulations
  BY <1>1 DEF CutInv
<1>3. Total' = Total /\ ReductionTarget' = ReductionTarget /\ Lines' = Lines
      /\ Amount(Original)' = Amount(Original) /\ Original' = Original
  BY <1>1, <1>2, OrderStays DEF Total
<1>4. \A l \in Lines : /\ WasCut(l)' = WasCut(l) /\ Reducible(l)' = Reducible(l)
                       /\ LineRank(l)' = LineRank(l) /\ Line(l)' = Line(l)
                       /\ MinimumQuantity(l)' = MinimumQuantity(l)
  BY <1>1, <1>2, OrderStays DEF WasCut, Reducible
<1>5. QuantitiesInv'
  BY <1>3, <1>4 DEF CutInv, QuantitiesInv
<1>6. CutNoDeeper'
  BY <1>3, <1>4 DEF CutInv, CutNoDeeper
<1>7. QED
  BY <1>2, <1>3, <1>4, <1>5, <1>6

LEMMA StartKeeps == ASSUME CutInv, StartReduceGroup PROVE CutInv'
<1>1. /\ simulation' = simulation /\ quantity' = quantity /\ rank' = rank
      /\ rank \in Ranks /\ remaining' = RequiredReduction
  BY DEF StartReduceGroup
<1>2. /\ simulation' \in Simulations /\ QuantitiesInv' /\ CutNoDeeper'
      /\ Total' = Total /\ ReductionTarget' = ReductionTarget /\ Lines' = Lines
      /\ \A l \in Lines : /\ WasCut(l)' = WasCut(l) /\ Reducible(l)' = Reducible(l)
                          /\ LineRank(l)' = LineRank(l)
  BY <1>1, QuantityStays
<1>3. RemainingInv'
  BY <1>1, <1>2 DEF RemainingInv, RequiredReduction, Ranks
<1>4. RanksInv'
  BY <1>1, <1>2 DEF CutInv, RanksInv
<1>5. QED
  BY <1>2, <1>3, <1>4 DEF CutInv

LEMMA EndKeeps == ASSUME CutInv, EndReduceGroup PROVE CutInv'
<1>1. /\ simulation' = simulation /\ quantity' = quantity /\ rank' = rank + 1
      /\ remaining # None /\ remaining' = None /\ (remaining <= 0 \/ Group = {})
  BY DEF EndReduceGroup
<1>2. rank \in Ranks /\ remaining = RequiredReduction /\ simulation \in Simulations
  BY <1>1 DEF CutInv, RemainingInv
<1>3. /\ simulation' \in Simulations /\ QuantitiesInv' /\ CutNoDeeper'
      /\ Total' = Total /\ ReductionTarget' = ReductionTarget /\ Lines' = Lines
      /\ \A l \in Lines : /\ WasCut(l)' = WasCut(l) /\ Reducible(l)' = Reducible(l)
                          /\ LineRank(l)' = LineRank(l)
  BY <1>1, QuantityStays
<1>4. RemainingInv'
  BY <1>1, <1>2 DEF RemainingInv, Ranks
<1>5. ASSUME Total > ReductionTarget, NEW l \in Lines, LineRank(l) < rank + 1
      PROVE  ~Reducible(l)
  <2>1. Group = {}
    BY <1>1, <1>2, <1>5, CutTotals DEF RequiredReduction
  <2>2. LineRank(l) \in Int /\ rank \in Int
    BY <1>2, OrderTyped DEF Ranks
  <2>3. CASE LineRank(l) = rank
    BY <2>1, <2>3 DEF Group, LineRank
  <2>4. CASE LineRank(l) < rank
    BY <1>5, <2>4 DEF CutInv, RanksInv
  <2>5. QED
    BY <1>5, <2>2, <2>3, <2>4
<1>6. RanksInv'
  BY <1>1, <1>3, <1>5 DEF CutInv, RanksInv
<1>7. QED
  BY <1>3, <1>4, <1>6 DEF CutInv

\* Not more is taken from a line than it can give, nor than is left to cut unless it is one unit.
LEMMA RemovedTyped ==
  ASSUME CutInv, remaining # None, remaining > 0, NEW l \in Group
  PROVE  /\ QuantityToRemove(l) \in Nat \ {0}
         /\ QuantityToRemove(l) <= quantity[l] - MinimumQuantity(l)
         /\ \/ QuantityToRemove(l) * Line(l).price <= remaining
            \/ QuantityToRemove(l) = 1
<1>1. l \in Lines /\ quantity[l] > MinimumQuantity(l)
  BY DEF Group, Reducible
<1>2. simulation \in Simulations /\ remaining \in Nat \ {0}
  BY CutTotals DEF CutInv, RemainingInv
<1>3. PICK p \in Nat \ {0} : p = Line(l).price
  BY <1>1, <1>2, OrderTyped
<1>4. PICK a \in Nat \ {0} : a = quantity[l] - MinimumQuantity(l)
  BY <1>1, <1>2, MinimumTyped DEF CutInv, QuantitiesInv
<1>5. CASE p <= remaining
  <2>1. PICK b \in Nat : b = remaining \div p
    BY <1>2, DivAtMost
  <2>2. b >= 1 /\ b * p <= remaining
    BY <1>2, <1>5, <2>1, DivAtMost
  <2>3. PICK n : n = Min({a, b})
    OBVIOUS
  <2>4. n \in {a, b} /\ n <= a /\ n <= b /\ n \in Int
    <3>1. a \in Int /\ b \in Int
      OBVIOUS
    <3>2. Min({a, b}) \in {a, b} /\ Min({a, b}) <= a /\ Min({a, b}) <= b
      BY <3>1, MaxMinOfTwo, Zenon
    <3>3. QED
      BY <2>3, <3>1, <3>2
  <2>5. n * p <= b * p /\ n * p \in Int /\ b * p \in Int
    BY <2>4, TimesAtMost
  <2>6. QuantityToRemove(l) = n
    BY <1>3, <1>4, <1>5, <2>1, <2>3 DEF QuantityToRemove
  <2>7. n \in Nat \ {0} /\ n <= a /\ n * p <= remaining
    BY <1>2, <2>2, <2>4, <2>5
  <2>8. QED
    BY <1>3, <1>4, <2>6, <2>7
<1>6. CASE ~(p <= remaining)
  <2>1. QuantityToRemove(l) = 1
    BY <1>3, <1>6 DEF QuantityToRemove
  <2>2. QED
    BY <1>4, <2>1
<1>7. QED
  BY <1>5, <1>6

LEMMA ReduceKeeps == ASSUME CutInv, NEW l \in Lines, ReduceLine(l) PROVE CutInv'
<1>1. /\ simulation' = simulation /\ rank' = rank /\ l \in Group
      /\ remaining # None /\ remaining > 0
      /\ remaining' = remaining - QuantityToRemove(l) * Line(l).price
      /\ quantity' = [quantity EXCEPT ![l] = @ - QuantityToRemove(l)]
  BY DEF ReduceLine
<1>2. /\ rank \in Ranks /\ remaining = RequiredReduction /\ simulation \in Simulations
      /\ quantity \in [Lines -> Int]
  BY <1>1 DEF CutInv, RemainingInv, QuantitiesInv
<1>3. PICK n \in Nat \ {0} : n = QuantityToRemove(l)
  BY <1>1, RemovedTyped
<1>4. /\ n <= quantity[l] - MinimumQuantity(l)
      /\ n * Line(l).price <= remaining \/ n = 1
  BY <1>1, <1>3, RemovedTyped
<1>5. \A k \in Lines : /\ quantity[k] \in Int /\ MinimumQuantity(k) \in Int
                       /\ quantity[k] <= Line(k).quantity /\ Line(k).quantity \in Int
                       /\ MinimumQuantity(k) <= quantity[k] /\ LineRank(k) \in Int
                       /\ Line(k).price \in Nat \ {0}
  BY <1>2, MinimumTyped, OrderTyped DEF CutInv, QuantitiesInv
<1>6. PICK new : new = quantity'
  OBVIOUS
<1>7. /\ new \in [Lines -> Int] /\ new[l] = quantity[l] - n
      /\ \A k \in Lines \ {l} : new[k] = quantity[k]
  BY <1>1, <1>2, <1>3, <1>5, <1>6
<1>8. \A k \in Lines : new[k] \in MinimumQuantity(k) .. quantity[k]
  <2>1. new[l] \in MinimumQuantity(l) .. quantity[l]
    BY <1>3, <1>4, <1>5, <1>7
  <2>2. QED
    BY <1>5, <1>7, <2>1
<1>9. \A k \in Lines : new[k] # quantity[k] => LineRank(k) = rank
  BY <1>1, <1>7 DEF Group, LineRank
<1>10. Total > ReductionTarget /\ Total \in Int /\ ReductionTarget \in Int
  BY <1>1, <1>2, CutTotals DEF RequiredReduction
<1>11. /\ simulation' \in Simulations /\ QuantitiesInv'
       /\ Amount(new) \in Int /\ Amount(new) <= Total
       /\ \A k \in Lines : LineRank(k) < rank => ~Reducible(k)'
       /\ (\A j, k \in Lines : WasCut(j) /\ LineRank(k) < LineRank(j) => ~Reducible(k))'
       /\ (Amount(Original) <= ReductionTarget => quantity = Original)'
  BY <1>1, <1>6, <1>7, <1>8, <1>9, <1>10, CutOfRank
<1>12. Amount(new) = Total - n * Line(l).price
  BY <1>2, <1>3, <1>5, <1>7, AmountOfOneLess DEF Total
<1>13. Total' = Amount(new) /\ ReductionTarget' = ReductionTarget
  BY <1>1, <1>6, OrderStays
<1>14. PICK c \in Int : c = n * Line(l).price
  BY <1>3, <1>5
<1>15. RemainingInv'
  <2>1. remaining' = RequiredReduction'
    BY <1>1, <1>2, <1>3, <1>10, <1>12, <1>13, <1>14 DEF RequiredReduction
  <2>2. QED
    BY <1>1, <1>2, <2>1 DEF RemainingInv, Ranks
<1>16. RanksInv'
  BY <1>1, <1>6, <1>11, OrderStays DEF RanksInv
<1>17. CutNoDeeper'
  <2>1. CASE n * Line(l).price <= remaining
    <3>1. ~(Total' < ReductionTarget')
      BY <1>2, <1>10, <1>12, <1>13, <1>14, <2>1 DEF RequiredReduction
    <3>2. QED
      BY <1>11, <3>1 DEF CutNoDeeper
  <2>2. CASE n = 1
    <3>1. c = Line(l).price
      BY <1>5, <1>14, <2>2
    <3>2. ReductionTarget' - Total' < Line(l).price
      BY <1>1, <1>2, <1>10, <1>12, <1>13, <1>14, <3>1 DEF RequiredReduction
    <3>3. new[l] < Line(l).quantity
      BY <1>5, <1>7, <2>2
    <3>4. WasCut(l)' /\ Lines' = Lines /\ Line(l)' = Line(l)
      BY <1>1, <1>6, <3>3, OrderStays
    <3>5. (\E k \in Lines : WasCut(k) /\ ReductionTarget - Total < Line(k).price)'
      BY <3>2, <3>4
    <3>6. QED
      BY <1>11, <3>5 DEF CutNoDeeper
  <2>3. QED
    BY <1>4, <2>1, <2>2
<1>18. QED
  BY <1>11, <1>15, <1>16, <1>17 DEF CutInv

LEMMA CutStarts == CutInit => CutInv
<1> SUFFICES ASSUME CutInit PROVE CutInv
  OBVIOUS
<1>1. simulation \in Simulations /\ quantity = Original /\ rank = 0 /\ remaining = None
  BY DEF CutInit
<1>2. QuantitiesInv
  BY <1>1, OrderTyped, MinimumTyped DEF QuantitiesInv, Original
<1>3. RemainingInv
  BY <1>1 DEF RemainingInv
<1>4. RanksInv
  <2>1. ASSUME NEW l \in Lines PROVE ~(LineRank(l) < rank) /\ ~WasCut(l)
    BY <1>1, OrderTyped DEF WasCut, Original
  <2>2. QED
    BY <2>1 DEF RanksInv
<1>5. CutNoDeeper
  BY <1>1 DEF CutNoDeeper
<1>6. QED
  BY <1>1, <1>2, <1>3, <1>4, <1>5 DEF CutInv

LEMMA CutKeeps == CutInv /\ [CutNext]_cutVars => CutInv'
<1> SUFFICES ASSUME CutInv, [CutNext]_cutVars PROVE CutInv'
  OBVIOUS
<1>1. CASE SkipGroup
  BY <1>1, SkipKeeps
<1>2. CASE CutWholeGroup
  BY <1>2, CutWholeKeeps
<1>3. CASE StartReduceGroup
  BY <1>3, StartKeeps
<1>4. CASE \E l \in Lines : ReduceLine(l)
  BY <1>4, ReduceKeeps
<1>5. CASE EndReduceGroup
  BY <1>5, EndKeeps
<1>6. CASE UNCHANGED cutVars
  <2>1. UNCHANGED <<simulation, quantity, rank, remaining>>
    BY <1>6 DEF cutVars
  <2>2. /\ simulation' \in Simulations /\ QuantitiesInv' /\ CutNoDeeper'
        /\ Total' = Total /\ ReductionTarget' = ReductionTarget /\ Lines' = Lines
        /\ \A l \in Lines : /\ WasCut(l)' = WasCut(l) /\ Reducible(l)' = Reducible(l)
                            /\ LineRank(l)' = LineRank(l)
    BY <2>1, QuantityStays
  <2>3. RemainingInv' /\ RanksInv'
    BY <2>1, <2>2 DEF CutInv, RemainingInv, RanksInv, RequiredReduction
  <2>4. QED
    BY <2>2, <2>3 DEF CutInv
<1>7. QED
  BY <1>1, <1>2, <1>3, <1>4, <1>5, <1>6 DEF CutNext

\* What was said of the rank under way says of the end what the simulation answers.
LEMMA CutInvSuffices == CutInv => BudgetKept
<1> SUFFICES ASSUME CutInv, rank = 5 PROVE BudgetKept
  BY DEF BudgetKept
<1>1. /\ simulation \in Simulations
      /\ \A l \in Lines : quantity[l] \in MinimumQuantity(l) .. Line(l).quantity
      /\ quantity \in [Lines -> Int]
  BY DEF CutInv, QuantitiesInv
<1>2. /\ Total \in Int /\ ReductionTarget \in Int /\ simulation.target \in Int
      /\ Amount(Original) \in Int
      /\ simulation.target <= ReductionTarget
      /\ Amount(MinimumQuantities) <= ReductionTarget
  BY <1>1, CutTotals, OrderTyped
<1>3. Amount(Original) <= ReductionTarget => quantity = Original
  BY DEF CutInv, CutNoDeeper
<1>4. Total <= ReductionTarget
  <2>1. ASSUME Total > ReductionTarget PROVE FALSE
    <3>1. \A l \in Lines : ~Reducible(l)
      BY <1>1, <2>1, OrderTyped DEF CutInv, RanksInv
    <3>2. \A l \in Lines : quantity[l] = MinimumQuantities[l]
      BY <1>1, <3>1, MinimumTyped, OrderTyped DEF Reducible, MinimumQuantities
    <3>3. Total = Amount(MinimumQuantities)
      BY <3>2, AmountSame DEF Total
    <3>4. QED
      BY <1>2, <2>1, <3>3
  <2>2. QED
    BY <1>2, <2>1
<1>5. ASSUME Amount(Original) > ReductionTarget
      PROVE  ReductionTarget - Total < Max(Prices({l \in Lines : WasCut(l)}))
  <2>1. \E l \in Lines : WasCut(l) /\ ReductionTarget - Total < Line(l).price
    <3>1. CASE Total = ReductionTarget
      <4>1. ~(\A l \in Lines : quantity[l] = Original[l])
        BY <1>2, <1>5, <3>1, AmountSame DEF Total
      <4>2. PICK l \in Lines : quantity[l] # Original[l]
        BY <4>1
      <4>3. WasCut(l) /\ Line(l).price \in Nat \ {0}
        BY <1>1, <4>2, OrderTyped DEF WasCut, Original
      <4>4. ReductionTarget - Total < Line(l).price
        BY <1>2, <3>1, <4>3
      <4>5. QED
        BY <4>3, <4>4
    <3>2. CASE Total < ReductionTarget
      <4>1. quantity # Original
        BY <1>2, <1>4, <1>5 DEF Total
      <4>2. QED
        BY <3>2, <4>1 DEF CutInv, CutNoDeeper
    <3>3. QED
      BY <1>2, <1>4, <3>1, <3>2
  <2>2. PICK l \in Lines : WasCut(l) /\ ReductionTarget - Total < Line(l).price
    BY <2>1
  <2>3. PICK C : C = {k \in Lines : WasCut(k)}
    OBVIOUS
  <2>4. PICK P : P = Prices(C)
    OBVIOUS
  <2>5. P \in SUBSET Int /\ Line(l).price \in P
    BY <1>1, <2>2, <2>3, <2>4, OrderTyped DEF Prices
  <2>6. IsFiniteSet(P)
    <3>1. IsFiniteSet(C)
      BY <1>1, <2>3, OrderTyped, FS_Subset
    <3>2. [k \in C |-> Line(k).price] \in Surjection(C, P)
      BY <2>4 DEF Prices, Surjection
    <3>3. QED
      BY <3>1, <3>2, FS_Surjection
  <2>7. Max(P) \in Int /\ Max(P) >= Line(l).price
    BY <2>5, <2>6, MaxExists
  <2>8. Line(l).price \in Int
    BY <2>5
  <2>9. ReductionTarget - Total < Max(P)
    BY <1>2, <2>2, <2>7, <2>8
  <2>10. QED
    BY <2>3, <2>4, <2>9
<1>6. Amount(Original) <= simulation.target => quantity = Original
  BY <1>2, <1>3
<1>7. \A l, k \in Lines : WasCut(l) /\ LineRank(k) < LineRank(l) => ~Reducible(k)
  BY DEF CutInv, RanksInv
<1>8. QED
  BY <1>1, <1>4, <1>5, <1>6, <1>7 DEF BudgetKept, LineRank

\* The types (business_budget_optimizer.js): a quantity never turns negative, and between
\* ranks nothing is left to cut.
THEOREM CutTypeCorrect == CutSpec => []CutTypeOK
<1>1. CutInv => CutTypeOK
  <2> SUFFICES ASSUME CutInv PROVE CutTypeOK
    OBVIOUS
  <2>1. simulation \in Simulations /\ quantity \in [Lines -> Int]
    BY DEF CutInv, QuantitiesInv
  <2>2. \A l \in Lines : quantity[l] \in Nat
    BY <2>1, MinimumTyped, OrderTyped DEF CutInv, QuantitiesInv
  <2>3. quantity \in [Lines -> Nat]
    BY <2>1, <2>2
  <2>4. rank \in 0 .. 5 /\ (remaining = None \/ remaining \in Int)
    BY CutTotals DEF CutInv, RemainingInv
  <2>5. QED
    BY <2>3, <2>4 DEF CutTypeOK
<1>2. QED
  BY <1>1, CutStarts, CutKeeps, PTL DEF CutSpec

\* What the simulation answers, for every order and budget (optimizePurchasingBudget):
\* protected quantities are whole, an order within its budget is untouched, one over it is cut
\* to the budget or to what is protected, by less than the price of one unit too much, and
\* rank by rank.
THEOREM BudgetIsKept == CutSpec => []BudgetKept
BY CutStarts, CutKeeps, CutInvSuffices, PTL DEF CutSpec

-----------------------------------------------------------------------------
(* OrderReview: the supplier's file.                                        *)

\* A memory fits the run: a decision under a key that names one row is about this row's
\* product and under the key the run saves it by, and of two under one key the later is newer.
OwnKey(key, r) == key \in Range(run.items[r].keys) /\ Unique(key)
KeptUnder(store) ==
    \A i \in DOMAIN store, r \in Rows :
        OwnKey(store[i].key, r) =>
            store[i].product = run.items[r].product /\ store[i].key = UniqueKey(r)
InOrder(store) ==
    \A i, j \in DOMAIN store :
        i < j /\ store[i].key = store[j].key =>
            store[i].at <= store[j].at /\ store[i].no < store[j].no
UpToNow(store) ==
    \A i \in DOMAIN store : store[i].at <= clock /\ store[i].no \in Int /\ store[i].no <= saves
FitsRun(store) == KeptUnder(store) /\ InOrder(store) /\ UpToNow(store)

\* Every memory there is fits, the one about to be written too.
MemoriesFit ==
    /\ main \notin {None, Damaged} => FitsRun(main)
    /\ \A i \in DOMAIN backups : backups[i] # Damaged => FitsRun(backups[i])
    /\ saving # None => FitsRun(saving.store)

\* What a decision in a memory is.
LEMMA InMemory ==
  ASSUME NEW store \in Memories, NEW i \in DOMAIN store
  PROVE  /\ i \in 1 .. Len(store) /\ Len(store) \in Nat
         /\ store[i] \in OwnerDecisions /\ store[i].at \in 0 .. MaxClock /\ store[i] # None
<1>1. DOMAIN store = 1 .. Len(store) /\ Len(store) \in Nat /\ store[i] \in OwnerDecisions
  BY LenProperties, ElementOfSeq DEF Memories
<1>2. QED
  BY <1>1, DecidedWhen, ReviewAssumption

\* The key a row is saved under names that row alone.
LEMMA OwnKeyNamesRow ==
  ASSUME run \in Runs, NEW r \in Rows, NEW s \in Rows, NEW key, OwnKey(key, r),
         key \in Range(run.items[s].keys)
  PROVE  s = r
<1> DEFINE named == {o \in Rows : key \in Range(run.items[o].keys)}
<1>1. IsFiniteSet(named)
  BY ReviewAssumption, FS_Subset DEF Rows
<1>2. Cardinality(named) = 1
  BY DEF OwnKey, Unique
<1>3. \E x : named = {x}
  BY <1>1, <1>2, FS_Singleton
<1>4. QED
  BY <1>3 DEF OwnKey

\* In a memory that fits, a row's decision is the newest about its product.
LEMMA DecisionIsNewest ==
  ASSUME NEW store \in Memories, run \in Runs, NEW r \in Rows, FitsRun(store)
  PROVE  DecisionOf(r, store) = NewestOf(r, store)
<1> DEFINE keys == run.items[r].keys
           found == {i \in DOMAIN keys : Unique(keys[i]) /\ LatestActive(store, keys[i]) # None}
           mine == {i \in DOMAIN store : /\ store[i].product = run.items[r].product
                                         /\ store[i].key \in Range(keys)
                                         /\ Unique(store[i].key)
                                         /\ ~IsDecisionExpired(store[i])}
           active(key) == {i \in DOMAIN store : store[i].key = key /\ ~IsDecisionExpired(store[i])}
<1>1. keys \in Seq(Range(keys)) /\ DOMAIN keys \subseteq Nat
  <2>1. keys \in Seq(Range(keys))
    BY ReviewAssumption DEF Rows
  <2>2. QED
    BY <2>1, LenProperties
<1>2. \A i \in DOMAIN store : OwnKey(store[i].key, r) =>
          store[i].product = run.items[r].product /\ store[i].key = UniqueKey(r)
  BY DEF FitsRun, KeptUnder
<1>3. mine = {i \in DOMAIN store : OwnKey(store[i].key, r) /\ ~IsDecisionExpired(store[i])}
  BY <1>2 DEF OwnKey
<1>4. \A i \in DOMAIN keys : Unique(keys[i]) <=> OwnKey(keys[i], r)
  BY DEF OwnKey, Range
<1>5. ASSUME NEW key, OwnKey(key, r), LatestActive(store, key) # None
      PROVE  active(key) = mine /\ mine # {}
  <2>1. active(key) # {}
    BY <1>5 DEF LatestActive
  <2>2. key = UniqueKey(r)
    BY <1>2, <1>5, <2>1
  <2>3. QED
    BY <1>2, <1>3, <1>5, <2>1, <2>2
<1>6. ASSUME mine # {}
      PROVE  \E i \in DOMAIN keys : /\ OwnKey(keys[i], r) /\ active(keys[i]) = mine
                                    /\ keys[i] = UniqueKey(r)
  <2>1. PICK m \in mine : OwnKey(store[m].key, r) /\ store[m].key = UniqueKey(r)
    BY <1>2, <1>3, <1>6
  <2>2. PICK i \in DOMAIN keys : keys[i] = store[m].key
    BY <2>1 DEF OwnKey, Range
  <2>3. QED
    BY <1>2, <1>3, <2>1, <2>2
<1> HIDE DEF mine
<1>7. CASE mine = {}
  <2>1. found = {}
    BY <1>4, <1>5, <1>7
  <2>2. QED
    BY <1>7, <2>1 DEF DecisionOf, NewestOf, mine
<1>8. CASE mine # {}
  <2>1. mine \subseteq DOMAIN store /\ mine \in SUBSET (0 .. Len(store)) /\ Len(store) \in Nat
    BY LenProperties DEF mine, Memories
  <2>2. PICK g \in mine : \A n \in mine : n <= g
    BY <1>8, <2>1, GreatestNatural
  <2>3. \A i, j \in mine : store[i].key = store[j].key
    BY <1>2, <1>3
  <2>4. ASSUME NEW j \in mine, j # g
        PROVE  /\ j < g /\ store[j].at <= store[g].at /\ store[j].no < store[g].no
               /\ store[j].at \in Int /\ store[g].at \in Int
               /\ store[j].no \in Int /\ store[g].no \in Int
    <3>1. j < g
      BY <2>1, <2>2, <2>4
    <3>2. store[j].at \in Int /\ store[g].at \in Int
      BY <2>1, InMemory
    <3>3. store[j].no \in Int /\ store[g].no \in Int
      BY <2>1 DEF FitsRun, UpToNow
    <3>4. QED
      BY <2>1, <2>3, <3>1, <3>2, <3>3 DEF FitsRun, InOrder
  <2> DEFINE Later(i) == \A j \in mine \ {i} :
                            \/ store[i].at > store[j].at
                            \/ store[i].at = store[j].at /\ i > j
             Higher(i) == \A j \in mine : store[j].no <= store[i].no
  <2>5. Later(g) /\ Higher(g)
    <3>1. Later(g)
      BY <2>1, <2>4
    <3>2. store[g].no \in Int
      BY <2>1 DEF FitsRun, UpToNow
    <3>3. QED
      BY <2>4, <3>1, <3>2
  <2>6. ASSUME NEW i \in mine, Later(i) \/ Higher(i)
        PROVE  i = g
    BY <2>1, <2>4, <2>6
  <2> HIDE DEF Later, Higher
  <2>7. (CHOOSE i \in mine : Later(i)) = g /\ (CHOOSE i \in mine : Higher(i)) = g
    BY <2>5, <2>6
  <2>8. NewestOf(r, store) = store[g]
    BY <1>8, <2>7 DEF NewestOf, mine, Higher
  <2>9. ASSUME NEW key, active(key) = mine
        PROVE  LatestActive(store, key) = store[g] /\ store[g] # None
    <3>1. LatestActive(store, key) = store[CHOOSE i \in mine : Later(i)]
      BY <1>8, <2>9 DEF LatestActive, Later
    <3>2. QED
      BY <2>1, <2>7, <3>1, InMemory
  <2>10. found # {}
    BY <1>4, <1>6, <1>8, <2>9
  <2>11. Min(found) \in found
    BY <1>1, <2>10, LeastNatural
  <2>12. active(keys[Min(found)]) = mine
    BY <1>4, <1>5, <2>11
  <2>13. DecisionOf(r, store) = LatestActive(store, keys[Min(found)])
    BY <2>10 DEF DecisionOf
  <2>14. QED
    BY <2>8, <2>9, <2>12, <2>13
<1>9. QED
  BY <1>7, <1>8
\* Nothing is packed of nothing.
LEMMA NothingPacked ==
  ASSUME NEW p \in Packagings \union {None}
  PROVE  PackagedQuantity(p, 0) = 0
<1>1. CASE p = None
  BY <1>1 DEF PackagedQuantity
<1>2. CASE p # None
  <2>1. /\ p.box \in Nat \ {0, 1} /\ (p.max # None => p.max \in Nat \ {0})
        /\ p \in Packagings
    BY <1>2 DEF Packagings
  <2>2. PICK box : box = p.box
    OBVIOUS
  <2>3. box \in Nat \ {0, 1}
    BY <2>1, <2>2
  <2>4. PICK n : n = (0 + box - 1) \div box
    OBVIOUS
  <2>5. n = 0
    <3>1. 0 + box - 1 \in Nat /\ 0 + box - 1 < box
      BY <2>3
    <3>2. n \in Nat /\ n * box <= 0 + box - 1
      BY <2>3, <2>4, <3>1, DivAtMost
    <3>3. n >= 1 => n * box >= 1 * box
      BY <2>3, <3>2, TimesAtMost
    <3>4. QED
      BY <2>3, <3>1, <3>2, <3>3
  <2>6. n * box = 0
    BY <2>3, <2>5
  <2>7. RoundUp(0, p.box) = 0
    BY <2>2, <2>4, <2>6 DEF RoundUp
  <2>8. ~(p.max # None /\ RoundUp(0, p.box) > p.max)
    BY <2>1, <2>7
  <2>9. QED
    BY <1>2, <2>7, <2>8 DEF PackagedQuantity
<1>3. QED
  BY <1>1, <1>2

\* What a line of the file is when the review is complete.
LEMMA FileLine ==
  ASSUME NEW store \in Memories, run \in Runs, NEW r \in Rows, ReviewComplete(store),
         NEW d, d = DecisionOf(r, store),
         NEW n, n = IF r \in IncludedRows(store) THEN ClassifyItem(r, store).quantity ELSE 0
  PROVE  IF d # None
         THEN n = IF d.decision = "BUY" THEN PackagedQuantity(run.items[r].packaging, d.quantity)
                  ELSE 0
         ELSE /\ TriageStatus(r) \notin {"ACTIVE", "BLOCKED_BY_DATA"}
              /\ "rollout" \notin Position(r).facts
              /\ n # 0 => Position(r).workflow = "approved"
<1> DEFINE c == ClassifyItem(r, store)
<1>1. c.kind # "unresolved" /\ (r \in IncludedRows(store) <=> c.kind = "included")
  BY DEF ReviewComplete, IncludedRows
<1>2. CASE d # None
  <2>1. /\ d.decision \in {"BUY", "SKIP", "DEFER"}
        /\ d.decision = "BUY" => d.quantity \in Nat
    <3>1. ChoiceOf(d) \in OwnerChoices
      BY <1>2, RowDecisionTyped DEF OwnerDecisions
    <3>2. QED
      BY <3>1 DEF OwnerChoices, ChoiceOf
  <2>2. CASE d.decision = "BUY" /\ d.quantity > 0
    <3>1. c = Included(r, d.quantity)
      BY <1>2, <2>2 DEF ClassifyItem
    <3>2. QED
      BY <1>1, <1>2, <2>2, <3>1 DEF Included
  <2>3. CASE d.decision = "BUY" /\ d.quantity = 0
    <3>1. c = Excluded("zero_quantity")
      BY <1>2, <2>3 DEF ClassifyItem
    <3>2. run.items[r].packaging \in Packagings \union {None}
      BY ReviewAssumption DEF Rows
    <3>3. QED
      BY <1>1, <1>2, <2>3, <3>1, <3>2, NothingPacked DEF Excluded
  <2>4. CASE d.decision \in {"SKIP", "DEFER"}
    <3>1. c.kind = "excluded"
      BY <1>2, <2>4 DEF ClassifyItem, Excluded
    <3>2. QED
      BY <1>1, <1>2, <2>4, <3>1
  <2>5. QED
    BY <2>1, <2>2, <2>3, <2>4
<1>3. CASE d = None
  <2>1. /\ TriageStatus(r) \notin {"ACTIVE", "BLOCKED_BY_DATA"}
        /\ "rollout" \notin Position(r).facts
    BY <1>1, <1>3 DEF ClassifyItem, Unresolved
  <2>2. c.kind = "included" => Position(r).workflow = "approved"
    BY <1>3 DEF ClassifyItem, Unresolved, Excluded
  <2>3. QED
    BY <1>1, <1>3, <2>1, <2>2
<1>4. QED
  BY <1>2, <1>3

\* What fits the run does so as long as the run stays.
LEMMA KeysStay ==
  ASSUME NEW store, KeptUnder(store), run' = run
  PROVE  KeptUnder(store)'
<1>1. ASSUME NEW key
      PROVE  Unique(key)' <=> Unique(key)
  BY DEF Unique, Rows
<1>2. ASSUME NEW r
      PROVE  UniqueKey(r)' = UniqueKey(r)
  BY <1>1 DEF UniqueKey
<1>3. QED
  BY <1>1, <1>2 DEF KeptUnder, OwnKey, Rows

\* A memory that fits does so while time and the numbers of decisions go on.
LEMMA FitsStill ==
  ASSUME NEW store \in Memories, FitsRun(store), run' = run,
         clock \in Int, clock' \in Int, clock <= clock',
         saves \in Int, saves' \in Int, saves <= saves'
  PROVE  FitsRun(store)'
<1>1. KeptUnder(store)'
  BY KeysStay DEF FitsRun
<1>2. InOrder(store)'
  BY DEF FitsRun, InOrder
<1>3. ASSUME NEW i \in DOMAIN store
      PROVE  store[i].at <= clock' /\ store[i].no \in Int /\ store[i].no <= saves'
  <2>1. /\ store[i].at <= clock /\ store[i].no \in Int /\ store[i].no <= saves
        /\ store[i].at \in Int
    BY InMemory DEF FitsRun, UpToNow
  <2>2. QED
    BY <2>1
<1>4. QED
  BY <1>1, <1>2, <1>3 DEF FitsRun, UpToNow

\* A file already built stays right, since the run and its triage stay.
LEMMA FileStays ==
  ASSUME FileFollowsOwner, UNCHANGED <<run, triage, file>>
  PROVE  FileFollowsOwner'
BY DEF FileFollowsOwner, Rows, TriageStatus, Position

\* What is loaded fits.
LEMMA LoadedFits ==
  ASSUME ReviewInv, MemoriesFit, LoadOwnerDecisions # Damaged
  PROVE  FitsRun(LoadOwnerDecisions)
<1>1. CASE main = None
  <2>1. LoadOwnerDecisions = <<>>
    BY <1>1 DEF LoadOwnerDecisions
  <2>2. QED
    BY <2>1 DEF FitsRun, KeptUnder, InOrder, UpToNow
<1>2. CASE main # None /\ main # Damaged
  BY <1>2 DEF LoadOwnerDecisions, MemoriesFit
<1>3. CASE main = Damaged
  <2>1. Readable # {} /\ LoadOwnerDecisions = backups[Min(Readable)]
    BY <1>3, ReviewAssumption DEF LoadOwnerDecisions
  <2>2. DOMAIN backups \subseteq Nat
    BY LenProperties DEF ReviewInv, FilesTyped, BackupsTyped
  <2>3. Min(Readable) \in Readable
    BY <2>1, <2>2, LeastNatural DEF Readable
  <2>4. QED
    BY <2>1, <2>3 DEF Readable, MemoriesFit
<1>4. QED
  BY <1>1, <1>2, <1>3

\* A row's key names it.
LEMMA UniqueKeyIsOwn ==
  ASSUME run \in Runs, NEW r \in Rows, UniqueKey(r) # None
  PROVE  OwnKey(UniqueKey(r), r)
<1> DEFINE keys == run.items[r].keys
           unique == {i \in DOMAIN keys : Unique(keys[i])}
<1>1. unique # {} /\ UniqueKey(r) = keys[Min(unique)]
  BY DEF UniqueKey
<1>2. keys \in Seq(Range(keys))
  BY ReviewAssumption DEF Rows
<1>3. unique \in SUBSET Nat
  BY <1>2, LenProperties
<1>4. Min(unique) \in unique
  BY <1>1, <1>3, LeastNatural
<1>5. QED
  BY <1>1, <1>4 DEF OwnKey, Range

\* A memory and one decision more, about a row, under its key and newer than all.
LEMMA AppendFits ==
  ASSUME run \in Runs, NEW store \in Memories, FitsRun(store), NEW r \in Rows,
         NEW d \in OwnerDecisions, d.product = run.items[r].product,
         d.key = UniqueKey(r), d.key # None, d.at = clock, d.no = saves + 1,
         NEW new, new = Append(store, d), run' = run, clock' = clock, clock \in Int,
         saves \in Int, saves' = saves + 1
  PROVE  FitsRun(new)'
<1> DEFINE last == Len(store) + 1
<1>1. /\ DOMAIN store = 1 .. Len(store) /\ Len(store) \in Nat
      /\ DOMAIN new = 1 .. last /\ new[last] = d
      /\ \A i \in DOMAIN store : new[i] = store[i]
  BY AppendProperties, LenProperties DEF Memories
<1>2. \A i \in DOMAIN new : i \in DOMAIN store \/ i = last
  BY <1>1
<1>3. OwnKey(d.key, r)
  BY UniqueKeyIsOwn
<1>4. KeptUnder(new)
  <2> SUFFICES ASSUME NEW i \in DOMAIN new, NEW s \in Rows, OwnKey(new[i].key, s)
               PROVE  new[i].product = run.items[s].product /\ new[i].key = UniqueKey(s)
    BY DEF KeptUnder
  <2>1. CASE i \in DOMAIN store
    BY <1>1, <2>1 DEF FitsRun, KeptUnder
  <2>2. CASE i = last
    <3>1. s = r
      BY <1>1, <1>3, <2>2, OwnKeyNamesRow DEF OwnKey
    <3>2. QED
      BY <1>1, <2>2, <3>1
  <2>3. QED
    BY <1>2, <2>1, <2>2
<1>5. InOrder(new)
  <2> SUFFICES ASSUME NEW i \in DOMAIN new, NEW j \in DOMAIN new, i < j,
                      new[i].key = new[j].key
               PROVE  new[i].at <= new[j].at /\ new[i].no < new[j].no
    BY DEF InOrder
  <2>1. i \in DOMAIN store
    BY <1>1, <1>2
  <2>2. CASE j \in DOMAIN store
    BY <1>1, <2>1, <2>2 DEF FitsRun, InOrder
  <2>3. CASE j = last
    <3>1. /\ store[i].at <= clock /\ store[i].no \in Int /\ store[i].no <= saves
          /\ new[i] = store[i] /\ new[j] = d
      BY <1>1, <2>1, <2>3 DEF FitsRun, UpToNow
    <3>2. QED
      BY <3>1
  <2>4. QED
    BY <1>2, <2>2, <2>3
<1>6. ASSUME NEW i \in DOMAIN new
      PROVE  new[i].at <= clock' /\ new[i].no \in Int /\ new[i].no <= saves'
  <2>1. CASE i \in DOMAIN store
    <3>1. /\ store[i].at <= clock /\ store[i].no \in Int /\ store[i].no <= saves
          /\ new[i] = store[i]
      BY <1>1, <2>1 DEF FitsRun, UpToNow
    <3>2. QED
      BY <3>1
  <2>2. CASE i = last
    BY <1>1, <2>2
  <2>3. QED
    BY <1>2, <2>1, <2>2
<1>7. KeptUnder(new)'
  BY <1>4, KeysStay
<1>8. InOrder(new)'
  BY <1>5 DEF InOrder
<1>9. QED
  BY <1>6, <1>7, <1>8 DEF FitsRun, UpToNow

\* A backup after the step is damaged, a copy of the file or a backup there was.
NoOtherBackups ==
    \A i \in DOMAIN backups' :
        \/ backups'[i] = Damaged
        \/ main # None /\ backups'[i] = main
        \/ \E j \in DOMAIN backups : backups'[i] = backups[j]

LEMMA LeftOfRotation ==
  ASSUME ReviewInv, backups' \in BackupsLeft
  PROVE  NoOtherBackups
<1>1. CASE backups' = backups
  BY <1>1 DEF NoOtherBackups
<1>2. CASE backups' # backups
  <2>1. PICK copy \in {main, Damaged} : main # None /\ backups' = <<copy>> \o backups
    BY <1>2 DEF BackupsLeft, CutRotation
  <2>2. PICK new : new = <<copy>> \o backups
    OBVIOUS
  <2>3. copy \in Memories \union {Damaged} /\ backups \in Seq(Memories \union {Damaged})
    BY <2>1 DEF ReviewInv, FilesTyped, MainTyped, BackupsTyped
  <2>4. /\ new[1] = copy /\ DOMAIN new = 1 .. Len(backups) + 1
        /\ DOMAIN backups = 1 .. Len(backups) /\ Len(backups) \in Nat
        /\ \A i \in 2 .. Len(backups) + 1 : new[i] = backups[i - 1]
    BY <2>2, <2>3, Prefixed
  <2>5. ASSUME NEW i \in DOMAIN new
        PROVE  \/ new[i] = Damaged
               \/ main # None /\ new[i] = main
               \/ \E j \in DOMAIN backups : new[i] = backups[j]
    <3>1. CASE i = 1
      BY <2>1, <2>4, <3>1
    <3>2. CASE i # 1
      <4>1. i - 1 \in DOMAIN backups /\ new[i] = backups[i - 1]
        BY <2>4, <3>2
      <4>2. QED
        BY <4>1
    <3>3. QED
      BY <3>1, <3>2
  <2>6. QED
    BY <2>1, <2>2, <2>5 DEF NoOtherBackups
<1>3. QED
  BY <1>1, <1>2

\* The files fit after a step that makes no other backups, and puts what was being saved, or
\* nothing new, into the file.
LEMMA FilesFit ==
  ASSUME ReviewInv, MemoriesFit, run' = run, backups' = backups \/ NoOtherBackups,
         clock' \in Int, clock <= clock', saves' \in Int, saves <= saves',
         main' \in {main, Damaged} \/ (saving # None /\ main' = saving.store)
  PROVE  /\ main' \notin {None, Damaged} => FitsRun(main)'
         /\ \A i \in DOMAIN backups' : backups'[i] # Damaged => FitsRun(backups[i])'
<1>1. clock \in Int /\ saves \in Int
  BY DEF ReviewInv, FilesTyped, CountsTyped
<1>2. ASSUME NEW store \in Memories, FitsRun(store)
      PROVE  FitsRun(store)'
  BY <1>1, <1>2, FitsStill
<1>3. ASSUME main' \notin {None, Damaged}
      PROVE  FitsRun(main)'
  <2>1. PICK new : new = main'
    OBVIOUS
  <2>2. new \in Memories /\ FitsRun(new)
    <3>1. CASE main' = main
      BY <1>3, <2>1, <3>1 DEF ReviewInv, FilesTyped, MainTyped, MemoriesFit
    <3>2. CASE saving # None /\ main' = saving.store
      BY <2>1, <3>2 DEF ReviewInv, FilesTyped, SavingTyped, Savings, MemoriesFit
    <3>3. QED
      BY <1>3, <3>1, <3>2
  <2>3. FitsRun(new)'
    BY <1>2, <2>2
  <2>4. QED
    BY <2>1, <2>3 DEF FitsRun, KeptUnder, InOrder, UpToNow
<1>4. ASSUME NEW i \in DOMAIN backups', backups'[i] # Damaged
      PROVE  FitsRun(backups[i])'
  <2>1. PICK old : old = backups'[i]
    OBVIOUS
  <2>2. old \in Memories /\ FitsRun(old)
    <3>1. CASE main # None /\ old = main
      BY <1>4, <2>1, <3>1 DEF ReviewInv, FilesTyped, MainTyped, MemoriesFit
    <3>2. CASE \E j \in DOMAIN backups : old = backups[j]
      BY <1>4, <2>1, <3>2, ElementOfSeq, LenProperties
         DEF ReviewInv, FilesTyped, BackupsTyped, MemoriesFit
    <3>3. QED
      BY <1>4, <2>1, <3>1, <3>2 DEF NoOtherBackups
  <2>3. FitsRun(old)'
    BY <1>2, <2>2
  <2>4. QED
    BY <2>1, <2>3 DEF FitsRun, KeptUnder, InOrder, UpToNow
<1>5. QED
  BY <1>3, <1>4

\* A save prepares a memory that fits.
LEMMA SaveFits ==
  ASSUME ReviewInv, MemoriesFit, NEW r \in Rows, NEW o \in Offers, NEW permanent \in BOOLEAN,
         NEW t \in Tokens, SaveDecision(r, o, permanent, t)
  PROVE  MemoriesFit' /\ UNCHANGED <<run, triage, file>>
<1>1. PICK d \in OwnerDecisions, store \in Memories :
         /\ d.product = run.items[r].product /\ d.key = UniqueKey(r) /\ d.key # None
         /\ d.at = clock /\ d.no = saves + 1
         /\ store = LoadOwnerDecisions /\ store # Damaged
         /\ saves' = saves + 1 /\ saving'.store = Append(store, d)
         /\ UNCHANGED <<run, triage, main, backups, file, clock>>
  BY SaveMade
<1>2. run \in Runs /\ clock \in Int /\ saves \in Int
  BY DEF ReviewInv, FilesTyped, CountsTyped
<1>3. FitsRun(store)
  BY <1>1, LoadedFits
<1>4. PICK new : new = Append(store, d)
  OBVIOUS
<1>5. FitsRun(new)'
  BY <1>1, <1>2, <1>3, <1>4, AppendFits
<1>6. FitsRun(saving.store)'
  BY <1>1, <1>4, <1>5 DEF FitsRun, KeptUnder, InOrder, UpToNow
<1>7. /\ main' \notin {None, Damaged} => FitsRun(main)'
      /\ \A i \in DOMAIN backups' : backups'[i] # Damaged => FitsRun(backups[i])'
  BY <1>1, <1>2, FilesFit
<1>8. QED
  BY <1>1, <1>6, <1>7 DEF MemoriesFit

\* A new backup is a copy of a file that fits.
LEMMA RotateFits ==
  ASSUME ReviewInv, MemoriesFit, RotateBackup
  PROVE  MemoriesFit' /\ UNCHANGED <<run, triage, file>>
<1> DEFINE n == IF Len(backups) < MaxBackups THEN Len(backups) + 1 ELSE MaxBackups
<1>1. /\ saving # None
      /\ backups' = IF main = None THEN backups ELSE SubSeq(<<main>> \o backups, 1, n)
      /\ saving' = [saving EXCEPT !.stage = "write"]
      /\ UNCHANGED <<run, triage, main, file, clock, saves>>
  BY DEF RotateBackup
<1>2. clock \in Int /\ saves \in Int
  BY DEF ReviewInv, FilesTyped, CountsTyped
<1>3. ASSUME NEW store \in Memories, FitsRun(store)
      PROVE  FitsRun(store)'
  BY <1>1, <1>2, <1>3, FitsStill
<1>4. FitsRun(saving.store)'
  <2>1. saving \in Savings /\ saving.store \in Memories
    BY <1>1 DEF ReviewInv, FilesTyped, SavingTyped, Savings
  <2>2. PICK old \in Memories : old = saving.store
    BY <2>1
  <2>3. saving'.store = old
    BY <1>1, <2>1, <2>2 DEF Savings
  <2>4. FitsRun(old)'
    BY <1>1, <1>3, <2>2 DEF MemoriesFit
  <2>5. QED
    BY <2>3, <2>4 DEF FitsRun, KeptUnder, InOrder, UpToNow
<1>5. ASSUME NEW store \in Memories \union {Damaged}, store # Damaged,
             store = main \/ \E j \in DOMAIN backups : store = backups[j]
      PROVE  FitsRun(store)'
  <2>1. store # None
    BY <1>5, ReviewAssumption
  <2>2. FitsRun(store)
    BY <1>5, <2>1 DEF MemoriesFit
  <2>3. QED
    BY <1>3, <1>5, <2>2
<1>6. ASSUME NEW i \in DOMAIN backups', backups'[i] # Damaged
      PROVE  FitsRun(backups[i])'
  <2>1. PICK old : old = backups'[i]
    OBVIOUS
  <2>2. /\ backups \in Seq(Memories \union {Damaged}) /\ Len(backups) \in Nat
        /\ DOMAIN backups = 1 .. Len(backups)
    BY LenProperties DEF ReviewInv, FilesTyped, BackupsTyped
  <2>3. /\ old \in Memories \union {Damaged}
        /\ old = main \/ \E j \in DOMAIN backups : old = backups[j]
    <3>1. CASE main = None
      BY <1>1, <1>6, <2>1, <2>2, <3>1, ElementOfSeq
    <3>2. CASE main # None
      <4> DEFINE new == SubSeq(<<main>> \o backups, 1, n)
      <4>1. main \in Memories \union {Damaged} /\ MaxBackups \in Nat
        BY <3>2, ReviewAssumption DEF ReviewInv, FilesTyped, MainTyped
      <4>2. /\ new \in Seq(Memories \union {Damaged}) /\ Len(new) = n
            /\ n > 0 => new[1] = main
            /\ \A k \in 2 .. n : k - 1 \in 1 .. Len(backups) /\ new[k] = backups[k - 1]
        BY <2>2, <4>1, Rotated
      <4>3. backups' = new
        BY <1>1, <3>2
      <4> HIDE DEF new, n
      <4>4. DOMAIN new = 1 .. n /\ n \in Nat
        BY <4>2, LenProperties
      <4>5. i \in 1 .. n /\ old = new[i]
        BY <1>6, <2>1, <4>3, <4>4
      <4>6. old \in Memories \union {Damaged}
        BY <4>2, <4>4, <4>5, ElementOfSeq
      <4>7. i = 1 \/ i \in 2 .. n
        BY <4>4, <4>5
      <4>8. QED
        BY <2>2, <4>2, <4>4, <4>5, <4>6, <4>7
    <3>3. QED
      BY <3>1, <3>2
  <2>4. FitsRun(old)'
    BY <1>5, <1>6, <2>1, <2>3
  <2>5. QED
    BY <2>1, <2>4 DEF FitsRun, KeptUnder, InOrder, UpToNow
<1>7. main' \notin {None, Damaged} => FitsRun(main)'
  <2>1. PICK old : old = main
    OBVIOUS
  <2>2. old \notin {None, Damaged} => old \in Memories
    BY <2>1 DEF ReviewInv, FilesTyped, MainTyped
  <2>3. old \notin {None, Damaged} => FitsRun(old)'
    BY <1>5, <2>1, <2>2
  <2>4. QED
    BY <1>1, <2>1, <2>3 DEF FitsRun, KeptUnder, InOrder, UpToNow
<1>8. QED
  BY <1>1, <1>4, <1>6, <1>7 DEF MemoriesFit

\* The other steps bring nothing new.
LEMMA OthersFit ==
  ASSUME ReviewInv, MemoriesFit, UNCHANGED <<run, saves>>, backups' = backups \/ NoOtherBackups,
         clock' \in Int, clock <= clock',
         main' \in {main, Damaged} \/ (saving # None /\ main' = saving.store),
         \/ saving' = None
         \/ saving' = saving
         \/ saving # None /\ \E to \in {"write", "record"} :
               saving' = [saving EXCEPT !.stage = to]
  PROVE  MemoriesFit'
<1>1. clock \in Int /\ saves \in Int
  BY DEF ReviewInv, FilesTyped, CountsTyped
<1>2. /\ main' \notin {None, Damaged} => FitsRun(main)'
      /\ \A i \in DOMAIN backups' : backups'[i] # Damaged => FitsRun(backups[i])'
  BY <1>1, FilesFit
<1>3. ASSUME saving' # None
      PROVE  FitsRun(saving.store)'
  <2>1. saving # None
    BY <1>3
  <2>2. saving \in Savings /\ saving.store \in Memories
    BY <2>1 DEF ReviewInv, FilesTyped, SavingTyped, Savings
  <2>3. PICK old \in Memories : old = saving.store
    BY <2>2
  <2>4. saving'.store = old
    BY <1>3, <2>2, <2>3 DEF Savings
  <2>5. FitsRun(old)'
    BY <1>1, <2>1, <2>3, FitsStill DEF MemoriesFit
  <2>6. QED
    BY <2>4, <2>5 DEF FitsRun, KeptUnder, InOrder, UpToNow
<1>4. QED
  BY <1>2, <1>3 DEF MemoriesFit

\* The file built is the one of the decisions loaded, which are the newest.
LEMMA BuildFollows ==
  ASSUME ReviewInv, MemoriesFit, BuildSupplierOrderFile
  PROVE  FileFollowsOwner'
<1>1. PICK store : store = LoadOwnerDecisions
  OBVIOUS
<1>2. PICK lines : lines = IncludedRows(store)
  OBVIOUS
<1>3. /\ store # Damaged /\ ReviewComplete(store)
      /\ file' = [lines |-> [r \in Rows |-> IF r \in lines THEN ClassifyItem(r, store).quantity
                                            ELSE 0],
                  wanted |-> [r \in Rows |-> NewestOf(r, store)]]
      /\ run' = run /\ triage' = triage
  BY <1>1, <1>2 DEF BuildSupplierOrderFile
<1>4. store \in Memories /\ FitsRun(store) /\ run \in Runs
  BY <1>1, <1>3, LoadedWhole, LoadedFits DEF ReviewInv, FilesTyped, CountsTyped
<1>5. ASSUME NEW r \in Rows, NEW d, d = file'.wanted[r], NEW n, n = file'.lines[r]
      PROVE  IF d # None
             THEN n = IF d.decision = "BUY"
                      THEN PackagedQuantity(run.items[r].packaging, d.quantity) ELSE 0
             ELSE /\ TriageStatus(r) \notin {"ACTIVE", "BLOCKED_BY_DATA"}
                  /\ "rollout" \notin Position(r).facts
                  /\ n # 0 => Position(r).workflow = "approved"
  <2>1. d = NewestOf(r, store) /\ n = IF r \in lines THEN ClassifyItem(r, store).quantity ELSE 0
    BY <1>3, <1>5
  <2>2. d = DecisionOf(r, store)
    BY <1>4, <2>1, DecisionIsNewest
  <2>3. QED
    BY <1>2, <1>3, <1>4, <2>1, <2>2, FileLine
<1>6. Rows' = Rows
  BY <1>3 DEF Rows
<1>7. \A r \in Rows : TriageStatus(r)' = TriageStatus(r) /\ Position(r)' = Position(r)
  BY <1>3 DEF TriageStatus, Position
<1>8. QED
  BY <1>3, <1>5, <1>6, <1>7 DEF FileFollowsOwner

LEMMA FollowStep ==
  ASSUME ReviewInv, MemoriesFit, FileFollowsOwner, [ReviewNext]_reviewVars
  PROVE  MemoriesFit' /\ FileFollowsOwner'
<1>1. clock \in Int
  BY DEF ReviewInv, FilesTyped, CountsTyped
<1>2. ASSUME NEW r \in Rows, NEW o \in Offers, NEW p \in BOOLEAN, NEW t \in Tokens,
             SaveDecision(r, o, p, t)
      PROVE  MemoriesFit' /\ FileFollowsOwner'
  BY <1>2, SaveFits, FileStays
<1>3. CASE RotateBackup
  BY <1>3, RotateFits, FileStays
<1>4. CASE AtomicWrite
  <2>1. /\ UNCHANGED <<run, triage, file, backups, saves, clock>> /\ saving # None
        /\ main' = saving.store /\ saving' = [saving EXCEPT !.stage = "record"]
    BY <1>4 DEF AtomicWrite
  <2>2. QED
    BY <1>1, <2>1, OthersFit, FileStays
<1>5. CASE RecordHistory \/ Crash
  <2>1. /\ UNCHANGED <<run, triage, file, saves, clock, main>> /\ saving' = None
        /\ backups' = backups \/ backups' \in BackupsLeft
    BY <1>5 DEF RecordHistory, Crash, Answer
  <2>2. backups' = backups \/ NoOtherBackups
    BY <2>1, LeftOfRotation
  <2>3. QED
    BY <1>1, <2>1, <2>2, OthersFit, FileStays
<1>6. CASE WriteFails
  <2>1. /\ UNCHANGED <<run, triage, file, saves, clock>> /\ saving # None
        /\ main' = main \/ main' = saving.store
        /\ saving' = None /\ backups' \in BackupsLeft
    BY <1>6 DEF WriteFails, Answer
  <2>2. NoOtherBackups
    BY <2>1, LeftOfRotation
  <2>3. QED
    BY <1>1, <2>1, <2>2, OthersFit, FileStays
<1>7. CASE BuildSupplierOrderFile
  <2>1. UNCHANGED <<run, triage, backups, saves, clock, main, saving>>
    BY <1>7 DEF BuildSupplierOrderFile
  <2>2. QED
    BY <1>1, <1>7, <2>1, OthersFit, BuildFollows
<1>8. CASE Damage
  <2>1. UNCHANGED <<run, triage, file, backups, saves, clock, saving>> /\ main' = Damaged
    BY <1>8 DEF Damage
  <2>2. QED
    BY <1>1, <2>1, OthersFit, FileStays
<1>9. CASE ClockTick
  <2>1. UNCHANGED <<run, triage, file, backups, saves, main, saving>> /\ clock' = clock + 1
    BY <1>9 DEF ClockTick
  <2>2. QED
    BY <1>1, <2>1, OthersFit, FileStays
<1>10. CASE UNCHANGED reviewVars
  <2>1. UNCHANGED <<run, triage, file, backups, saves, main, saving, clock>>
    BY <1>10 DEF reviewVars
  <2>2. QED
    BY <1>1, <2>1, OthersFit, FileStays
<1>11. QED
  BY <1>2, <1>3, <1>4, <1>5, <1>6, <1>7, <1>8, <1>9, <1>10 DEF ReviewNext

\* The supplier's file holds of every row what the owner decided last and still stands, and of
\* the others only what was approved while nothing waited for him, whatever is decided,
\* damaged or lost meanwhile, when the memory the review begins with fits the run.
THEOREM FileIsTrue == (main # None => FitsRun(main)) /\ ReviewSpec => []FileFollowsOwner
<1> DEFINE Starts == main # None => FitsRun(main)
           Follows == ReviewInv /\ MemoriesFit /\ FileFollowsOwner
<1>1. Starts /\ ReviewInit => Follows
  <2>1. Starts /\ ReviewInit => MemoriesFit
    BY DEF ReviewInit, MemoriesFit
  <2>2. ReviewInit => FileFollowsOwner
    BY DEF ReviewInit, FileFollowsOwner
  <2>3. QED
    BY <2>1, <2>2, ReviewInitial
<1>2. Follows /\ [ReviewNext]_reviewVars => Follows'
  BY ReviewStep, FollowStep
<1>3. Follows => FileFollowsOwner
  OBVIOUS
<1> HIDE DEF Starts, Follows
<1>4. Starts /\ ReviewSpec => []FileFollowsOwner
  BY <1>1, <1>2, <1>3, PTL DEF ReviewSpec
<1>5. QED
  BY <1>4 DEF Starts


-----------------------------------------------------------------------------
(* OwnerWords: the words found for a row.                                   *)

\* What a word in the memory is.
LEMMA WordTyped ==
  ASSUME memory \in WordMemories, NEW i \in DOMAIN Words
  PROVE  /\ Len(Words) \in Nat /\ DOMAIN Words = 1 .. Len(Words)
         /\ Words[i] \in Range(Words) /\ Words[i] # None /\ Words[i].active \in BOOLEAN
         /\ Words[i].at \in Nat /\ DOMAIN Words[i].levels \subseteq PolicyFields
<1>1. Words \in Seq(Range(Words)) /\ Words[i] \in Range(Words)
  BY WordsAssumption DEF Words, Range
<1>2. QED
  BY <1>1, LenProperties, WordsAssumption DEF Words

\* The newest word under a key is one of those looked through.
LEMMA NewestIn ==
  ASSUME memory \in WordMemories, NEW key, NEW S \in SUBSET DOMAIN Words, Newest(key, S) # None
  PROVE  \E i \in S : Words[i].key = key /\ Newest(key, S) = Words[i]
<1> DEFINE own == {i \in S : Words[i].key = key}
           times == {Words[i].at : i \in own}
           IsNewest(i) == \A j \in own : \/ Words[j].at < Words[i].at
                                         \/ Words[j].at = Words[i].at /\ j <= i
<1>1. own # {} /\ Newest(key, S) = Words[CHOOSE i \in own : IsNewest(i)]
  BY DEF Newest
<1>2. PICK k : k \in own
  BY <1>1
<1>3. Len(Words) \in Nat /\ DOMAIN Words = 1 .. Len(Words)
  BY <1>2, WordTyped
<1>4. IsFiniteSet(own)
  <2>1. IsFiniteSet(1 .. Len(Words))
    BY <1>3, FS_Interval
  <2>2. own \subseteq 1 .. Len(Words)
    BY <1>3
  <2>3. QED
    BY <2>1, <2>2, FS_Subset
<1>5. times \in SUBSET Int /\ IsFiniteSet(times) /\ Words[k].at \in times
  <2>1. times \in SUBSET Int
    BY WordTyped
  <2>2. IsFiniteSet(times)
    <3> DEFINE at == [i \in own |-> Words[i].at]
    <3>1. at \in Surjection(own, times)
      BY DEF Surjection
    <3>2. QED
      BY <1>4, <3>1, FS_Surjection
  <2>3. QED
    BY <1>2, <2>1, <2>2
<1>6. Max(times) \in times /\ \A t \in times : Max(times) >= t
  BY <1>5, MaxExists
<1> DEFINE newest == {i \in own : Words[i].at = Max(times)}
<1>7. newest # {} /\ newest \in SUBSET (0 .. Len(Words))
  <2>1. \A i \in own : i \in 0 .. Len(Words)
    BY <1>3
  <2> HIDE DEF own
  <2>2. QED
    BY <1>6, <2>1
<1>8. PICK g \in newest : \A j \in newest : j <= g
  BY <1>3, <1>7, GreatestNatural
<1>9. IsNewest(g)
  <2> SUFFICES ASSUME NEW j \in own
               PROVE  Words[j].at < Words[g].at \/ (Words[j].at = Words[g].at /\ j <= g)
    OBVIOUS
  <2>1. Words[j].at \in Int /\ Words[g].at \in Int /\ Words[j].at <= Words[g].at
    BY <1>5, <1>6, <1>8
  <2>2. Words[j].at = Words[g].at => j \in newest
    BY <1>8
  <2>3. QED
    BY <1>8, <2>1, <2>2
<1> HIDE DEF IsNewest
<1>10. (CHOOSE i \in own : IsNewest(i)) \in own
  BY <1>8, <1>9
<1>11. QED
  BY <1>1, <1>10

\* An active word that counts is active.
LEMMA ActiveIn ==
  ASSUME memory \in WordMemories, NEW key, LatestActiveWord(key) # None
  PROVE  /\ LatestActiveWord(key) \in Range(Words) /\ LatestActiveWord(key).active
         /\ LatestActiveWord(key).key = key
<1> DEFINE living == {i \in DOMAIN Words : Words[i].active /\ ~Expired(Words[i])}
<1>1. PICK i \in living : Words[i].key = key /\ LatestActiveWord(key) = Words[i]
  <2>1. living \in SUBSET DOMAIN Words
    OBVIOUS
  <2>2. LatestActiveWord(key) = Newest(key, living)
    BY DEF LatestActiveWord
  <2> HIDE DEF living
  <2>3. QED
    BY <2>1, <2>2, NewestIn
<1>2. QED
  BY <1>1, WordTyped

\* The keys of a row are numbered.
LEMMA KeysNumbered ==
  ASSUME memory \in WordMemories, NEW r
  PROVE  DOMAIN Candidates(r) \in SUBSET Nat
<1> DEFINE p == drafts[r]
           S == {<<"article", p.article>>, <<"barcode", p.barcode>>, <<"name", p.name>>,
                 <<"bare", p.article>>, <<"bare", p.barcode>>, <<"bare", p.internal>>}
           a == IF p.article = None THEN <<>>
                ELSE <<<<"article", p.article>>, <<"bare", p.article>>>>
           b == IF p.barcode = None THEN <<>>
                ELSE <<<<"barcode", p.barcode>>, <<"bare", p.barcode>>>>
           c == IF p.name = None THEN <<>> ELSE <<<<"name", p.name>>>>
           d == IF p.internal = None THEN <<>> ELSE <<<<"bare", p.internal>>>>
<1>1. a \in Seq(S) /\ b \in Seq(S) /\ c \in Seq(S) /\ d \in Seq(S)
  <2> HIDE DEF p
  <2>1. <<>> \in Seq(S)
    BY EmptySeq
  <2>2. ASSUME NEW T, NEW x \in T, NEW y \in T
        PROVE  <<x, y>> \in Seq(T) /\ <<x>> \in Seq(T)
    OBVIOUS
  <2>3. QED
    BY <2>1, <2>2
<1>2. ItemKeys(r) = ((a \o b) \o c) \o d
  BY DEF ItemKeys, ProductKeys
<1> HIDE DEF S, a, b, c, d
<1>3. ItemKeys(r) \in Seq(S)
  BY <1>1, <1>2, ConcatProperties
<1>4. DOMAIN ItemKeys(r) \subseteq Nat /\ Len(ItemKeys(r)) \in Nat
  BY <1>3, LenProperties
<1>5. \A i \in DOMAIN Words : i \in Nat
  BY WordTyped
<1>6. QED
  BY <1>4, <1>5 DEF Candidates

\* A key of a row is its own when no other row has it.
LEMMA OwnWordKey ==
  ASSUME drafts \in Drafts, NEW r \in DraftRows, NEW key \in Range(Candidates(r))
  PROVE  NamesOne(key) <=> \A s \in DraftRows \ {r} : key \notin Range(Candidates(s))
<1> DEFINE named == {s \in DraftRows : key \in Range(Candidates(s))}
<1>1. NamesOne(key) <=> Cardinality(named) = 1
  BY DEF NamesOne
<1>2. IsFiniteSet(named)
  <2>1. IsFiniteSet(DraftRows)
    BY WordsAssumption DEF DraftRows
  <2>2. QED
    BY <2>1, FS_Subset
<1>3. Cardinality(named) = 1 <=> \E x : named = {x}
  BY <1>2, FS_Singleton
<1>4. (\E x : named = {x}) <=> named = {r}
  OBVIOUS
<1>5. named = {r} <=> \A s \in DraftRows \ {r} : key \notin Range(Candidates(s))
  OBVIOUS
<1>6. QED
  BY <1>1, <1>3, <1>4, <1>5

\* The word put on a row is a living one about it when there is one, and otherwise none that
\* is active.
LEMMA WordFound ==
  ASSUME drafts \in Drafts, memory \in WordMemories, NEW r \in DraftRows
  PROVE  /\ WordOf(r) # None => WordOf(r) \in Range(Words)
         /\ About(r) = {} => WordOf(r) = None \/ ~WordOf(r).active
         /\ About(r) # {} => WordOf(r) \in About(r) /\ WordOf(r).active /\ WordOf(r) # None
<1> DEFINE keys == Candidates(r)
           living == {n \in DOMAIN keys : NamesOne(keys[n]) /\ LatestActiveWord(keys[n]) # None}
           withdrawn == {n \in DOMAIN keys : /\ NamesOne(keys[n]) /\ LatestDecision(keys[n]) # None
                                             /\ ~LatestDecision(keys[n]).active}
<1>1. living \in SUBSET Nat /\ withdrawn \in SUBSET Nat
  BY KeysNumbered
<1>2. \A n \in DOMAIN keys : keys[n] \in Range(keys)
  BY DEF Range
<1>3. \A k \in Range(keys) : \E n \in DOMAIN keys : keys[n] = k
  BY DEF Range
<1>4. About(r) = {LatestActiveWord(k) : k \in {k \in Range(keys) :
                                                  NamesOne(k) /\ LatestActiveWord(k) # None}}
  BY OwnWordKey DEF About
<1>5. About(r) = {LatestActiveWord(keys[n]) : n \in living}
  BY <1>2, <1>3, <1>4
<1>6. CASE living # {}
  <2>1. Min(living) \in living
    BY <1>1, <1>6, LeastNatural
  <2>2. WordOf(r) = LatestActiveWord(keys[Min(living)])
    BY <1>6 DEF WordOf
  <2>3. WordOf(r) \in About(r) /\ WordOf(r) # None
    BY <1>5, <2>1, <2>2
  <2>4. WordOf(r) \in Range(Words) /\ WordOf(r).active
    BY <2>1, <2>2, ActiveIn
  <2>5. QED
    BY <2>3, <2>4
<1>7. CASE living = {} /\ withdrawn # {}
  <2>1. Min(withdrawn) \in withdrawn
    BY <1>1, <1>7, LeastNatural
  <2>2. WordOf(r) = LatestDecision(keys[Min(withdrawn)])
    BY <1>7 DEF WordOf
  <2>3. PICK key : key = keys[Min(withdrawn)]
    OBVIOUS
  <2>4. WordOf(r) = LatestDecision(key) /\ LatestDecision(key) # None /\ ~LatestDecision(key).active
    BY <2>1, <2>2, <2>3
  <2>5. WordOf(r) \in Range(Words)
    <3>1. \E i \in DOMAIN Words : Newest(key, DOMAIN Words) = Words[i]
      BY <2>4, NewestIn DEF LatestDecision
    <3>2. QED
      BY <2>4, <3>1, WordTyped DEF LatestDecision
  <2>6. QED
    BY <1>5, <1>7, <2>4, <2>5
<1>8. CASE living = {} /\ withdrawn = {}
  <2>1. WordOf(r) = None
    BY <1>8 DEF WordOf
  <2>2. QED
    BY <1>5, <1>8, <2>1
<1>9. QED
  BY <1>6, <1>7, <1>8

-----------------------------------------------------------------------------
(* OwnerWords: a word put on an item.                                       *)

\* The items of the draft, the words of the memory, what is made of them and the lists.
Carriers == [r \in DraftRows |-> ApplyDecisionToItem(WordOf(r), drafts[r])]
Listed ==
    \A r \in DraftRows :
        /\ r \in sections.commercial <=> Commercial(items[r])
        /\ r \in sections.exit <=> items[r].role = "EXIT" /\ ~items[r].exitApproved
        /\ r \in sections.conflicts <=> items[r].conflict
        /\ r \in sections.exit /\ ~Quiet(items[r]) => r \in sections.sheet
WordsInv ==
    /\ drafts \in Drafts /\ memory \in WordMemories
    /\ step \in {"draft", "applied", "failed", "review"}
    /\ step \in {"applied", "review"} => items = Carriers
    /\ step = "review" => Listed

AgreeOn(one, other, fields) == \A f \in fields : one[f] = other[f]

\* Without an active word an item stays as it is, and nothing quiets its questions.
LEMMA Untouched ==
  ASSUME NEW w, NEW item, DOMAIN item = ItemFields, w = None \/ ~w.active,
         NEW new, new = ApplyDecisionToItem(w, item)
  PROVE  /\ AgreeOn(new, item, ItemFields)
         /\ new.exitApproved = FALSE /\ ~Quiet(new)
<1> DEFINE marks == [clash |-> FALSE, forced |-> FALSE, silenced |-> FALSE,
                     exitApproved |-> FALSE,
                     order |-> IF w # None /\ w.word \in RunWords THEN w.word ELSE None]
<1>1. new = With(item, marks)
  BY DEF ApplyDecisionToItem
<1>2. DOMAIN marks = {"clash", "forced", "silenced", "exitApproved", "order"}
  OBVIOUS
<1>3. marks.exitApproved = FALSE /\ marks.silenced = FALSE
  OBVIOUS
<1> HIDE DEF marks
<1>4. AgreeOn(new, item, ItemFields)
  BY <1>1, <1>2 DEF ItemFields, With, AgreeOn
<1>5. new.exitApproved = FALSE /\ new.silenced = FALSE
  BY <1>1, <1>2, <1>3 DEF With
<1>6. QED
  BY <1>4, <1>5 DEF Quiet

\* An active word is carried out or its item is listed.
LEMMA CarriedOrAsked ==
  ASSUME NEW w, w # None, w.active = TRUE, DOMAIN w.levels \subseteq PolicyFields,
         NEW item, DOMAIN item = ItemFields, item.conflict \in BOOLEAN,
         NEW new, new = ApplyDecisionToItem(w, item)
  PROVE  \/ Commercial(new)
         \/ /\ w.word \notin {"DEFER", "REJECT_EXIT"} /\ ~DecisionConflicts(w, item)
            /\ new.role = RoleForDecision(w, item.role)
            /\ w.word = "APPROVE_EXIT" => new.exitApproved
            /\ w.word = "KEEP_ZERO_STOCK" => new.allowZero
            /\ w.word = "REQUIRE_STOCK" => ~new.allowZero
            /\ w.word = "ACCEPT_POLICY" => ~new.conflict
            /\ w.word = "OVERRIDE_POLICY" => AgreeOn(new, w.levels, DOMAIN w.levels)
            /\ w.word \in {"BUY", "SKIP"} => new.order = w.word
<1> DEFINE marks == [clash |-> FALSE, forced |-> FALSE, silenced |-> FALSE,
                     exitApproved |-> FALSE,
                     order |-> IF w # None /\ w.word \in RunWords THEN w.word ELSE None]
<1>1. PICK seen : seen = With(item, marks)
  OBVIOUS
<1>2. /\ new = IF w.word = "DEFER" THEN With(seen, [forced |-> TRUE])
               ELSE IF DecisionConflicts(w, item)
               THEN With(seen, [clash |-> TRUE, forced |-> TRUE,
                                queues |-> item.queues \union {"commercial_review"}])
               ELSE CarriedOut(w, seen)
  BY <1>1 DEF ApplyDecisionToItem
<1>3. /\ DOMAIN seen = ItemFields \union {"clash", "forced", "silenced", "exitApproved", "order"}
      /\ \A f \in ItemFields : seen[f] = item[f]
      /\ seen.order = IF w.word \in RunWords THEN w.word ELSE None
  <2>1. DOMAIN marks = {"clash", "forced", "silenced", "exitApproved", "order"}
    OBVIOUS
  <2>2. marks.order = IF w.word \in RunWords THEN w.word ELSE None
    OBVIOUS
  <2> HIDE DEF marks
  <2>3. QED
    BY <1>1, <2>1, <2>2 DEF ItemFields, With
<1> HIDE DEF marks
<1>4. ASSUME NEW fields, new = With(seen, fields), "forced" \in DOMAIN fields,
             fields.forced = TRUE
      PROVE  Commercial(new)
  BY <1>4 DEF With, Commercial, Quiet
<1>5. CASE w.word = "DEFER"
  <2>1. PICK fields : fields = [forced |-> TRUE]
    OBVIOUS
  <2>2. "forced" \in DOMAIN fields /\ fields.forced = TRUE
    BY <2>1
  <2>3. QED
    BY <1>2, <1>4, <1>5, <2>1, <2>2
<1>6. CASE w.word # "DEFER" /\ DecisionConflicts(w, item)
  <2>1. PICK fields : fields = [clash |-> TRUE, forced |-> TRUE,
                                queues |-> item.queues \union {"commercial_review"}]
    OBVIOUS
  <2>2. "forced" \in DOMAIN fields /\ fields.forced = TRUE
    BY <2>1
  <2>3. QED
    BY <1>2, <1>4, <1>6, <2>1, <2>2
<1>7. CASE w.word # "DEFER" /\ ~DecisionConflicts(w, item)
  <2>1. PICK put : put = WithOverride(w, seen)
    OBVIOUS
  <2>2. /\ DOMAIN put = DOMAIN seen
        /\ \A f \in DOMAIN seen : put[f] = IF w.word = "OVERRIDE_POLICY" /\ f \in DOMAIN w.levels
                                           THEN w.levels[f] ELSE seen[f]
    BY <1>3, <2>1 DEF WithOverride, With, PolicyFields, ItemFields
  <2> DEFINE fields ==
               [role |-> RoleForDecision(w, seen.role),
                allowZero |-> IF w.word = "KEEP_ZERO_STOCK" THEN TRUE
                              ELSE IF w.word = "REQUIRE_STOCK" THEN FALSE
                              ELSE put.allowZero,
                conflict |-> seen.conflict /\ w.word # "ACCEPT_POLICY",
                queues |-> IF w.word = "ACCEPT_POLICY" THEN seen.queues \ {"policy_conflict"}
                           ELSE IF w.word = "REJECT_EXIT"
                           THEN (seen.queues \ {"exit_review"}) \union {"commercial_review"}
                           ELSE seen.queues,
                exitApproved |-> w.word = "APPROVE_EXIT",
                forced |-> w.word = "REJECT_EXIT",
                silenced |-> w.word # "REJECT_EXIT"]
  <2>3. new = With(put, fields)
    BY <1>2, <1>7, <2>1 DEF CarriedOut
  <2>4. DOMAIN fields = {"role", "allowZero", "conflict", "queues", "exitApproved", "forced",
                         "silenced"}
    OBVIOUS
  <2>5. /\ fields.role = RoleForDecision(w, seen.role)
        /\ fields.allowZero = IF w.word = "KEEP_ZERO_STOCK" THEN TRUE
                              ELSE IF w.word = "REQUIRE_STOCK" THEN FALSE ELSE put.allowZero
        /\ w.word = "ACCEPT_POLICY" => fields.conflict = FALSE
        /\ w.word = "APPROVE_EXIT" => fields.exitApproved = TRUE
        /\ w.word = "REJECT_EXIT" => fields.forced = TRUE
    OBVIOUS
  <2> HIDE DEF fields
  <2>6. CASE w.word = "REJECT_EXIT"
    BY <2>3, <2>4, <2>5, <2>6 DEF With, Commercial, Quiet
  <2>7. CASE w.word # "REJECT_EXIT"
    <3>1. seen.role = item.role /\ "allowZero" \in DOMAIN seen /\ "order" \in DOMAIN seen
      BY <1>3 DEF ItemFields
    <3>2. /\ new.role = RoleForDecision(w, item.role)
          /\ w.word = "APPROVE_EXIT" => new.exitApproved = TRUE
          /\ w.word = "KEEP_ZERO_STOCK" => new.allowZero = TRUE
          /\ w.word = "REQUIRE_STOCK" => new.allowZero = FALSE
          /\ w.word = "ACCEPT_POLICY" => new.conflict = FALSE
      BY <2>2, <2>3, <2>4, <2>5, <3>1 DEF With
    <3>3. w.word = "OVERRIDE_POLICY" => AgreeOn(new, w.levels, DOMAIN w.levels)
      <4> SUFFICES ASSUME w.word = "OVERRIDE_POLICY", NEW f \in DOMAIN w.levels
                   PROVE  new[f] = w.levels[f]
        BY DEF AgreeOn
      <4>1. f \in PolicyFields /\ f \in DOMAIN seen /\ f \in DOMAIN put
        BY <1>3, <2>2 DEF PolicyFields, ItemFields
      <4>2. put[f] = w.levels[f]
        BY <2>2, <4>1
      <4>3. CASE f = "allowZero"
        BY <2>3, <2>4, <2>5, <4>2, <4>3 DEF With
      <4>4. CASE f # "allowZero"
        BY <2>3, <2>4, <4>1, <4>2, <4>4 DEF With, PolicyFields
      <4>5. QED
        BY <4>3, <4>4
    <3>4. w.word \in {"BUY", "SKIP"} => new.order = w.word
      <4>1. w.word \in {"BUY", "SKIP"} => put.order = w.word
        BY <1>3, <2>2, <3>1 DEF RunWords
      <4>2. new.order = put.order
        BY <2>2, <2>3, <2>4, <3>1 DEF With
      <4>3. QED
        BY <4>1, <4>2
    <3>5. QED
      BY <1>7, <2>7, <3>2, <3>3, <3>4
  <2>8. QED
    BY <2>6, <2>7
<1>8. QED
  BY <1>5, <1>6, <1>7

\* The words found are the same as long as draft and memory are.
LEMMA WordsStay ==
  ASSUME drafts' = drafts, memory' = memory, NEW r
  PROVE  WordOf(r)' = WordOf(r)
<1>1. ASSUME NEW key
      PROVE  HistoryKey(key)' = HistoryKey(key)
  BY DEF HistoryKey
<1>2. Words' = Words /\ DraftRows' = DraftRows
  BY DEF Words, DraftRows
<1>3. ASSUME NEW i
      PROVE  Moved(i)' <=> Moved(i)
  BY <1>1, <1>2 DEF Moved, Movable
<1>4. ASSUME NEW s
      PROVE  Candidates(s)' = Candidates(s)
  <2>1. ItemKeys(s)' = ItemKeys(s)
    BY DEF ItemKeys
  <2>2. QED
    BY <1>1, <1>2, <1>3, <2>1 DEF Candidates
<1>5. ASSUME NEW key
      PROVE  /\ NamesOne(key)' <=> NamesOne(key)
             /\ LatestDecision(key)' = LatestDecision(key)
             /\ LatestActiveWord(key)' = LatestActiveWord(key)
  <2>1. NamesOne(key)' <=> NamesOne(key)
    BY <1>2, <1>4 DEF NamesOne
  <2>2. LatestDecision(key)' = LatestDecision(key)
    BY <1>2 DEF LatestDecision, Newest
  <2>3. LatestActiveWord(key)' = LatestActiveWord(key)
    BY <1>2 DEF LatestActiveWord, Newest
  <2>4. QED
    BY <2>1, <2>2, <2>3
<1>6. QED
  BY <1>4, <1>5 DEF WordOf

LEMMA CarriersStay ==
  ASSUME drafts' = drafts, memory' = memory
  PROVE  Carriers' = Carriers
<1>1. ASSUME NEW r
      PROVE  WordOf(r)' = WordOf(r)
  BY WordsStay
<1>2. DraftRows' = DraftRows
  BY DEF DraftRows
<1>3. QED
  BY <1>1, <1>2 DEF Carriers

LEMMA WordsInvHolds == WordsSpec => []WordsInv
<1>1. WordsInit => WordsInv
  BY DEF WordsInit, WordsInv
<1>2. ASSUME WordsInv, [WordsNext]_wordVars
      PROVE  WordsInv'
  <2>1. CASE ApplyOwnerDecisions
    <3>1. /\ drafts' = drafts /\ memory' = memory /\ step' \in {"applied", "failed"}
          /\ step' = "applied" => items' = Carriers
      BY <2>1 DEF ApplyOwnerDecisions, Carriers
    <3>2. Carriers' = Carriers
      BY <3>1, CarriersStay
    <3>3. QED
      BY <1>2, <3>1, <3>2 DEF WordsInv
  <2>2. CASE BuildOwnerReviewModel
    <3> DEFINE exit == {r \in DraftRows : items[r].role = "EXIT" /\ ~items[r].exitApproved}
               conflicts == {r \in DraftRows : items[r].conflict}
               large == {r \in DraftRows : "large_inventory_review" \in items[r].queues}
               costly == {r \in DraftRows : items[r].costly}
               open == {r \in DraftRows : ~Quiet(items[r])}
    <3>1. step' = "review" /\ step = "applied" /\ UNCHANGED <<drafts, memory, items>>
      BY <2>2 DEF BuildOwnerReviewModel
    <3>2. /\ sections'.commercial = {r \in DraftRows : Commercial(items[r])}
          /\ sections'.exit = exit /\ sections'.conflicts = conflicts
          /\ sections'.sheet = (exit \union conflicts \union (large \intersect costly))
                                 \intersect open
      BY <2>2 DEF BuildOwnerReviewModel
    <3>3. DraftRows' = DraftRows /\ Carriers' = Carriers
      BY <3>1, CarriersStay DEF DraftRows
    <3>4. Listed'
      BY <3>1, <3>2, <3>3 DEF Listed, Commercial, Quiet
    <3>5. QED
      BY <1>2, <3>1, <3>3, <3>4 DEF WordsInv
  <2>3. CASE UNCHANGED wordVars
    <3>1. UNCHANGED <<step, drafts, memory, items, sections>>
      BY <2>3 DEF wordVars
    <3>2. DraftRows' = DraftRows /\ Carriers' = Carriers
      BY <3>1, CarriersStay DEF DraftRows
    <3>3. Listed => Listed'
      BY <3>1, <3>2 DEF Listed, Commercial, Quiet
    <3>4. QED
      BY <1>2, <3>1, <3>2, <3>3 DEF WordsInv
  <2>4. QED
    BY <1>2, <2>1, <2>2, <2>3 DEF WordsNext
<1>3. QED
  BY <1>1, <1>2, PTL DEF WordsSpec

\* The role of an item whose word is carried out.
LEMMA RoleGiven ==
  ASSUME NEW w, NEW item, ~DecisionConflicts(w, item),
         NEW role, role = RoleForDecision(w, item.role)
  PROVE  /\ w.role # None => role = w.role
         /\ w.role = None /\ w.word = "KEEP_CORE" => role = "CORE"
         /\ w.role = None /\ w.word = "KEEP_OPTIONAL" => role = "OPTIONAL"
         /\ w.role = None /\ w.word = "APPROVE_EXIT" => role = "EXIT"
         /\ w.role = None /\ w.word = "REQUIRE_STOCK" => role # "EXIT"
<1>1. CASE w.role # None
  BY <1>1 DEF RoleForDecision
<1>2. CASE w.role = None /\ w.word \in {"KEEP_CORE", "KEEP_OPTIONAL"}
  BY <1>2 DEF RoleForDecision
<1>3. CASE w.role = None /\ w.word = "APPROVE_EXIT"
  BY <1>3 DEF RoleForDecision, DecisionConflicts
<1>4. CASE w.role = None /\ w.word = "REQUIRE_STOCK"
  BY <1>4 DEF RoleForDecision, DecisionConflicts
<1>5. QED
  BY <1>1, <1>2, <1>3, <1>4

\* The owner's word is carried out or he is asked again, whatever else is in the memory and
\* whatever keys the rows share: with one living word about a row the item says what the word
\* says or stands in the commercial list; a row no living word is about keeps what the draft
\* gave it and its place in the review.
THEOREM OwnerIsHeard == WordsSpec => []WordKept
<1>1. WordsInv => WordKept
  <2> SUFFICES ASSUME WordsInv, step = "review", NEW r \in DraftRows
               PROVE  /\ \A w \in About(r) : About(r) = {w} =>
                                                SaysSo(w, r) \/ r \in sections.commercial
                      /\ About(r) = {} =>
                           /\ \A f \in DOMAIN drafts[r] : items[r][f] = drafts[r][f]
                           /\ drafts[r].role = "EXIT" =>
                                r \in sections.exit \intersect sections.sheet
                           /\ "commercial_review" \in drafts[r].queues => r \in sections.commercial
    BY DEF WordKept
  <2>1. /\ drafts \in Drafts /\ memory \in WordMemories
        /\ items[r] = ApplyDecisionToItem(WordOf(r), drafts[r])
        /\ r \in sections.commercial <=> Commercial(items[r])
        /\ r \in sections.exit <=> items[r].role = "EXIT" /\ ~items[r].exitApproved
        /\ r \in sections.conflicts <=> items[r].conflict
        /\ r \in sections.exit /\ ~Quiet(items[r]) => r \in sections.sheet
    BY DEF WordsInv, Carriers, Listed
  <2>2. PICK item : item = drafts[r]
    OBVIOUS
  <2>3. DOMAIN item = ItemFields /\ item.conflict \in BOOLEAN
    BY <2>1, <2>2, WordsAssumption DEF DraftRows
  <2>4. PICK new : new = items[r]
    OBVIOUS
  <2>5. ASSUME About(r) = {}
        PROVE  /\ \A f \in DOMAIN drafts[r] : items[r][f] = drafts[r][f]
               /\ drafts[r].role = "EXIT" => r \in sections.exit \intersect sections.sheet
               /\ "commercial_review" \in drafts[r].queues => r \in sections.commercial
    <3>1. WordOf(r) = None \/ ~WordOf(r).active
      BY <2>1, <2>5, WordFound
    <3>2. PICK w : w = WordOf(r)
      OBVIOUS
    <3>3. /\ AgreeOn(new, item, ItemFields)
          /\ new.exitApproved = FALSE /\ ~Quiet(new)
      <4>1. DOMAIN item = ItemFields
        BY <2>3
      <4>2. w = None \/ ~w.active
        BY <3>1, <3>2
      <4>3. new = ApplyDecisionToItem(w, item)
        BY <2>1, <2>2, <2>4, <3>2
      <4>4. QED
        BY <4>1, <4>2, <4>3, Untouched, Zenon
    <3>4. new.role = item.role /\ new.queues = item.queues
      BY <3>3 DEF ItemFields, AgreeOn
    <3>5. "commercial_review" \in item.queues => Commercial(new)
      BY <3>3, <3>4 DEF Commercial
    <3>6. QED
      BY <2>1, <2>2, <2>3, <2>4, <3>3, <3>4, <3>5 DEF AgreeOn
  <2>6. ASSUME NEW w, About(r) = {w}
        PROVE  SaysSo(w, r) \/ r \in sections.commercial
    <3>1. w = WordOf(r) /\ w.active /\ w # None /\ w \in Range(Words)
      BY <2>1, <2>6, WordFound
    <3>2. w.active = TRUE /\ DOMAIN w.levels \subseteq PolicyFields
      <4>1. w.active \in BOOLEAN /\ DOMAIN w.levels \subseteq PolicyFields
        BY <2>1, <3>1, WordsAssumption DEF Words
      <4>2. QED
        BY <3>1, <4>1
    <3>3. new = ApplyDecisionToItem(w, item)
      BY <2>1, <2>2, <2>4, <3>1
    <3>4. CASE Commercial(new)
      BY <2>1, <2>4, <3>4
    <3>5. CASE ~Commercial(new)
      <4>1. /\ w.word \notin {"DEFER", "REJECT_EXIT"} /\ ~DecisionConflicts(w, item)
            /\ new.role = RoleForDecision(w, item.role)
            /\ w.word = "APPROVE_EXIT" => new.exitApproved
            /\ w.word = "KEEP_ZERO_STOCK" => new.allowZero
            /\ w.word = "REQUIRE_STOCK" => ~new.allowZero
            /\ w.word = "ACCEPT_POLICY" => ~new.conflict
            /\ w.word = "OVERRIDE_POLICY" => AgreeOn(new, w.levels, DOMAIN w.levels)
            /\ w.word \in {"BUY", "SKIP"} => new.order = w.word
        <5>1. w # None
          BY <3>1
        <5>2. w.active = TRUE
          BY <3>2
        <5>3. DOMAIN w.levels \subseteq PolicyFields
          BY <3>2
        <5>4. DOMAIN item = ItemFields
          BY <2>3
        <5>5. item.conflict \in BOOLEAN
          BY <2>3
        <5>6. QED
          BY <3>3, <3>5, <5>1, <5>2, <5>3, <5>4, <5>5, CarriedOrAsked, Zenon
      <4>2. PICK role : role = new.role
        OBVIOUS
      <4>3. /\ w.role # None => role = w.role
            /\ w.role = None /\ w.word = "KEEP_CORE" => role = "CORE"
            /\ w.role = None /\ w.word = "KEEP_OPTIONAL" => role = "OPTIONAL"
            /\ w.role = None /\ w.word = "APPROVE_EXIT" => role = "EXIT"
            /\ w.role = None /\ w.word = "REQUIRE_STOCK" => role # "EXIT"
        BY <4>1, <4>2, RoleGiven
      <4>4. SaysSo(w, r)
        BY <2>1, <2>4, <4>1, <4>2, <4>3 DEF SaysSo, AgreeOn
      <4>5. QED
        BY <4>4
    <3>6. QED
      BY <3>4, <3>5
  <2>7. QED
    BY <2>5, <2>6
<1>2. QED
  BY <1>1, WordsInvHolds, PTL

-----------------------------------------------------------------------------
(* MatrixDraft: the levels of a stock policy.                               *)

Weekly == Int \union {None}

\* The readable weeks are finitely many numbers.
LEMMA ReadingsTyped ==
  ASSUME NEW weeks \in Seq(Weekly)
  PROVE  /\ IsFiniteSet(Readings(weeks)) /\ KnownWeeks(weeks) \in Nat
         /\ KnownWeeks(weeks) = 0 <=> Readings(weeks) = {}
         /\ \A i \in Readings(weeks) : weeks[i] \in Nat
         /\ SalesTotal(weeks) \in Nat
<1>1. IsFiniteSet(Readings(weeks))
  <2>1. Readings(weeks) \subseteq 1 .. Len(weeks) /\ Len(weeks) \in Nat
    BY DEF Readings
  <2>2. PICK size : size = Len(weeks)
    OBVIOUS
  <2>3. IsFiniteSet(1 .. size)
    BY <2>1, <2>2, FS_Interval
  <2>4. QED
    BY <2>1, <2>2, <2>3, FS_Subset
<1>2. \A i \in Readings(weeks) : weeks[i] \in Nat
  BY DEF Readings, Reliable, Weekly
<1>3. KnownWeeks(weeks) \in Nat /\ (KnownWeeks(weeks) = 0 <=> Readings(weeks) = {})
  BY <1>1, FS_CardinalityType, FS_EmptySet DEF KnownWeeks
<1>4. SalesTotal(weeks) \in Nat
  BY <1>1, <1>2, SumNat DEF SalesTotal
<1>5. QED
  BY <1>1, <1>2, <1>3, <1>4

LEMMA AverageRatio ==
  ASSUME NEW weeks \in Seq(Weekly), KnownWeeks(weeks) # 0
  PROVE  Ratio(Average(weeks))
BY ReadingsTyped DEF Average, Fraction, Ratio

\* The safety stock is defined: some number of units covers the deviations.
LEMMA SafetyNatural ==
  ASSUME NEW weeks \in Seq(Weekly), config.lead \in Nat \ {0}, SafetyStock(weeks) # None
  PROVE  SafetyStock(weeks) \in Nat
<1>1. PICK n : n = KnownWeeks(weeks)
  OBVIOUS
<1>2. PICK total : total = SalesTotal(weeks)
  OBVIOUS
<1>3. n \in Nat /\ total \in Nat /\ n >= 2
  BY <1>1, <1>2, ReadingsTyped DEF SafetyStock
<1> DEFINE off(i) == n * weeks[i] - total
           h == [i \in Readings(weeks) |-> off(i) * off(i)]
<1>4. Deviations(weeks) \in Nat
  <2>1. \A i \in Readings(weeks) : off(i) \in Int
    BY <1>3, ReadingsTyped
  <2>2. ASSUME NEW k \in Int PROVE k * k \in Nat
    OBVIOUS
  <2>3. \A i \in Readings(weeks) : h[i] \in Nat
    BY <2>1, <2>2
  <2>4. Deviations(weeks) = SumFunctionOnSet(h, Readings(weeks))
    BY <1>1, <1>2 DEF Deviations, SumFunction
  <2> HIDE DEF h
  <2>5. QED
    BY <2>3, <2>4, ReadingsTyped, SumNat
<1>5. PICK squares : squares = Deviations(weeks) * config.lead
  OBVIOUS
<1>6. squares \in Nat
  BY <1>4, <1>5
<1> DEFINE covers(s) == s * s * n * n * n >= squares
           enough == {s \in Nat : covers(s)}
           fits(s) == covers(s) /\ (s > 0 => ~covers(s - 1))
<1>7. covers(squares)
  <2>1. \A a, b \in Nat : b >= 1 => a * b >= a
    OBVIOUS
  <2>2. squares * squares >= squares
    BY <1>6, <2>1
  <2>3. squares * squares \in Nat
    BY <1>6
  <2>4. squares * squares * n \in Nat /\ squares * squares * n >= squares
    BY <1>3, <1>6, <2>1, <2>2, <2>3
  <2>5. squares * squares * n * n \in Nat /\ squares * squares * n * n >= squares
    BY <1>3, <1>6, <2>1, <2>4
  <2>6. QED
    BY <1>3, <1>6, <2>1, <2>5
<1>8. PICK least : least = Min(enough)
  OBVIOUS
<1>9. least \in enough /\ \A k \in enough : least <= k
  BY <1>6, <1>7, <1>8, LeastNatural
<1>10. least \in 0 .. squares /\ fits(least)
  <2>1. least \in Nat /\ covers(least) /\ least <= squares
    BY <1>6, <1>7, <1>9
  <2>2. ASSUME least > 0 PROVE ~covers(least - 1)
    <3>1. least - 1 \in Nat /\ ~(least <= least - 1)
      BY <2>1, <2>2
    <3> HIDE DEF covers
    <3>2. QED
      BY <1>9, <3>1
  <2> HIDE DEF covers
  <2>3. QED
    BY <1>6, <2>1, <2>2
<1>11. SafetyStock(weeks) = CHOOSE k \in 0 .. squares : fits(k)
  BY <1>1, <1>3, <1>5 DEF SafetyStock
<1> HIDE DEF fits
<1>12. (CHOOSE k \in 0 .. squares : fits(k)) \in 0 .. squares
  BY <1>10
<1>13. SafetyStock(weeks) \in 0 .. squares
  BY <1>11, <1>12, Zenon
<1>14. QED
  BY <1>6, <1>13

\* What a valid configuration and a row are.
LEMMA ConfigTyped ==
  ASSUME ValidConfig(config)
  PROVE  /\ config.base \in Nat \ {0} /\ config.preferred \in Nat \ {0}
         /\ config.short \in Nat \ {0} /\ config.enough \in Nat \ {0}
         /\ config.lead \in Nat \ {0} /\ config.base <= config.preferred
         /\ config.targetCover \in Nat /\ config.maximumCover \in Nat /\ config.shelf \in Nat
         /\ Ratio(config.shelfCover) /\ Ratio(config.growthCap)
BY DEF ValidConfig

LEMMA SalesTyped ==
  ASSUME source \in Cases
  PROVE  source.sales \in Seq(Weekly) /\ Len(source.sales) \in Nat
BY DraftAssumption DEF Weekly

\* The last weeks are weeks of the row, and fewer of them are among more.
LEMMA LastWeeksIn ==
  ASSUME source \in Cases, NEW n \in Nat \ {0}
  PROVE  /\ LastWeeks(n) \in Seq(Weekly)
         /\ \A i \in DOMAIN LastWeeks(n) : \E j \in DOMAIN source.sales :
               LastWeeks(n)[i] = source.sales[j]
<1>1. PICK sales : sales = source.sales
  OBVIOUS
<1>2. PICK from : from = MoreOf(1, Len(sales) - n + 1)
  OBVIOUS
<1>3. sales \in Seq(Weekly) /\ Len(sales) \in Nat
  BY <1>1, SalesTyped
<1>4. from \in 1 .. Len(sales) + 1
  BY <1>2, <1>3 DEF MoreOf
<1>5. PICK weeks : weeks = SubSeq(sales, from, Len(sales))
  OBVIOUS
<1>6. weeks \in Seq(Weekly)
  BY <1>3, <1>4, <1>5
<1>7. \A i \in DOMAIN weeks : i + from - 1 \in DOMAIN sales /\ weeks[i] = sales[i + from - 1]
  BY <1>3, <1>4, <1>5
<1>8. LastWeeks(n) = weeks
  BY <1>1, <1>2, <1>5 DEF LastWeeks
<1>9. QED
  BY <1>1, <1>6, <1>7, <1>8

LEMMA LastWeeksNested ==
  ASSUME source \in Cases, NEW n \in Nat \ {0}, NEW m \in Nat \ {0}, n <= m
  PROVE  \A i \in DOMAIN LastWeeks(n) : \E j \in DOMAIN LastWeeks(m) :
            LastWeeks(n)[i] = LastWeeks(m)[j]
<1>1. PICK sales : sales = source.sales
  OBVIOUS
<1>2. PICK from, before : /\ from = MoreOf(1, Len(sales) - n + 1)
                          /\ before = MoreOf(1, Len(sales) - m + 1)
  OBVIOUS
<1>3. sales \in Seq(Weekly) /\ Len(sales) \in Nat
  BY <1>1, SalesTyped
<1>4. from \in 1 .. Len(sales) + 1 /\ before \in 1 .. from
  BY <1>2, <1>3 DEF MoreOf
<1>5. PICK weeks, more : /\ weeks = SubSeq(sales, from, Len(sales))
                         /\ more = SubSeq(sales, before, Len(sales))
  OBVIOUS
<1>6. ASSUME NEW i \in DOMAIN weeks
      PROVE  /\ i + from - before \in DOMAIN more
             /\ weeks[i] = more[i + from - before]
  <2>1. i \in 1 .. Len(sales) - from + 1 /\ weeks[i] = sales[i + from - 1]
    BY <1>3, <1>4, <1>5
  <2>2. DOMAIN more = 1 .. Len(sales) - before + 1
    BY <1>3, <1>4, <1>5
  <2>3. i + from - before \in DOMAIN more
    BY <1>3, <1>4, <2>1, <2>2
  <2>4. more[i + from - before] = sales[i + from - 1]
    <3>1. \A j \in DOMAIN more : more[j] = sales[j + before - 1]
      BY <1>3, <1>4, <1>5
    <3>2. (i + from - before) + before - 1 = i + from - 1
      BY <1>3, <1>4, <2>1
    <3>3. QED
      BY <2>3, <3>1, <3>2
  <2>5. QED
    BY <2>1, <2>3, <2>4
<1>7. LastWeeks(n) = weeks /\ LastWeeks(m) = more
  BY <1>1, <1>2, <1>5 DEF LastWeeks
<1>8. QED
  BY <1>6, <1>7

\* With enough history the averages are known.
LEMMA AveragesKnown ==
  ASSUME source \in Cases, ValidConfig(config), EnoughHistory
  PROVE  /\ SelectedWeeks \in Seq(Weekly)
         /\ Ratio(Average(SelectedWeeks)) /\ Ratio(LongAverage) /\ Ratio(ShortAverage)
<1>1. PICK weeks : weeks = LastWeeks(config.base)
  OBVIOUS
<1>2. PICK sales : sales = source.sales
  OBVIOUS
<1>3. sales \in Seq(Weekly) /\ weeks \in Seq(Weekly)
  BY <1>1, <1>2, ConfigTyped, LastWeeksIn, SalesTyped
<1>4. KnownWeeks(weeks) # 0
  <2>1. KnownWeeks(weeks) \in Nat /\ KnownWeeks(weeks) >= config.enough
    BY <1>1, <1>3, ReadingsTyped DEF EnoughHistory
  <2>2. QED
    BY <2>1, ConfigTyped
<1>5. KnownWeeks(sales) # 0
  <2>1. PICK i \in DOMAIN weeks : Reliable(weeks[i])
    <3>1. Readings(weeks) # {}
      BY <1>3, <1>4, ReadingsTyped
    <3>2. QED
      BY <3>1 DEF Readings
  <2>2. PICK j \in DOMAIN sales : weeks[i] = sales[j]
    BY <1>1, <1>2, <2>1, ConfigTyped, LastWeeksIn
  <2>3. j \in Readings(sales)
    BY <2>1, <2>2 DEF Readings
  <2>4. QED
    BY <1>3, <2>3, ReadingsTyped
<1>6. SelectedWeeks \in Seq(Weekly) /\ KnownWeeks(SelectedWeeks) # 0
  <2>1. CASE KnownWeeks(LastWeeks(config.preferred)) >= config.preferred
    <3>1. PICK more : more = LastWeeks(config.preferred)
      OBVIOUS
    <3>2. more \in Seq(Weekly)
      BY <3>1, ConfigTyped, LastWeeksIn
    <3>3. KnownWeeks(more) \in Nat /\ KnownWeeks(more) >= config.preferred
      BY <2>1, <3>1, <3>2, ReadingsTyped
    <3>4. SelectedWeeks = more
      BY <2>1, <3>1 DEF SelectedWeeks
    <3>5. QED
      BY <3>2, <3>3, <3>4, ConfigTyped
  <2>2. CASE ~(KnownWeeks(LastWeeks(config.preferred)) >= config.preferred)
    <3>1. SelectedWeeks = weeks
      BY <1>1, <2>2 DEF SelectedWeeks
    <3>2. QED
      BY <1>3, <1>4, <3>1
  <2>3. QED
    BY <2>1, <2>2
<1>7. Ratio(Average(SelectedWeeks)) /\ Ratio(LongAverage)
  <2>1. PICK chosen : chosen = SelectedWeeks
    OBVIOUS
  <2>2. Ratio(Average(chosen)) /\ Ratio(Average(sales))
    BY <1>3, <1>5, <1>6, <2>1, AverageRatio
  <2>3. QED
    BY <1>2, <2>1, <2>2 DEF LongAverage
<1>8. Ratio(ShortAverage)
  <2>1. PICK short : short = LastWeeks(config.short)
    OBVIOUS
  <2>2. short \in Seq(Weekly)
    BY <2>1, ConfigTyped, LastWeeksIn
  <2>3. CASE KnownWeeks(short) = 0
    <3>1. ShortAverage = Average(SelectedWeeks)
      BY <2>1, <2>3 DEF ShortAverage, Average
    <3>2. QED
      BY <1>7, <3>1
  <2>4. CASE KnownWeeks(short) # 0
    <3>1. Ratio(Average(short))
      BY <2>2, <2>4, AverageRatio
    <3>2. ShortAverage \in {Average(short), Average(SelectedWeeks)}
      BY <2>1 DEF ShortAverage
    <3>3. QED
      BY <1>7, <3>1, <3>2
  <2>5. QED
    BY <2>3, <2>4
<1>9. QED
  BY <1>6, <1>7, <1>8

LEMMA RatioTimes ==
  ASSUME NEW a, NEW b, Ratio(a), Ratio(b)
  PROVE  Ratio(Times(a, b))
<1>1. PICK p, q : p = a.num * b.num /\ q = a.den * b.den
  OBVIOUS
<1>2. \A m, k \in Nat \ {0} : m * k \in Nat \ {0}
  OBVIOUS
<1>3. p \in Nat /\ q \in Nat \ {0}
  BY <1>1, <1>2 DEF Ratio
<1>4. Times(a, b) = [num |-> p, den |-> q]
  BY <1>1 DEF Times, Fraction
<1>5. QED
  BY <1>3, <1>4 DEF Ratio

LEMMA CeilTyped ==
  ASSUME NEW a, Ratio(a)
  PROVE  Ceil(a) \in Int
<1>1. PICK p, q : p = a.num /\ q = a.den
  OBVIOUS
<1>2. p \in Nat /\ q \in Nat /\ q > 0
  BY <1>1 DEF Ratio
<1>3. (p + q - 1) \div q \in Int
  BY <1>2
<1>4. QED
  BY <1>1, <1>3 DEF Ceil

LEMMA EffectiveTyped ==
  ASSUME source \in Cases, ValidConfig(config), EnoughHistory
  PROVE  Ratio(EffectiveAverage)
<1>1. Ratio(GrowthLimit)
  BY AveragesKnown, ConfigTyped, RatioTimes DEF GrowthLimit
<1>2. EffectiveAverage \in {GrowthLimit, Average(SelectedWeeks), ShortAverage}
  BY DEF EffectiveAverage, Greater
<1>3. QED
  BY <1>1, <1>2, AveragesKnown

\* Calculated levels are numbers in order.
LEMMA LevelsInOrder ==
  ASSUME source \in Cases, ValidConfig(config), EnoughHistory,
         EffectiveAverage.num = 0 \/ SafetyStock(SelectedWeeks) # None,
         NEW calculated, calculated = StockLevels
  PROVE  /\ calculated.min \in Int /\ calculated.target \in Int /\ calculated.max \in Int
         /\ 0 <= calculated.min /\ calculated.min <= calculated.target
         /\ calculated.target <= calculated.max
<1>1. PICK average : average = EffectiveAverage
  OBVIOUS
<1>2. PICK idle : idle = (average.num = 0)
  OBVIOUS
<1>3. PICK safety : safety = IF idle THEN 0 ELSE SafetyStock(SelectedWeeks)
  OBVIOUS
<1>4. Ratio(average)
  BY <1>1, EffectiveTyped
<1>5. safety \in Int
  BY <1>1, <1>2, <1>3, AveragesKnown, ConfigTyped, SafetyNatural
<1> DEFINE cover(weeks) == Ceil(Times(average, Fraction(weeks, 1))) + safety
<1>6. ASSUME NEW weeks \in Nat
      PROVE  cover(weeks) \in Int
  <2>1. Ratio(Fraction(weeks, 1))
    BY DEF Fraction, Ratio
  <2>2. QED
    BY <1>4, <1>5, <2>1, RatioTimes, CeilTyped
<1>7. PICK min : min = IF idle THEN 0 ELSE MoreOf(config.shelf, Ceil(Times(average, config.shelfCover)))
  OBVIOUS
<1>8. min \in Int /\ 0 <= min
  <2>1. Ceil(Times(average, config.shelfCover)) \in Int
    BY <1>4, ConfigTyped, RatioTimes, CeilTyped
  <2>2. QED
    BY <1>7, <2>1, ConfigTyped DEF MoreOf
<1>9. PICK some, most : some = cover(config.targetCover) /\ most = cover(config.maximumCover)
  OBVIOUS
<1>10. some \in Int /\ most \in Int
  BY <1>6, <1>9, ConfigTyped
<1>11. /\ calculated.min = min /\ calculated.target = MoreOf(min, some)
       /\ calculated.max = MoreOf(MoreOf(min, some), most)
  BY <1>1, <1>2, <1>3, <1>7, <1>9 DEF StockLevels
<1>12. QED
  BY <1>8, <1>10, <1>11 DEF MoreOf

-----------------------------------------------------------------------------
(* MatrixDraft: the draft item.                                             *)

\* Levels that were calculated rest on enough history and are in order; an item that is on no
\* list has them, has all the owner is otherwise asked for, and is not changed by the
\* validation unless that puts it on a list.
LevelsFit ==
    levels.calculated =>
        /\ EnoughHistory /\ levels.weeks = SelectedWeeks
        /\ {levels.min, levels.target, levels.max} \subseteq Int
        /\ 0 <= levels.min /\ levels.min <= levels.target /\ levels.target <= levels.max
Unasked ==
    draft.queues = {} =>
        /\ source.stable /\ ~source.ambiguous
        /\ source.price # None /\ source.free # None /\ source.days # None
        /\ levels.calculated
        /\ draft.min = levels.min /\ draft.target = levels.target /\ draft.max = levels.max
        /\ Approved => source.existing.min = levels.min /\ source.existing.target = levels.target
        /\ draft.role \notin {"NEW", "EXIT", "UNCLASSIFIED"}
DraftInv ==
    /\ phase \in {"row", "policy", "role", "item", "draft"}
    /\ source \in Cases /\ ValidConfig(config)
    /\ phase # "row" => LevelsFit
    /\ phase \in {"item", "draft"} => Unasked /\ "queues" \in DOMAIN draft
    /\ phase = "draft" /\ draft.queues = {} => ~Malformed

\* What is calculated of a row is the same as long as row and configuration are.
LEMMA HistoryStays ==
  ASSUME config' = config, source' = source
  PROVE  /\ EnoughHistory' <=> EnoughHistory
         /\ SelectedWeeks' = SelectedWeeks
         /\ Approved' <=> Approved
         /\ ValidConfig(config)' <=> ValidConfig(config)
<1>1. ASSUME NEW n
      PROVE  LastWeeks(n)' = LastWeeks(n)
  BY DEF LastWeeks
<1>2. QED
  BY <1>1 DEF EnoughHistory, SelectedWeeks, Approved, ValidConfig

LEMMA LevelsCalculated ==
  ASSUME source \in Cases, ValidConfig(config), CalculateStockPolicy
  PROVE  LevelsFit'
<1>1. config' = config /\ source' = source
  BY DEF CalculateStockPolicy
<1>2. PICK new : new = levels'
  OBVIOUS
<1>3. CASE EnoughHistory /\ (EffectiveAverage.num = 0 \/ SafetyStock(SelectedWeeks) # None)
  <2>1. new = StockLevels
    BY <1>2, <1>3 DEF CalculateStockPolicy
  <2>2. /\ new.min \in Int /\ new.target \in Int /\ new.max \in Int
        /\ 0 <= new.min /\ new.min <= new.target /\ new.target <= new.max
    BY <1>3, <2>1, LevelsInOrder
  <2>3. new.weeks = SelectedWeeks
    BY <2>1 DEF StockLevels
  <2>4. QED
    BY <1>1, <1>2, <1>3, <2>2, <2>3, HistoryStays DEF LevelsFit
<1>4. CASE ~(EnoughHistory /\ (EffectiveAverage.num = 0 \/ SafetyStock(SelectedWeeks) # None))
  <2>1. new = EmptyPolicy
    BY <1>2, <1>4 DEF CalculateStockPolicy
  <2>2. new.calculated = FALSE
    BY <2>1 DEF EmptyPolicy
  <2>3. QED
    BY <1>2, <2>2 DEF LevelsFit
<1>5. QED
  BY <1>3, <1>4

LEMMA ItemSettled ==
  ASSUME LevelsFit, BuildDraftItem
  PROVE  Unasked' /\ "queues" \in DOMAIN draft'
<1>1. /\ config' = config /\ source' = source /\ levels' = levels
      /\ Approved' <=> Approved
  BY HistoryStays DEF BuildDraftItem
<1>2. PICK new : new = draft'
  OBVIOUS
<1>3. /\ new.role = verdict.role /\ new.queues = Queues /\ "queues" \in DOMAIN new
      /\ new.min = (IF Approved THEN source.existing.min ELSE levels.min)
      /\ new.target = (IF Approved THEN source.existing.target ELSE levels.target)
      /\ new.max = levels.max
  BY <1>2 DEF BuildDraftItem, EffectivePolicy
<1>4. ASSUME Queues = {}
      PROVE  /\ source.stable /\ ~source.ambiguous
             /\ source.price # None /\ source.free # None /\ source.days # None
             /\ levels.calculated
             /\ verdict.role \notin {"NEW", "EXIT", "UNCLASSIFIED"}
             /\ ~(Approved /\ PoliciesDiffer)
  <2>1. /\ "identity_remediation" \notin Queues /\ "commercial_review" \notin Queues
        /\ "exit_review" \notin Queues /\ "policy_conflict" \notin Queues
        /\ "insufficient_data" \notin Queues
    BY <1>4
  <2>2. source.stable /\ ~source.ambiguous
    BY <2>1 DEF Queues
  <2>3. ~CommercialReview /\ verdict.role # "EXIT" /\ ~(Approved /\ PoliciesDiffer)
    BY <2>1 DEF Queues
  <2>4. levels.calculated /\ ~MissingInventory /\ source.price # None
    BY <2>1 DEF Queues
  <2>5. QED
    BY <2>2, <2>3, <2>4 DEF CommercialReview, MissingInventory
<1>5. ASSUME Queues = {}, Approved
      PROVE  source.existing.min = levels.min /\ source.existing.target = levels.target
  <2>1. levels.min # None /\ levels.target # None
    BY <1>4, <1>5, DraftAssumption DEF LevelsFit
  <2>2. QED
    BY <1>4, <1>5, <2>1 DEF Approved, PoliciesDiffer
<1>6. QED
  BY <1>1, <1>2, <1>3, <1>4, <1>5 DEF Unasked

LEMMA DraftInvHolds == DraftSpec => []DraftInv
<1>1. DraftInit => DraftInv
  BY DEF DraftInit, DraftInv
<1>2. ASSUME DraftInv, [DraftNext]_draftVars
      PROVE  DraftInv'
  <2>1. CASE CalculateStockPolicy
    <3>1. /\ phase' = "policy" /\ config' = config /\ source' = source
      BY <2>1 DEF CalculateStockPolicy, DraftGoes
    <3>2. QED
      BY <1>2, <2>1, <3>1, HistoryStays, LevelsCalculated DEF DraftInv
  <2>2. CASE ClassifyRole
    <3>1. /\ phase = "policy" /\ phase' = "role"
          /\ config' = config /\ source' = source /\ levels' = levels
      BY <2>2 DEF ClassifyRole, DraftGoes
    <3>2. LevelsFit'
      BY <1>2, <3>1, HistoryStays DEF DraftInv, LevelsFit
    <3>3. QED
      BY <1>2, <3>1, <3>2, HistoryStays DEF DraftInv
  <2>3. CASE BuildDraftItem
    <3>1. /\ phase = "role" /\ phase' = "item"
          /\ config' = config /\ source' = source /\ levels' = levels
      BY <2>3 DEF BuildDraftItem, DraftGoes
    <3>2. LevelsFit'
      BY <1>2, <3>1, HistoryStays DEF DraftInv, LevelsFit
    <3>3. Unasked' /\ "queues" \in DOMAIN draft'
      BY <1>2, <2>3, <3>1, ItemSettled DEF DraftInv
    <3>4. QED
      BY <1>2, <3>1, <3>2, <3>3, HistoryStays DEF DraftInv
  <2>4. CASE ValidateDraftItem
    <3>1. /\ phase = "item" /\ phase' = "draft"
          /\ config' = config /\ source' = source /\ levels' = levels
      BY <2>4 DEF ValidateDraftItem, DraftGoes
    <3>2. LevelsFit'
      BY <1>2, <3>1, HistoryStays DEF DraftInv, LevelsFit
    <3>3. CASE Malformed
      <4>1. draft' = [draft EXCEPT !.queues = @ \union {"insufficient_data"}]
        BY <2>4, <3>3 DEF ValidateDraftItem
      <4>2. "queues" \in DOMAIN draft
        BY <1>2, <3>1 DEF DraftInv
      <4>3. "queues" \in DOMAIN draft' /\ draft'.queues # {}
        BY <4>1, <4>2
      <4>4. Unasked'
        BY <4>3 DEF Unasked
      <4>5. QED
        BY <1>2, <3>1, <3>2, <4>3, <4>4, HistoryStays DEF DraftInv
    <3>4. CASE ~Malformed
      <4>1. draft' = draft
        BY <2>4, <3>4 DEF ValidateDraftItem
      <4>2. Unasked /\ "queues" \in DOMAIN draft
        BY <1>2, <3>1 DEF DraftInv
      <4>3. Unasked' /\ ~Malformed'
        BY <3>1, <3>4, <4>1, <4>2, HistoryStays
          DEF Unasked, Malformed, NegativeInventory, Exceeds
      <4>4. QED
        BY <1>2, <3>1, <3>2, <4>1, <4>2, <4>3, HistoryStays DEF DraftInv
    <3>5. QED
      BY <3>3, <3>4
  <2>5. CASE UNCHANGED draftVars
    <3>1. UNCHANGED <<phase, config, source, levels, verdict, draft>>
      BY <2>5 DEF draftVars
    <3>2. LevelsFit => LevelsFit'
      BY <3>1, HistoryStays DEF LevelsFit
    <3>3. (Unasked => Unasked') /\ (Malformed' <=> Malformed)
      BY <3>1, HistoryStays DEF Unasked, Malformed, NegativeInventory, Exceeds
    <3>4. QED
      BY <1>2, <3>1, <3>2, <3>3, HistoryStays DEF DraftInv
  <2>6. QED
    BY <1>2, <2>1, <2>2, <2>3, <2>4, <2>5 DEF DraftNext
<1>3. QED
  BY <1>1, <1>2, PTL DEF DraftSpec

\* An item no queue of the review lists can go into the working matrix as it stands, whatever
\* the row, the existing matrix and a valid configuration are.
THEOREM UnaskedIsReady == DraftSpec => []DraftIsReady
<1>1. DraftInv => DraftIsReady
  <2> SUFFICES ASSUME DraftInv, phase = "draft", draft.queues = {}
               PROVE  /\ source.named /\ source.stable /\ ~source.ambiguous
                      /\ source.price # None /\ Reliable(source.free) /\ Reliable(source.days)
                      /\ 0 <= draft.min /\ draft.min <= draft.target /\ draft.target <= draft.max
                      /\ KnownWeeks(LastWeeks(config.base)) >= config.enough
                      /\ \A q \in Range(LastWeeks(config.base)) : q = None \/ q >= 0
                      /\ Approved => /\ source.existing.min = levels.min
                                     /\ source.existing.target = levels.target
                      /\ draft.role \notin {"NEW", "EXIT", "UNCLASSIFIED"}
    BY DEF DraftIsReady
  <2>1. /\ source \in Cases /\ ValidConfig(config) /\ ~Malformed
        /\ LevelsFit /\ Unasked
    BY DEF DraftInv
  <2>2. /\ source.stable /\ ~source.ambiguous
        /\ source.price # None /\ source.free # None /\ source.days # None
        /\ levels.calculated
        /\ draft.min = levels.min /\ draft.target = levels.target /\ draft.max = levels.max
        /\ Approved => source.existing.min = levels.min /\ source.existing.target = levels.target
        /\ draft.role \notin {"NEW", "EXIT", "UNCLASSIFIED"}
    BY <2>1 DEF Unasked
  <2>3. /\ EnoughHistory /\ levels.weeks = SelectedWeeks
        /\ 0 <= levels.min /\ levels.min <= levels.target /\ levels.target <= levels.max
    BY <2>1, <2>2 DEF LevelsFit
  <2>4. source.named /\ ~NegativeInventory
    BY <2>1 DEF Malformed
  <2>5. Reliable(source.free) /\ Reliable(source.days)
    BY <2>1, <2>2, <2>4, DraftAssumption DEF Reliable, NegativeInventory
  <2>6. \A i \in DOMAIN SelectedWeeks : SelectedWeeks[i] = None \/ SelectedWeeks[i] >= 0
    <3>1. PICK weeks : weeks = SelectedWeeks
      OBVIOUS
    <3>2. weeks \in Seq(Weekly)
      BY <2>1, <2>3, <3>1, AveragesKnown
    <3>3. \A i \in DOMAIN weeks : ~(weeks[i] # None /\ weeks[i] < 0)
      BY <2>1, <2>3, <3>1 DEF Malformed
    <3>4. \A i \in DOMAIN weeks : weeks[i] = None \/ weeks[i] >= 0
      BY <3>2, <3>3 DEF Weekly
    <3>5. QED
      BY <3>1, <3>4
  <2>7. \A i \in DOMAIN LastWeeks(config.base) : \E j \in DOMAIN SelectedWeeks :
            LastWeeks(config.base)[i] = SelectedWeeks[j]
    <3>1. SelectedWeeks \in {LastWeeks(config.preferred), LastWeeks(config.base)}
      BY DEF SelectedWeeks
    <3>2. \A i \in DOMAIN LastWeeks(config.base) : \E j \in DOMAIN LastWeeks(config.preferred) :
              LastWeeks(config.base)[i] = LastWeeks(config.preferred)[j]
      BY <2>1, ConfigTyped, LastWeeksNested
    <3>3. QED
      BY <3>1, <3>2
  <2>8. \A q \in Range(LastWeeks(config.base)) : q = None \/ q >= 0
    BY <2>6, <2>7 DEF Range
  <2>9. QED
    BY <2>2, <2>3, <2>4, <2>5, <2>8 DEF EnoughHistory
<1>2. QED
  BY <1>1, DraftInvHolds, PTL
=============================================================================
