------------------------------ MODULE ReviewTriage ------------------------------
(***************************************************************************)
(* The triage of a published run's rows: which row is a question for the   *)
(* owner, which one waits for data, and how the questions are packed.      *)
(* A position is what the triage reads of a row, drawn from four files of  *)
(* the run (working order, matrix draft, owner review, adapter report):    *)
(*   workflow  pending (pending_manual_review), approved, postponed or     *)
(*             no_order                                                    *)
(*   blocker   why a pending row was not resolved                          *)
(*   listed    the matrix builder put the row on its review list           *)
(*   problems  defects of the row's data                                   *)
(*   signals   business signals of the draft and of the owner review       *)
(*   standing  an owner decision applied before: None, "policy", "order"   *)
(*   facts     the remaining yes-or-no readings                            *)
(***************************************************************************)
EXTENDS Absent, Integers, Sequences, FiniteSets, TLC

Blockers ==
    {"unmatched_product_no_assortment_policy", "ambiguous_assortment_match",
     "incomplete_demand_data", "sales_spike_quantity_requires_review",
     "short_long_trend_conflict", "abc_xyz_risk", "free_stock_unknown"}

Problems ==
    {"stock", "supplier", "cycle", "duplicate", "ambiguous", "unlinked", "no_article",
     "new", "spike"}

ReviewSignals == {"commercial_review", "large_inventory_review"}

StrongSignals ==
    {"approved_policy_conflict", "owner_decision_conflict", "policy_requires_confirmation",
     "owner_decision_force_review", "exit_candidate", "strategic_exit_risk",
     "exit_blocked_approved_policy", "critical_inventory_value", "owner_rejected_exit"}

QuantityIndependent ==
    {"exit_candidate", "owner_rejected_exit", "strategic_exit_risk",
     "exit_blocked_approved_policy"}

\* sized: some quantity was calculated; zeroed: none of it was approved; worth: the line is
\* above the small-line limit; pressure: the financial controller reported a limit; verified:
\* the matrix item was changed in a verified session; recommends, covered, brisk, stocked,
\* limits: the readings of the packages.
Facts ==
    {"sized", "zeroed", "worth", "pressure", "core", "manual", "rollout", "verified",
     "exit_confirmed", "recommends", "covered", "brisk", "stocked", "limits"}

\* The outcome of the first rule that applies, of a list that ends with a rule for all.
FirstOf(rules) ==
    rules[CHOOSE i \in DOMAIN rules : rules[i][1] /\ \A j \in 1 .. i - 1 : ~rules[j][1]][2]

Pending(p) == p.workflow = "pending"

\* A pending row off the review list has no draft and no owner review.
SignalsOf(p) == IF p.listed THEN p.signals ELSE {}
ProblemsOf(p) == IF p.listed THEN p.problems ELSE p.problems \ {"ambiguous"}
Has(p, problem) == problem \in ProblemsOf(p)

-----------------------------------------------------------------------------
(* The owner review of the matrix builder.                                  *)

\* A decision applied before silences the row, unless a conflict or a forced review is on it.
Settled(p) ==
    /\ p.standing # None
    /\ p.signals \intersect {"owner_decision_conflict", "owner_decision_force_review"} = {}

\* Priority P1 or P2.
ReviewAsks(p) ==
    /\ ~Settled(p)
    /\ p.signals \intersect
         ({"approved_policy_conflict", "owner_decision_conflict", "critical_inventory_value",
           "strategic_exit_risk", "exit_candidate", "owner_decision_force_review"}
            \union ReviewSignals) # {}

\* A wanted line of some worth of which nothing is approved.
Cut(p) == {"sized", "zeroed", "worth"} \subseteq p.facts

ActionClass(p) ==
    FirstOf(<<
      <<p.standing = "order", "RESOLVED">>,
      <<p.workflow = "postponed", "POSTPONED">>,
      <<\/ Cut(p)
        \/ p.signals \intersect {"approved_policy_conflict", "owner_decision_conflict",
                                 "owner_decision_force_review"} # {}
        \/ "ambiguous" \in p.problems
        \/ "core" \in p.facts /\ "stock" \in p.problems
        \/ "sized" \in p.facts /\ "zeroed" \notin p.facts /\ ReviewAsks(p),
        "OWNER_ACTION_REQUIRED">>,
      <<p.workflow = "approved" /\ "sized" \in p.facts, "RESOLVED">>,
      <<"exit_candidate" \in p.signals, "SAFE_NO_ORDER">>,
      <<"large_inventory_review" \in p.signals \/ "unlinked" \in p.problems, "WARNING_ONLY">>,
      <<TRUE, "SAFE_NO_ORDER">> >>)

\* The rows the triage looks at: the pending ones and the listed ones that are explained.
Candidate(p) ==
    \/ Pending(p)
    \/ p.listed /\ ActionClass(p) \in {"SAFE_NO_ORDER", "POSTPONED", "RESOLVED"}

-----------------------------------------------------------------------------
(* Data and linkage problems.                                               *)

StockIsUnknown(p) == Has(p, "stock") \/ p.blocker = "free_stock_unknown"
MissingSupplierData(p) == ProblemsOf(p) \intersect {"supplier", "cycle"} # {}
CanonicalItem(p) == ~Has(p, "no_article")
Verified(p) == CanonicalItem(p) /\ "verified" \in p.facts
IsNewSku(p) == Has(p, "new") \/ "rollout" \in p.facts

\* A pending row of a risky class is never a data problem; for some other blockers it always is.
HasDataOrLinkageProblem(p) ==
    IF Pending(p) /\ p.blocker = "abc_xyz_risk" THEN FALSE
    ELSE \/ /\ Pending(p)
            /\ p.blocker \in {"unmatched_product_no_assortment_policy",
                              "ambiguous_assortment_match", "free_stock_unknown"}
         \/ StockIsUnknown(p)
         \/ MissingSupplierData(p)
         \/ ProblemsOf(p) \intersect {"duplicate", "ambiguous", "unlinked"} # {}

-----------------------------------------------------------------------------
(* Is there a decision to make, and can it be made now?                     *)

ReviewDriven(p) == SignalsOf(p) \intersect ReviewSignals

ReviewedAction(p) ==
    /\ p.listed /\ ReviewAsks(p)
    /\ ReviewDriven(p) # {} /\ ActionClass(p) = "OWNER_ACTION_REQUIRED"

\* A verified policy stays in force when a conflict with it is all there is on a clean row.
PolicyConflictAutoResolved(p) ==
    LET others == SignalsOf(p) \ {"approved_policy_conflict"} IN
    /\ "approved_policy_conflict" \in SignalsOf(p)
    /\ Verified(p)
    /\ ~HasDataOrLinkageProblem(p)
    /\ others \intersect StrongSignals = {} /\ ~ReviewedAction(p)

OwnerDecisionAssessment(p) ==
    \/ /\ ~(p.listed /\ Settled(p))
       /\ SignalsOf(p) \intersect StrongSignals # {}
       /\ ~(SignalsOf(p) = {"approved_policy_conflict"} /\ HasDataOrLinkageProblem(p))
       /\ ~PolicyConflictAutoResolved(p)
    \/ ReviewedAction(p)

OwnerDecisionBlocker(p) ==
    IF HasDataOrLinkageProblem(p) THEN "data_or_linkage"
    ELSE IF /\ ~(SignalsOf(p) # {} /\ SignalsOf(p) \subseteq QuantityIndependent)
            /\ "sized" \notin p.facts
    THEN "missing_recommended_quantity"
    ELSE None

FinancialLimitSignal(p) ==
    /\ "pressure" \in p.facts /\ Cut(p)
    /\ "exit_candidate" \notin SignalsOf(p)
    /\ p.workflow # "no_order"

NeedsDecision(p) ==
    \/ p.facts \intersect {"sized", "manual"} # {}
    \/ ReviewDriven(p) # {}
    \/ p.listed /\ ReviewAsks(p)
    \/ Pending(p)

\* The working order's own reason settles the category of a pending row.
AuthoritativeBlocker(p) ==
    CASE ~Pending(p) -> None
      [] p.blocker = "unmatched_product_no_assortment_policy" -> "MATRIX_UNMATCHED"
      [] p.blocker = "ambiguous_assortment_match" ->
            IF Has(p, "duplicate") THEN "DUPLICATE_SKU" ELSE "DATA_ERROR_IDENTITY"
      [] p.blocker = "incomplete_demand_data" /\ Has(p, "cycle") -> "SUPPLIER_DATA_MISSING"
      [] p.blocker = "sales_spike_quantity_requires_review" -> "SALES_SPIKE_REVIEW"
      [] p.blocker \in {"short_long_trend_conflict", "abc_xyz_risk"} -> "OWNER_DECISION_REQUIRED"
      [] OTHER -> None

Category(p) ==
    LET needed == NeedsDecision(p) IN
    FirstOf(<<
      <<AuthoritativeBlocker(p) # None, AuthoritativeBlocker(p)>>,
      <<StockIsUnknown(p) /\ needed, "DATA_ERROR_UNKNOWN_STOCK">>,
      <<MissingSupplierData(p) /\ needed, "SUPPLIER_DATA_MISSING">>,
      <<Has(p, "duplicate"), "DUPLICATE_SKU">>,
      <<Has(p, "ambiguous"), "DATA_ERROR_IDENTITY">>,
      <<Has(p, "unlinked") /\ needed /\ ~IsNewSku(p), "MATRIX_UNMATCHED">>,
      <<IsNewSku(p), "NEW_SKU_REVIEW">>,
      <<Has(p, "spike") /\ needed, "SALES_SPIKE_REVIEW">>,
      <<OwnerDecisionAssessment(p), "OWNER_DECISION_REQUIRED">>,
      <<FinancialLimitSignal(p), "FINANCIAL_LIMIT_REVIEW">>,
      <<TRUE, "READY_WITH_EXPLANATION">> >>)

CategorySection ==
    [c \in {"DATA_ERROR_UNKNOWN_STOCK", "DATA_ERROR_IDENTITY", "SUPPLIER_DATA_MISSING",
            "DUPLICATE_SKU", "SALES_SPIKE_REVIEW"} |-> "data_problems"]
    @@ [c \in {"MATRIX_UNMATCHED", "NEW_SKU_REVIEW"} |-> "matrix_gaps"]
    @@ [c \in {"FINANCIAL_LIMIT_REVIEW", "OWNER_DECISION_REQUIRED"} |-> "owner_decisions"]
    @@ ("READY_WITH_EXPLANATION" :> "ready")

\* What the triage says of a row: whether the owner must decide, whether he can decide now,
\* and the section of the page the row is shown in.
TriageItem(p) ==
    LET category == Category(p)
        required == OwnerDecisionAssessment(p) \/ CategorySection[category] = "owner_decisions"
        blocker == IF required THEN OwnerDecisionBlocker(p) ELSE None IN
    [category |-> category,
     required |-> required,
     status |-> IF ~required THEN None ELSE IF blocker = None THEN "ACTIVE" ELSE "BLOCKED_BY_DATA",
     section |-> IF ~required THEN CategorySection[category]
                 ELSE IF blocker = None THEN "owner_decisions"
                 ELSE IF CategorySection[category] = "matrix_gaps" THEN "matrix_gaps"
                 ELSE "data_problems"]

-----------------------------------------------------------------------------
(* The compaction: the questions of a run, given as a function from its     *)
(* rows to their positions.                                                 *)

\* The current queue holds the pending rows only.
Questions(run) == {r \in DOMAIN run : Pending(run[r]) /\ TriageItem(run[r]).required}

\* No article, an exit the matrix does not confirm, or an identity in doubt.
LinkageProblem(p) ==
    \/ Has(p, "no_article")
    \/ "exit_candidate" \in SignalsOf(p) /\ "exit_confirmed" \notin p.facts
    \/ Has(p, "duplicate") \/ Category(p) = "DATA_ERROR_IDENTITY"

Exclusions(run) == {r \in Questions(run) : LinkageProblem(run[r])}

Blocked(run) ==
    {r \in Questions(run) \ Exclusions(run) : TriageItem(run[r]).status # "ACTIVE"}

\* The rows the owner is asked about.
Business(run) == Questions(run) \ (Exclusions(run) \union Blocked(run))

PackageOf(p) ==
    LET signals == SignalsOf(p) IN
    CASE signals = {"approved_policy_conflict"} /\ ~Verified(p) -> "PKG1"
      [] signals = {"commercial_review"} /\ p.facts \intersect {"recommends", "covered", "brisk"}
                                             = {"recommends"} -> "PKG2"
      [] /\ signals = {"approved_policy_conflict", "large_inventory_review"}
         /\ Verified(p) /\ "stocked" \notin p.facts -> "PKG3"
      [] /\ signals = {"approved_policy_conflict", "commercial_review"}
         /\ Verified(p) /\ {"limits", "recommends"} \subseteq p.facts -> "PKG4"
      [] OTHER -> None

\* A package of one row is no package.
Packages(run) ==
    {members \in {{r \in Business(run) : PackageOf(run[r]) = id} :
                  id \in {"PKG1", "PKG2", "PKG3", "PKG4"}} : Cardinality(members) >= 2}

Individuals(run) == Business(run) \ UNION Packages(run)
=============================================================================
