------------------------------ MODULE MatrixDraft ------------------------------
(***************************************************************************)
(* The Matrix Builder: from a row of the supplier's report to an item of   *)
(* the draft assortment matrix.  The stock policy is calculated from the   *)
(* completed weeks, the role is classified, the draft item is put together *)
(* with the existing matrix and the queues of the owner's review, and the  *)
(* item is validated.  Averages are fractions; texts, provenance and the   *)
(* reasons that nobody reads again are left out.                           *)
(***************************************************************************)
EXTENDS Absent, Integers, FiniteSets, SequencesExt

CONSTANTS
    Configs,  \* configurations as written, valid or not
    Cases     \* a row of the report with the matrix item that matches it, see below

\* A row has
\*   sales      completed weeks, the oldest first; None for an unreadable cell, negative as read
\*   partial    the week under way has sales
\*   demand     the supplier's need or order is positive
\*   free, days, excess   the stock, its days and the surplus, None for a blank cell
\*   abc, xyz   the classes, None when missing
\*   reported   the report gives a cumulative quantity sold
\*   stable     there is an article, a barcode or an internal number
\*   ambiguous  the report or the matrix has it for several rows
\*   named, price, strategic (some strategic group matches)
\*   shelves    availability per week: "none", "enough" or "short" of the horizon
\*   rule       the one exact rule of the configuration for it, None or role and priority
\*   rollout    units the working order recommends; testing: its first rollout still waits
\*   existing   the item of the working matrix, None or priority, min, target, allowZero, status

ASSUME DraftAssumption ==
    /\ None \notin Int
    /\ \A s \in Cases : /\ s.sales \in Seq(Int \union {None})
                        /\ {s.free, s.days} \subseteq Int \union {None}

VARIABLES phase, config, source, levels, verdict, draft

draftVars == <<phase, config, source, levels, verdict, draft>>

DraftGoes(to) == phase' = to
MoreOf(a, b) == IF a > b THEN a ELSE b
IsPositive(q) == q # None /\ q > 0

\* Fractions: a whole number divided by a positive one.
Fraction(n, d) == [num |-> n, den |-> d]
Times(a, b) == Fraction(a.num * b.num, a.den * b.den)
AtLeast(a, b) == a.num * b.den >= b.num * a.den
Greater(a, b) == IF AtLeast(a, b) THEN a ELSE b
Ceil(a) == (a.num + a.den - 1) \div a.den

-----------------------------------------------------------------------------
(* The configuration.                                                       *)

Ratio(f) == f.num \in Nat /\ f.den \in Nat \ {0}

\* What the builder accepts; otherwise it stops before it reads a row.  Units, weeks of cover
\* and the lead time are whole.
ValidConfig(c) ==
    /\ {c.base, c.preferred, c.short, c.enough, c.coreWeeks, c.horizon, c.lead} \subseteq Nat \ {0}
    /\ c.base <= c.preferred /\ c.enough <= c.base /\ c.short <= c.base
    /\ {c.targetCover, c.maximumCover, c.shelf} \subseteq Nat
    /\ Ratio(c.shelfCover) /\ Ratio(c.growthCap) /\ c.growthCap.num > 0
    /\ Ratio(c.coreActive) /\ AtLeast(Fraction(1, 1), c.coreActive)
    /\ c.targetCover <= c.maximumCover
    /\ 0 < c.valueReview /\ c.valueReview <= c.valueCritical

\* A row as the adapter gives it, with a valid configuration.
DraftInit ==
    /\ phase = "row"
    /\ config \in {c \in Configs : ValidConfig(c)}
    /\ source \in Cases
    /\ levels = None /\ verdict = None /\ draft = None

-----------------------------------------------------------------------------
(* The stock policy.                                                        *)

Reliable(q) == q # None /\ q >= 0
LastWeeks(n) == SubSeq(source.sales, MoreOf(1, Len(source.sales) - n + 1), Len(source.sales))

\* The readable weeks among some and how many of them have sales.
Readings(weeks) == {i \in DOMAIN weeks : Reliable(weeks[i])}
KnownWeeks(weeks) == Cardinality(Readings(weeks))
Active(weeks) == Cardinality({i \in Readings(weeks) : weeks[i] > 0})
SalesTotal(weeks) == SumFunctionOnSet(weeks, Readings(weeks))

Average(weeks) == IF KnownWeeks(weeks) = 0 THEN None ELSE Fraction(SalesTotal(weeks), KnownWeeks(weeks))

\* The squares of the deviations from the average, each of them times the number of readings.
Deviations(weeks) ==
    LET off(i) == KnownWeeks(weeks) * weeks[i] - SalesTotal(weeks) IN
    SumFunction([i \in Readings(weeks) |-> off(i) * off(i)])

\* The standard deviation times the root of the lead time, rounded up; None for one reading.
SafetyStock(weeks) ==
    LET squares == Deviations(weeks) * config.lead
        covers(s) == s * s * KnownWeeks(weeks) * KnownWeeks(weeks) * KnownWeeks(weeks) >= squares IN
    IF KnownWeeks(weeks) < 2 THEN None
    ELSE CHOOSE s \in 0 .. squares : covers(s) /\ (s > 0 => ~covers(s - 1))

\* The preferred window when every week of it is readable, otherwise the base window.
SelectedWeeks ==
    IF KnownWeeks(LastWeeks(config.preferred)) >= config.preferred
    THEN LastWeeks(config.preferred) ELSE LastWeeks(config.base)

LongAverage == Average(source.sales)
ShortAverage ==
    LET short == Average(LastWeeks(config.short)) IN
    IF short = None THEN Average(SelectedWeeks) ELSE short
GrowthLimit == Times(LongAverage, config.growthCap)
GrowthCapped == LongAverage.num > 0 /\ ~AtLeast(GrowthLimit, ShortAverage)

\* The recent weeks may raise the average up to a multiple of the long one.
EffectiveAverage ==
    IF GrowthCapped THEN GrowthLimit ELSE Greater(Average(SelectedWeeks), ShortAverage)

\* Too little history leaves every level unknown, never zero.
EmptyPolicy ==
    [calculated |-> FALSE, min |-> None, target |-> None, max |-> None, average |-> None,
     capped |-> FALSE, used |-> 0, active |-> 0, long |-> LongAverage,
     weeks |-> LastWeeks(config.preferred)]

StockLevels ==
    LET average == EffectiveAverage
        idle == average.num = 0
        safety == IF idle THEN 0 ELSE SafetyStock(SelectedWeeks)
        cover(weeks) == Ceil(Times(average, Fraction(weeks, 1))) + safety
        min == IF idle THEN 0 ELSE MoreOf(config.shelf, Ceil(Times(average, config.shelfCover)))
        target == MoreOf(min, cover(config.targetCover)) IN
    [calculated |-> TRUE, min |-> min, target |-> target,
     max |-> MoreOf(target, cover(config.maximumCover)), average |-> average,
     capped |-> GrowthCapped, used |-> KnownWeeks(SelectedWeeks),
     active |-> Active(SelectedWeeks), long |-> LongAverage, weeks |-> SelectedWeeks]

EnoughHistory == KnownWeeks(LastWeeks(config.base)) >= config.enough

CalculateStockPolicy ==
    /\ phase = "row" /\ DraftGoes("policy")
    /\ levels' = IF EnoughHistory /\ (EffectiveAverage.num = 0 \/ SafetyStock(SelectedWeeks) # None)
                 THEN StockLevels ELSE EmptyPolicy
    /\ UNCHANGED <<config, source, verdict, draft>>

-----------------------------------------------------------------------------
(* The role.                                                                *)

Approved == source.existing # None /\ source.existing.status = "approved"

ExitSufficient == KnownWeeks(LastWeeks(config.horizon)) >= config.horizon
NoSalesInHorizon == ExitSufficient /\ Active(LastWeeks(config.horizon)) = 0

\* Why a product without sales is not let go; the switches of the exit policy are on.
ExitBlockers ==
    {b \in {"exit_insufficient_history", "exit_blocked_recent_sale",
            "exit_blocked_current_week_sale", "exit_blocked_supplier_demand",
            "exit_blocked_strategic_policy", "exit_blocked_approved_policy"} :
       CASE b = "exit_insufficient_history" -> ~ExitSufficient \/ source.shelves = "short"
         [] b = "exit_blocked_recent_sale" -> ExitSufficient /\ ~NoSalesInHorizon
         [] b = "exit_blocked_current_week_sale" -> source.partial
         [] b = "exit_blocked_supplier_demand" -> source.demand
         [] b = "exit_blocked_strategic_policy" -> source.strategic
         [] b = "exit_blocked_approved_policy" ->
              Approved /\ source.existing.priority \in {"critical", "important"}}

LongEnough == levels.used >= config.coreWeeks
AverageStrong == levels.long # None /\ AtLeast(levels.long, config.coreAverage)
ActiveEnough ==
    levels.used > 0 /\ AtLeast(Fraction(levels.active, levels.used), config.coreActive)

CoreSignals ==
    /\ source.abc \in {"A", "B"} /\ source.xyz \in {"X", "Y"}
    /\ LongEnough /\ AverageStrong /\ ActiveEnough /\ ~IsPositive(source.excess)
ExitClasses == source.abc \in {"C", "D"} /\ source.xyz \in {"Z", "ZZ"}
ExitSignals ==
    /\ ExitClasses /\ NoSalesInHorizon /\ ExitBlockers = {}
    /\ IsPositive(source.free) \/ IsPositive(source.excess)
    /\ source.stable
PossibleNew ==
    source.existing = None /\ Len(source.sales) < config.coreWeeks /\ ~source.reported
OptionalSignals ==
    \/ source.abc \in {"C", "D"} \/ source.xyz \in {"Z", "ZZ"}
    \/ 0 < levels.active /\ levels.active < levels.used
    \/ IsPositive(source.excess) \/ source.strategic

Role ==
    IF source.rule # None THEN source.rule.role
    ELSE IF CoreSignals THEN "CORE"
    ELSE IF PossibleNew THEN "NEW"
    ELSE IF ExitSignals THEN "EXIT"
    ELSE IF OptionalSignals THEN "OPTIONAL" ELSE "UNCLASSIFIED"

\* The reasons that queues and reviews read; the blockers only count for a role below EXIT.
RoleReasons(role) ==
    IF source.rule # None THEN {}
    ELSE (IF source.strategic /\ ~(AverageStrong /\ ActiveEnough) THEN {"strategic_low_demand"}
          ELSE {})
         \union (IF levels.capped THEN {"short_long_trend_conflict"} ELSE {})
         \union (IF role = "NEW" THEN {"possible_new_product"} ELSE {})
         \union (IF role \in {"OPTIONAL", "UNCLASSIFIED"} /\ ExitClasses THEN ExitBlockers ELSE {})

Priority(role) ==
    IF Approved THEN source.existing.priority
    ELSE IF source.rule # None /\ source.rule.priority # None THEN source.rule.priority
    ELSE IF role = "CORE" \/ source.strategic THEN "important"
    ELSE IF role \in {"NEW", "EXIT", "UNCLASSIFIED"} THEN "review" ELSE "standard"

ClassifyRole ==
    /\ phase = "policy" /\ DraftGoes("role")
    /\ verdict' = [role |-> Role, reasons |-> RoleReasons(Role), priority |-> Priority(Role)]
    /\ UNCHANGED <<config, source, levels, draft>>

-----------------------------------------------------------------------------
(* The draft item.                                                          *)

\* An unknown level differs from nothing.
PoliciesDiffer ==
    /\ source.existing # None
    /\ \/ source.existing.priority # verdict.priority
       \/ levels.min # None /\ source.existing.min # levels.min
       \/ levels.target # None /\ source.existing.target # levels.target

\* What the owner has approved goes before what was calculated, the maximum apart.
EffectivePolicy ==
    [priority |-> verdict.priority,
     min |-> IF Approved THEN source.existing.min ELSE levels.min,
     target |-> IF Approved THEN source.existing.target ELSE levels.target,
     max |-> levels.max]

MissingInventory == source.free = None \/ source.days = None
NegativeInventory == \E q \in {source.free, source.days, source.excess} : q # None /\ q < 0

\* The stock as it would be after the order: too long, too dear or, without a rate, too much.
LargeInventory ==
    LET projected == (IF source.free = None THEN 0 ELSE source.free) + source.rollout
        target == EffectivePolicy.target
        moving == levels.calculated /\ levels.average.num > 0 IN
    {r \in {"large_inventory_days", "large_inventory_value", "large_inventory_units_fallback"} :
       CASE r = "large_inventory_days" ->
              /\ moving /\ IsPositive(target)
              /\ ~AtLeast(Times(Fraction(target, 1), config.largeDays), Fraction(projected, 1))
         [] r = "large_inventory_value" ->
              source.price # None /\ source.price * projected >= config.largeValue
         [] r = "large_inventory_units_fallback" -> ~moving /\ projected > config.largeUnits}

ValueLevel ==
    IF source.price = None \/ levels.max = None \/ source.price * levels.max < config.valueReview
    THEN None
    ELSE IF source.price * levels.max >= config.valueCritical THEN "critical" ELSE "review"

CommercialReview ==
    \/ verdict.role \in {"NEW", "UNCLASSIFIED"}
    \/ "strategic_low_demand" \in verdict.reasons
    \/ verdict.reasons \intersect (ExitBlockers \ {"exit_insufficient_history"}) # {}
    \/ levels.capped
    \/ source.existing # None /\ source.existing.status = "requires_confirmation"

\* The lists of the owner's review; an item may be on several.
Queues ==
    {q \in {"identity_remediation", "commercial_review", "exit_review", "policy_conflict",
            "large_inventory_review", "insufficient_data", "test_awaiting_introduction"} :
       CASE q = "identity_remediation" -> ~source.stable \/ source.ambiguous
         [] q = "commercial_review" -> CommercialReview
         [] q = "exit_review" -> verdict.role = "EXIT"
         [] q = "policy_conflict" -> Approved /\ PoliciesDiffer
         [] q = "large_inventory_review" -> LargeInventory # {} \/ ValueLevel # None
         [] q = "insufficient_data" ->
              ~levels.calculated \/ MissingInventory \/ source.price = None
         [] q = "test_awaiting_introduction" -> source.testing}

\* A stock, days or a surplus below zero counts as missing inventory too.
Reasons ==
    verdict.reasons \union LargeInventory
    \union {r \in {"ambiguous_identity", "missing_stable_identifier", "missing_inventory_data",
                   "missing_purchase_price", "approved_policy_conflict",
                   "large_inventory_value", "critical_inventory_value"} :
       CASE r = "large_inventory_value" -> ValueLevel = "review"
         [] r = "critical_inventory_value" -> ValueLevel = "critical"
         [] r = "ambiguous_identity" -> source.ambiguous
         [] r = "missing_stable_identifier" -> ~source.stable
         [] r = "missing_inventory_data" ->
              MissingInventory \/ NegativeInventory
         [] r = "missing_purchase_price" -> source.price = None
         [] r = "approved_policy_conflict" -> Approved /\ PoliciesDiffer}

BuildDraftItem ==
    /\ phase = "role" /\ DraftGoes("item")
    /\ draft' =
         [role |-> verdict.role, priority |-> EffectivePolicy.priority,
          min |-> EffectivePolicy.min, target |-> EffectivePolicy.target,
          max |-> EffectivePolicy.max,
          allowZero |-> IF Approved THEN source.existing.allowZero ELSE verdict.role = "EXIT",
          conflict |-> Approved /\ PoliciesDiffer,
          valueLevel |-> ValueLevel, queues |-> Queues, reasons |-> Reasons]
    /\ UNCHANGED <<config, source, levels, verdict>>

-----------------------------------------------------------------------------
(* The validation.                                                          *)

Exceeds(a, b) == a # None /\ b # None /\ a > b

\* Errors of one item leave the others as they are.
Malformed ==
    \/ ~source.named
    \/ \E q \in {draft.min, draft.target, draft.max} : q # None /\ q < 0
    \/ Exceeds(draft.min, draft.target) \/ Exceeds(draft.target, draft.max)
    \/ \E i \in DOMAIN levels.weeks : levels.weeks[i] # None /\ levels.weeks[i] < 0
    \/ NegativeInventory

\* A mistaken validation: errors are written to the item but put on no list.
ValidateWithoutQueue ==
    /\ phase = "item" /\ DraftGoes("draft")
    /\ UNCHANGED <<config, source, levels, verdict, draft>>

ValidateDraftItem ==
    /\ phase = "item" /\ DraftGoes("draft")
    /\ draft' = IF Malformed
                THEN [draft EXCEPT !.queues = @ \union {"insufficient_data"}] ELSE draft
    /\ UNCHANGED <<config, source, levels, verdict>>

DraftNext == CalculateStockPolicy \/ ClassifyRole \/ BuildDraftItem \/ ValidateDraftItem

DraftSpec == DraftInit /\ [][DraftNext]_draftVars

-----------------------------------------------------------------------------
(* Properties.                                                              *)

\* An item no queue of the review lists can go into the working matrix as it stands: it is one
\* product with a name and a known number, price and stock, its levels are known and in order,
\* rest on readable weeks and agree with what the owner has approved, and its role is settled.
DraftIsReady ==
    phase = "draft" /\ draft.queues = {} =>
        /\ source.named /\ source.stable /\ ~source.ambiguous
        /\ source.price # None /\ Reliable(source.free) /\ Reliable(source.days)
        /\ 0 <= draft.min /\ draft.min <= draft.target /\ draft.target <= draft.max
        /\ KnownWeeks(LastWeeks(config.base)) >= config.enough
        /\ \A q \in Range(LastWeeks(config.base)) : q = None \/ q >= 0
        /\ Approved => /\ source.existing.min = levels.min
                       /\ source.existing.target = levels.target
        /\ draft.role \notin {"NEW", "EXIT", "UNCLASSIFIED"}
=============================================================================
