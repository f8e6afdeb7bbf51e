------------------------------ MODULE ApprovedRules ------------------------------
(***************************************************************************)
(* The owner's approved rules in a calculation: which rule names which row *)
(* of the report, what the rule does to the row, the totals with and       *)
(* without the rules, and the result that is published or, when anything   *)
(* fails, the calculation as it was.  And the forecast the owner gets      *)
(* before he switches a rule: it takes the rules back out of a published   *)
(* result and calculates again with the rule as it is and as it would be.  *)
(***************************************************************************)
EXTENDS Absent, Integers, Sequences, FiniteSetsExt, Functions

CONSTANTS
    Calculations, \* lines: row -> its keys, decision, approved quantity and price; the money
                  \* available after expenses, the reserve to keep, the surplus that needs no
                  \* warning
    Registries    \* rule -> status, the key it is about, decision, whether it is well-formed

Quantities == Nat \union {None}
Recommendations == {"BUY", "SKIP", "DEFER", "UNKNOWN"}

\* A row as the agent leaves it, without a remark about a rule.
CalculatedLines ==
    [decision : STRING, approved : Quantities, price : Nat \union {None}, keys : Seq(STRING),
     application : {None}]
OwnerRules ==
    [status : {"ACTIVE", "DISABLED"}, key : STRING, decision : {"BUY", "SKIP", "DEFER"},
     valid : BOOLEAN]
Remarks ==
    [status : {"BLOCKED_CONFLICT", "BLOCKED_UNKNOWN_RECOMMENDATION", "UNCHANGED", "MANUAL_REVIEW",
               "APPLIED"},
     recommendation : Recommendations, quantity : Nat, agentQuantity : Nat]

\* The place of a row, which its report gives it, is not the article or barcode of another.
ASSUME RulesAssumption ==
    /\ None \notin Int \union Remarks
    /\ \A c \in Calculations :
          /\ c.lines \in [DOMAIN c.lines -> CalculatedLines]
          /\ \A r, o \in DOMAIN c.lines : r \notin Range(c.lines[o].keys)
    /\ \A g \in Registries : g \in [DOMAIN g -> OwnerRules]

VARIABLES
    calculation,
    mode,      \* APPROVED_RULE_MODES
    rules,
    result,    \* row -> line as published, None before the run
    ranWith,   \* the rules as the run found them
    forecast   \* what the owner was shown of the rules as they are, None otherwise

ruleVars == <<calculation, mode, rules, result, ranWith, forecast>>

RulesInit ==
    /\ calculation \in Calculations
    /\ mode \in {"OFF", "PREVIEW", "APPLY_SAFE"}
    /\ rules \in Registries
    /\ result = None /\ ranWith = None /\ forecast = None

-----------------------------------------------------------------------------
(* The rule of a row.                                                       *)

\* Article and barcode, in this order; one that several rows share names none of them, and a
\* row without a key of its own is known by its place in this report only.
StableItemKey(lines, r) ==
    LET keys == lines[r].keys
        own == {n \in DOMAIN keys : \A o \in DOMAIN lines \ {r} : keys[n] \notin Range(lines[o].keys)} IN
    IF own = {} THEN r ELSE keys[Min(own)]

\* What the active rules say of a row; malformed ones are left out.
Decisions(lines, registry, r) ==
    {registry[i].decision : i \in {j \in DOMAIN registry :
        /\ registry[j].status = "ACTIVE" /\ registry[j].valid
        /\ registry[j].key = StableItemKey(lines, r)}}

\* normalizeAgentRecommendation
Recommendation(line) ==
    CASE line.decision \in {"must_buy", "recommended"} -> "BUY"
      [] line.decision = "do_not_buy" -> "SKIP"
      [] line.decision = "postpone" -> "DEFER"
      [] OTHER -> "UNKNOWN"

AgentQuantity(line) == IF line.approved = None THEN 0 ELSE line.approved

Application(line, status, recommendation, quantity) ==
    [status |-> status, recommendation |-> recommendation, quantity |-> quantity,
     agentQuantity |-> AgentQuantity(line)]

\* A mistaken engine: the row is tried with one of the decisions, whether or not they agree.
ApplyFirstRule(line, decisions) ==
    LET decision == CHOOSE d \in decisions : TRUE
        agent == Recommendation(line)
        Kept(status) == Application(line, status, agent, AgentQuantity(line)) IN
    CASE agent = "UNKNOWN" -> Kept("BLOCKED_UNKNOWN_RECOMMENDATION")
      [] agent # "UNKNOWN" /\ decision = agent -> Kept("UNCHANGED")
      [] agent # "UNKNOWN" /\ decision # agent /\ decision = "BUY" -> Kept("MANUAL_REVIEW")
      [] OTHER -> Application(line, "APPLIED", decision, 0)

\* Rules that contradict each other do nothing, nor does a rule about a row the agent has no
\* opinion on; a purchase is left to the owner; what remains takes the quantity away.
ApplyApprovedRule(line, decisions) ==
    LET decision == CHOOSE d \in decisions : TRUE
        agent == Recommendation(line)
        Kept(status) == Application(line, status, agent, AgentQuantity(line)) IN
    IF Cardinality(decisions) > 1 THEN Kept("BLOCKED_CONFLICT")
    ELSE CASE agent = "UNKNOWN" -> Kept("BLOCKED_UNKNOWN_RECOMMENDATION")
           [] agent # "UNKNOWN" /\ decision = agent -> Kept("UNCHANGED")
           [] agent # "UNKNOWN" /\ decision # agent /\ decision = "BUY" -> Kept("MANUAL_REVIEW")
           [] OTHER -> Application(line, "APPLIED", decision, 0)

\* The rows some active rule is about, with what becomes of them.
Applications(lines, registry) ==
    [r \in {s \in DOMAIN lines : Decisions(lines, registry, s) # {}} |->
        ApplyApprovedRule(lines[r], Decisions(lines, registry, r))]

-----------------------------------------------------------------------------
(* The totals.                                                              *)

\* Each row as the applications leave it.
Outcome(lines, applications) ==
    [r \in DOMAIN lines |->
        IF r \in DOMAIN applications
        THEN [recommendation |-> applications[r].recommendation,
              quantity |-> applications[r].quantity]
        ELSE [recommendation |-> Recommendation(lines[r]), quantity |-> AgentQuantity(lines[r])]]

FinancialStatus(available, reserve, warning) ==
    IF available < 0 THEN "REJECTED"
    ELSE IF available - reserve < 0 THEN "MANUAL_APPROVAL_REQUIRED"
    ELSE IF available - reserve < warning THEN "APPROVED_WITH_WARNING" ELSE "APPROVED"

\* None unless all that is ordered is recommended and has a price and the money is known.
Recalculate(money, lines, outcome) ==
    LET ordered == {r \in DOMAIN lines : outcome[r].quantity > 0}
        amount == SumFunction([r \in ordered |-> outcome[r].quantity * lines[r].price])
        status == FinancialStatus(money.available - amount, money.reserve, money.warning) IN
    IF \/ \E r \in ordered : outcome[r].recommendation # "BUY" \/ lines[r].price = None
       \/ money.available = None
    THEN None
    ELSE [amount |-> amount, units |-> SumFunction([r \in ordered |-> outcome[r].quantity]),
          status |-> status, permitted |-> status \in {"APPROVED", "APPROVED_WITH_WARNING"}]

-----------------------------------------------------------------------------
(* A run.                                                                   *)

NoRules == [r \in {} |-> None]

\* The totals before and after the rules; None when either cannot be had.
Report(money, lines, registry) ==
    LET applications == Applications(lines, registry)
        before == Recalculate(money, lines, Outcome(lines, NoRules))
        after == Recalculate(money, lines, Outcome(lines, applications)) IN
    IF before = None \/ after = None THEN None
    ELSE [applications |-> applications, before |-> before, after |-> after]

\* The lines with their applications, if one of them changes anything.
PublishAppliedResult(lines, applications) ==
    IF ~\E r \in DOMAIN applications : applications[r].status = "APPLIED" THEN lines
    ELSE [r \in DOMAIN lines |->
            IF r \notin DOMAIN applications THEN lines[r]
            ELSE [lines[r] EXCEPT
                    !.approved = IF applications[r].status = "APPLIED" THEN applications[r].quantity
                                 ELSE @,
                    !.application = applications[r]]]

\* What a run with these rules puts in the report's place.
Published(lines, registry) == PublishAppliedResult(lines, Applications(lines, registry))

\* A run of the pipeline.  Reading the registry or matching its rules may fail, and then, or
\* when the totals cannot be had, the calculation is published as it is.
ProcessApprovedRules ==
    /\ result = None
    /\ ranWith' = rules
    /\ LET lines == calculation.lines IN
       \/ result' = lines
       \/ /\ mode = "APPLY_SAFE" /\ Report(calculation, lines, rules) # None
          /\ result' = Published(lines, rules)
    /\ UNCHANGED <<calculation, mode, rules, forecast>>

-----------------------------------------------------------------------------
(* The forecast.                                                            *)

\* A mistaken restoration: only the remark about the rule is taken off.
RestoreRemarksOnly(lines) == [r \in DOMAIN lines |-> [lines[r] EXCEPT !.application = None]]

\* The quantities the rules took away come back.
RestoreBaselineAgentResult(lines) ==
    [r \in DOMAIN lines |->
        IF lines[r].application = None THEN lines[r]
        ELSE [lines[r] EXCEPT !.approved = lines[r].application.agentQuantity,
                              !.application = None]]

Toggled(status) == IF status = "ACTIVE" THEN "DISABLED" ELSE "ACTIVE"
WithRule(i) == [rules EXCEPT ![i].status = Toggled(@)]

\* What the owner is told of a calculation with these rules.
Shown(money, lines, registry) ==
    LET report == Report(money, lines, registry) IN
    [rows |-> Outcome(lines, report.applications), totals |-> report.after]

\* Both calculations must succeed, whatever the mode of the run was.
PreviewRuleStatusChange(i) ==
    /\ result # None
    /\ LET lines == RestoreBaselineAgentResult(result) IN
       /\ Report(calculation, lines, rules) # None
       /\ Report(calculation, lines, WithRule(i)) # None
       /\ forecast' = [rule |-> i, before |-> Shown(calculation, lines, rules),
                       after |-> Shown(calculation, lines, WithRule(i)),
                       permitted |-> Report(calculation, lines, WithRule(i)).after.permitted]
    /\ UNCHANGED <<calculation, mode, rules, result, ranWith>>

\* A rule is switched; a forecast made before no longer counts.
SwitchRule(i) ==
    /\ result # None
    /\ rules' = WithRule(i)
    /\ forecast' = None
    /\ UNCHANGED <<calculation, mode, result, ranWith>>

RulesNext ==
    \/ ProcessApprovedRules
    \/ \E i \in DOMAIN rules : PreviewRuleStatusChange(i) \/ SwitchRule(i)

RulesSpec == RulesInit /\ [][RulesNext]_ruleVars

-----------------------------------------------------------------------------
(* Properties.                                                              *)

RulesTypeOK ==
    /\ calculation \in Calculations
    /\ mode \in {"OFF", "PREVIEW", "APPLY_SAFE"}
    /\ rules \in [DOMAIN rules -> OwnerRules]
    /\ result # None =>
          /\ DOMAIN result = DOMAIN calculation.lines
          /\ ranWith \in [DOMAIN ranWith -> OwnerRules]
          /\ \A r \in DOMAIN result : /\ result[r].approved \in Quantities
                                     /\ result[r].application \in Remarks \union {None}
    /\ forecast # None =>
          /\ forecast.rule \in DOMAIN rules
          /\ \A r \in DOMAIN calculation.lines :
                {forecast.before.rows[r].quantity, forecast.after.rows[r].quantity} \subseteq Nat

\* Rules only take away: a published quantity is the agent's or, in the mode that applies
\* rules, zero; and then the rules that were active for the row by a key that is its own were
\* of one mind and against buying.
RulesOnlyTakeAway ==
    result # None =>
        \A r \in DOMAIN result :
            LET Names(k) == /\ k \in Range(calculation.lines[r].keys) \union {r}
                            /\ \A o \in DOMAIN result \ {r} : k \notin Range(calculation.lines[o].keys)
                about == {i \in DOMAIN ranWith : /\ ranWith[i].status = "ACTIVE"
                                                 /\ ranWith[i].valid /\ Names(ranWith[i].key)} IN
            result[r].approved # calculation.lines[r].approved =>
                /\ mode = "APPLY_SAFE" /\ result[r].approved = 0
                /\ \E against \in {"SKIP", "DEFER"}, i \in about :
                      \A j \in about : ranWith[j].key = ranWith[i].key =>
                                         ranWith[j].decision = against

\* The forecast is of the calculation as the agent made it, not as earlier rules left it: it
\* shows the totals and, of each row, the quantity that a run with those rules would publish,
\* and calls the order permitted only if it leaves the reserve.
ForecastComesTrue ==
    forecast # None =>
        LET lines == calculation.lines
            ComesTrue(shown, registry) ==
                /\ shown = Shown(calculation, lines, registry)
                /\ \A r \in DOMAIN lines :
                      shown.rows[r].quantity = AgentQuantity(Published(lines, registry)[r]) IN
        /\ ComesTrue(forecast.before, rules)
        /\ ComesTrue(forecast.after, WithRule(forecast.rule))
        /\ forecast.permitted =>
              ~(calculation.available - forecast.after.totals.amount - calculation.reserve < 0)
=============================================================================
