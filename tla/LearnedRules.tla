------------------------------ MODULE LearnedRules ------------------------------
(***************************************************************************)
(* What the backend learns from the owner's decisions.  Every decision is  *)
(* an entry of the history; repeated ones are patterns (the analytics), a  *)
(* pattern has a confidence, and a pattern with its confidence is a        *)
(* candidate for a rule.  Only an ELIGIBLE candidate may become a rule     *)
(* (RuleMaterialization starts from there).                                *)
(*                                                                         *)
(* Candidates are computed anew from the history whenever they are asked   *)
(* for, so they are operators on the history h and the current day.        *)
(* A share is kept as a pair of numbers; scores are the code's, point for  *)
(* point.  The histories are those the program writes: every entry has an  *)
(* id of its own, a date and supported values, so there is no penalty for  *)
(* data quality; history is in the order of the dates.                     *)
(***************************************************************************)
EXTENDS Integers, FiniteSets, SequencesExt, Absent

CONSTANTS
    Cases,         \* the decisions that may be taken, records without their day
    Reasons,       \* the reason codes, in alphabetical order
    Leaps,         \* days that may pass at once
    MaxEntries,    \* bound: length of the history
    MaxDay         \* bound: the last day

VARIABLES
    history,       \* owner-decision-history.json, the oldest entry first
    today

vars == <<history, today>>

\* The owner's decisions, in alphabetical order, and those a rule may take.
OwnerDecisions ==
    <<"BUY", "BUY_NOW", "DEFER", "POSTPONE", "REMOVE_FROM_MATRIX", "REVIEW", "SKIP">>
Supported == {"BUY", "DEFER", "SKIP"}

PatternTypes == {"SAME_ITEM_SAME_DECISION", "SAME_ITEM_SAME_REASON",
                 "AGENT_DISAGREEMENT_REPEAT", "BRAND_DECISION_BIAS",
                 "SUPPLIER_DECISION_BIAS"}
DecisionTypes == {"SAME_ITEM_SAME_DECISION", "BRAND_DECISION_BIAS",
                  "SUPPLIER_DECISION_BIAS"}
BiasTypes == DecisionTypes \ {"SAME_ITEM_SAME_DECISION"}

-----------------------------------------------------------------------------
(* Patterns.                                                                *)

\* The field of an entry a pattern is about.
ScopeOf(type, e) ==
    CASE type = "BRAND_DECISION_BIAS" -> e.brand
      [] type = "SUPPLIER_DECISION_BIAS" -> e.supplier
      [] OTHER -> e.item

\* The agent's advice and the owner's decision can be compared.
Comparable(e) == e.agent \in Supported /\ e.decision \in Supported

\* Does the entry count for a pattern of this type, and for which value?
Counts(type, e) ==
    CASE type = "SAME_ITEM_SAME_REASON" -> e.reason # None
      [] type = "AGENT_DISAGREEMENT_REPEAT" -> Comparable(e)
      [] OTHER -> TRUE
ValueOf(type, e) == IF type = "SAME_ITEM_SAME_REASON" THEN e.reason ELSE e.decision

\* The alphabetical order of the values of one type.
Place(type, v) ==
    LET names == IF type = "SAME_ITEM_SAME_REASON" THEN Reasons ELSE OwnerDecisions
    IN  CHOOSE i \in DOMAIN names : names[i] = v

\* A mistaken Relevant: an item's pattern looks at its whole brand.
RelevantOfBrand(h, type, scope) ==
    LET brand == {h[k].brand : k \in {j \in DOMAIN h : ScopeOf(type, h[j]) = scope}}
    IN  {k \in DOMAIN h : h[k].brand \in brand /\ Counts(type, h[k])}

\* The entries of a scope that count for the type, as positions in the history.
Relevant(h, type, scope) ==
    {k \in DOMAIN h : ScopeOf(type, h[k]) = scope /\ Counts(type, h[k])}

Holders(h, type, es, v) == {k \in es : ValueOf(type, h[k]) = v}

\* dominant: the most frequent value, of equally frequent ones the first by name.
Dominant(h, type, es) ==
    LET values == {ValueOf(type, h[k]) : k \in es}
        Beats(v, w) ==
            LET n == Cardinality(Holders(h, type, es, v))
                m == Cardinality(Holders(h, type, es, w))
            IN  n > m \/ (n = m /\ Place(type, v) =< Place(type, w))
    IN  CHOOSE v \in values : \A w \in values : Beats(v, w)

\* The entries a pattern counts as its occurrences.  Every disagreement with the agent is
\* one, whichever way it goes (the most frequent way is only displayed).
Supporting(h, type, es) ==
    IF type = "AGENT_DISAGREEMENT_REPEAT" THEN {k \in es : h[k].agent # h[k].decision}
    ELSE Holders(h, type, es, Dominant(h, type, es))

\* repeatedItemPatterns, groupBiasPatterns: three occurrences of an item's value make a
\* pattern, three decisions on a brand or a supplier if three quarters of them agree.
IsPattern(p) ==
    IF p.type \in BiasTypes
    THEN Cardinality(p.all) >= 3 /\ 100 * Cardinality(p.support) >= 75 * Cardinality(p.all)
    ELSE Cardinality(p.support) >= 3

\* The patterns, each with the entries it rests on.
Patterns(h) ==
    LET Of(type, scope) ==
            LET es == Relevant(h, type, scope)
            IN  [type |-> type, scope |-> scope, all |-> es,
                 support |-> IF es = {} THEN {} ELSE Supporting(h, type, es)]
    IN  {p \in UNION {{Of(type, ScopeOf(type, e)) : e \in Range(h)} : type \in PatternTypes} :
            IsPattern(p)}

-----------------------------------------------------------------------------
(* Confidence.                                                              *)

\* The points of the first bound x does not exceed; the last points beyond all bounds.
Points(x, bounds, points) == points[1 + Cardinality({i \in DOMAIN bounds : x > bounds[i]})]

\* How many of these percentages the share n of m reaches, or exceeds.
Reached(n, m, percents) == Cardinality({t \in percents : 100 * n >= t * m})
Exceeded(n, m, percents) == Cardinality({t \in percents : 100 * n > t * m})

OccurrenceScore(n) == Points(n, <<1, 2, 3, 4, 6>>, <<0, 5, 10, 15, 20, 25>>)
DominanceScore(n, m) == 5 * Reached(n, m, {50, 60, 70, 80, 90})
RecencyScore(age) == Points(age, <<30, 60, 90, 180, 365>>, <<15, 12, 9, 5, 2, 0>>)
DurationScore(span) == Points(span, <<6, 29, 89, 179, 364>>, <<0, 3, 6, 9, 12, 15>>)
ContradictionPenalty(n, m) ==
    <<0, 3, 7, 12, 18, 24, 30>>[1 + Exceeded(n, m, {0, 10, 20, 30, 40, 50})]

\* Does the pattern hold in the earlier half of its entries and in the later one?
ConsistencyScore(p) ==
    LET n == Cardinality(p.all)
        early == {k \in p.all : 2 * Cardinality({j \in p.all : j < k}) < n}
        late == p.all \ early
        Both(percent) == \A part \in {early, late} :
            100 * Cardinality(part \cap p.support) >= percent * Cardinality(part)
        Seen(part) == part \cap p.support # {}
    IN  IF n =< 2 THEN 0
        ELSE IF Both(75) THEN 20
        ELSE IF Both(60) THEN 15
        ELSE 5 * Cardinality({part \in {early, late} : Seen(part)})

\* evaluatePatternConfidence, its components
Components(h, day, p) ==
    LET n == Cardinality(p.support)
        m == Cardinality(p.all)
        first == h[CHOOSE k \in p.support : \A j \in p.support : k =< j].day
        last == h[CHOOSE k \in p.support : \A j \in p.support : j =< k].day
    IN  [occurrence |-> OccurrenceScore(n), dominance |-> DominanceScore(n, m),
         consistency |-> ConsistencyScore(p), recency |-> RecencyScore(day - last),
         duration |-> IF n =< 1 THEN 0 ELSE DurationScore(last - first),
         contradiction |-> ContradictionPenalty(m - n, m)]

Clamped(x) == IF x < 0 THEN 0 ELSE IF x > 100 THEN 100 ELSE x

ConfidenceScore(c) ==
    Clamped(c.occurrence + c.dominance + c.consistency + c.recency + c.duration
            - c.contradiction)

Level(score) == Points(score, <<24, 49, 74>>, <<"LOW", "MEDIUM", "HIGH", "VERY_HIGH">>)

-----------------------------------------------------------------------------
(* Candidates.                                                              *)

\* Whole percents rounded half up, as Math.round does.
Rounded(n, m) == (2 * n + m) \div (2 * m)

\* proposedAction: the decision a rule would take, if it would take one.
ProposedDecision(h, p) ==
    LET v == ValueOf(p.type, h[CHOOSE k \in p.support : TRUE])
    IN  IF p.type \in DecisionTypes /\ v \in Supported THEN v ELSE None

\* rankingComponents, priorityScore: the order in which candidates are offered for review.
PriorityScore(h, p, c, decision) ==
    LET n == Cardinality(p.support)
        m == Cardinality(p.all)
        items == Cardinality({h[k].item : k \in p.all})
        impact == IF p.type \notin BiasTypes THEN 4
                  ELSE Points(items, <<0, 2, 5, 10, 20>>, <<0, 4, 8, 12, 16, 20>>)
        ambiguity == (IF decision = None THEN 8 ELSE 0)
                   + (IF p.type = "SAME_ITEM_SAME_DECISION" THEN 0 ELSE 4)
                   + (IF 100 * n < 75 * m THEN 4 ELSE 0)
                   + (IF Level(ConfidenceScore(c)) = "LOW" THEN 4 ELSE 0)
    IN  Clamped(Rounded(3 * ConfidenceScore(c), 10)
              + Points(n, <<1, 2, 3, 4, 6>>, <<0, 4, 7, 10, 13, 15>>)
              + Points(n, <<1, 2, 3, 4, 6>>, <<0, 3, 6, 9, 12, 15>>)
              + Rounded(10 * c.recency, 15) + Rounded(10 * c.consistency, 20) + impact
              - ambiguity - Rounded(20 * c.contradiction, 30))

Eligibility(p, c, decision) ==
    LET n == Cardinality(p.support)
        m == Cardinality(p.all)
    IN  IF p.type \in DecisionTypes /\ decision = None THEN "INELIGIBLE"
        ELSE IF /\ p.type = "SAME_ITEM_SAME_DECISION"
                /\ Level(ConfidenceScore(c)) \in {"HIGH", "VERY_HIGH"}
                /\ n >= 3 /\ 100 * n >= 75 * m /\ 100 * (m - n) =< 20 * m
             THEN "ELIGIBLE" ELSE "REVIEW_ONLY"

\* getCandidates, buildRuleCandidates: one candidate of every pattern.
Candidate(h, day, p) ==
    LET c == Components(h, day, p)
        decision == ProposedDecision(h, p)
    IN  [type |-> p.type, scope |-> p.scope, decision |-> decision,
         score |-> ConfidenceScore(c), priority |-> PriorityScore(h, p, c, decision),
         eligibility |-> Eligibility(p, c, decision)]

\* The rules the owner may be offered now.
Offered(h, day) ==
    {[item |-> c.scope, decision |-> c.decision] :
        c \in {x \in {Candidate(h, day, p) : p \in Patterns(h)} : x.eligibility = "ELIGIBLE"}}

-----------------------------------------------------------------------------
(* The history grows and ages.                                              *)

Init == history = <<>> /\ today = 0

Decide(e) ==
    /\ Len(history) < MaxEntries
    /\ history' = Append(history, [x \in DOMAIN e \union {"day"} |->
                                      IF x = "day" THEN today ELSE e[x]])
    /\ UNCHANGED today

DaysPass(n) ==
    /\ today + n =< MaxDay
    /\ today' = today + n
    /\ UNCHANGED history

Next == (\E e \in Cases : Decide(e)) \/ (\E n \in Leaps : DaysPass(n))

Spec == Init /\ [][Next]_vars

-----------------------------------------------------------------------------
(* A rule is offered because the owner has just decided so about that very item: a       *)
(* contrary decision, one about another item or the mere passing of time never makes a   *)
(* candidate eligible, and an agreeing decision never takes its eligibility away, though *)
(* seven scores and four thresholds, some rising and some falling with every entry, are  *)
(* added up (owner_learning_confidence.js, owner_rule_candidate_ranking.js).             *)
OfferedOnAgreement ==
    [][LET was == Offered(history, today)
           is == Offered(history', today')
           said == IF history' = history THEN {}
                   ELSE {[item |-> Last(history').item, decision |-> Last(history').decision]}
       IN  is \ was \subseteq said /\ (was \ is) \cap said = {}]_vars
=============================================================================
