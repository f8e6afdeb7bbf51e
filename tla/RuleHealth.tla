------------------------------- MODULE RuleHealth -------------------------------
(***************************************************************************)
(* What the backend tells the owner of the rules made of candidates.       *)
(* Every run in mode APPLY_SAFE appends to the effectiveness journal, for  *)
(* each ACTIVE rule, what the rule did.  Two verdicts are read from it:    *)
(* the effectiveness page classifies the rule, and the knowledge health    *)
(* page, which is given that class and the same numbers, lists findings    *)
(* by thresholds of its own.                                               *)
(*                                                                         *)
(* The journal is kept here as one sequence for every rule: the summaries  *)
(* read a rule's events alone, in the order of the runs, of which one      *)
(* takes place at a time and has a fingerprint of its own.  The other      *)
(* sources of the health page (materializations, lifecycle, switches) are  *)
(* readable and in agreement; OwnerRuleStatus and RuleMaterialization tell *)
(* when they are.                                                          *)
(***************************************************************************)
EXTENDS Integers, Sequences, FiniteSets, FiniteSetsExt

CONSTANTS
    Rules,         \* the rules: records of name, item, decision and priority
    Outcomes,      \* what a run may record of a rule: its effect, and whether priced
    Leaps,         \* days that may pass at once
    MaxEffects,    \* bound: events of all rules
    MaxSwitches,   \* bound: switches of all rules
    MaxDay         \* bound: the last day

ASSUME HealthAssumption == Leaps \subseteq Nat

VARIABLES
    ruleStatus,    \* of every rule in the registry, ACTIVE or DISABLED
    updated,       \* the day of its last switch, updatedAt
    events,        \* owner-rule-effectiveness.json, rule by rule
    switches, today

healthVars == <<ruleStatus, updated, events, switches, today>>

ActiveRules == {r \in Rules : ruleStatus[r] = "ACTIVE"}

\* Two active rules on one item that want different decisions.
Rivals(r, s) == /\ {r, s} \subseteq ActiveRules /\ r.item = s.item
                /\ r.decision # s.decision

\* Two rules that say the same, in whatever status.
Twins(r, s) == r # s /\ r.item = s.item /\ r.decision = s.decision

-----------------------------------------------------------------------------
(* Effectiveness: owner_rule_effectiveness.js.                              *)

With(s, effect) == {i \in DOMAIN s : s[i].effect = effect}

\* The first number above all of a set's.
Above(S) == IF S = {} THEN 1 ELSE Max(S) + 1

\* summarizeRuleEffectiveness
Summary(r) ==
    LET s == events[r]
        applied == With(s, "APPLIED_EFFECT")
    IN  [evaluated |-> Len(s), applied |-> Cardinality(applied),
         fallback |-> Cardinality(With(s, "FALLBACK_TO_BASELINE")),
         unpriced |-> Cardinality({i \in DOMAIN s : ~s[i].priced}),
         idle |-> Len(s) + 1 - Above(applied),
         age |-> IF applied = {} THEN 0 ELSE today - s[Max(applied)].day]

Review(s) == s.fallback > 0 \/ s.idle >= 5 \/ s.unpriced > 0
Stale(s) == s.applied > 0 /\ s.age > 90

\* The class by the share of runs with an effect.
ByRate(s) == IF 2 * s.applied >= s.evaluated THEN "EFFECTIVE"
             ELSE IF s.applied > 0 THEN "OCCASIONAL" ELSE "NO_EFFECT_YET"

\* A mistaken Class: too few runs are noticed before an effect long ago is.
ClassDataFirst(r) ==
    LET s == Summary(r)
    IN  IF Review(s) THEN "REVIEW_RECOMMENDED"
        ELSE IF s.evaluated < 3 THEN "INSUFFICIENT_DATA"
        ELSE IF Stale(s) THEN "STALE" ELSE ByRate(s)

\* getRuleEffectivenessClassification
Class(r) ==
    LET s == Summary(r)
    IN  IF Review(s) THEN "REVIEW_RECOMMENDED"
        ELSE IF Stale(s) THEN "STALE"
        ELSE IF s.evaluated < 3 THEN "INSUFFICIENT_DATA" ELSE ByRate(s)

-----------------------------------------------------------------------------
(* Knowledge health: owner_knowledge_health.js.                             *)

Finding(severity, type, when) == IF when THEN {<<severity, type>>} ELSE {}

\* detectRuleConflicts, detectRuleDuplicates, as findings of one rule.
GroupFindings(r) ==
    LET twins == {s \in Rules : s = r \/ Twins(r, s)}
        statuses == {ruleStatus[s] : s \in twins}
        severity == CASE statuses = {"ACTIVE"} -> "HIGH"
                      [] statuses = {"DISABLED"} -> "LOW"
                      [] OTHER -> "MEDIUM"
    IN  Finding("CRITICAL", "RULE_CONFLICT", \E s \in Rules : Rivals(r, s))
        \union Finding(severity, "RULE_DUPLICATE", twins # {r})

\* perRuleFindings, of a rule that is well formed and whose sources agree.
Findings(r) ==
    LET s == Summary(r)
        class == Class(r)
        active == ruleStatus[r] = "ACTIVE"
    IN  GroupFindings(r)
        \union Finding("LOW", "RULE_LOW_PRIORITY", r.priority = "LOW")
        \union Finding("HIGH", "RULE_STALE",
                       class = "STALE" \/ (active /\ s.applied > 0 /\ s.age > 90))
        \union Finding("MEDIUM", "RULE_NO_EFFECT",
                       class = "NO_EFFECT_YET" \/ s.idle >= 5)
        \union Finding("HIGH", "RULE_REVIEW_RECOMMENDED", class = "REVIEW_RECOMMENDED")
        \union Finding("MEDIUM", "ACTIVE_RULE_NEVER_APPLIED",
                       active /\ s.evaluated >= 3 /\ s.applied = 0)
        \union Finding("MEDIUM", "DISABLED_RULE_WITH_EFFECT_EVENTS",
                       ~active /\ s.evaluated > 0)
        \union Finding("MEDIUM", "RULE_LAST_UPDATED_TOO_OLD", today - updated[r] > 365)

Penalty == [CRITICAL |-> 30, HIGH |-> 18, MEDIUM |-> 10, LOW |-> 5]

\* ruleScore
Score(findings) ==
    LET rest == 100 - MapThenSumSet(LAMBDA f : Penalty[f[1]], findings)
    IN  IF rest < 0 THEN 0 ELSE rest

\* classificationFor
Health(r) ==
    LET findings == Findings(r)
        score == Score(findings)
        severities == {f[1] : f \in findings}
    IN  IF "CRITICAL" \in severities \/ score < 25 THEN "CRITICAL"
        ELSE IF "HIGH" \in severities \/ score < 50 THEN "REVIEW"
        ELSE IF severities # {} \/ score < 90 THEN "MONITOR" ELSE "HEALTHY"

-----------------------------------------------------------------------------
(* Rules are made DISABLED; the owner switches them, runs take place.       *)

HealthInit ==
    /\ ruleStatus = [r \in Rules |-> "DISABLED"]
    /\ updated = [r \in Rules |-> 0]
    /\ events = [r \in Rules |-> <<>>]
    /\ switches = 0 /\ today = 0

Switch(r) ==
    /\ switches < MaxSwitches /\ switches' = switches + 1
    /\ ruleStatus' = [ruleStatus EXCEPT ![r] = IF @ = "ACTIVE" THEN "DISABLED" ELSE "ACTIVE"]
    /\ updated' = [updated EXCEPT ![r] = today]
    /\ UNCHANGED <<events, today>>

\* What one run may do: a failed application falls back for every rule, and of rival
\* rules none is applied.
Outcome(o) ==
    /\ \A r, s \in ActiveRules : (o[r].effect = "FALLBACK_TO_BASELINE")
                              = (o[s].effect = "FALLBACK_TO_BASELINE")
    /\ \A r, s \in ActiveRules : Rivals(r, s) => o[r].effect # "APPLIED_EFFECT"

\* recordRuleEffectivenessForRun: one event of every active rule; a failed append loses
\* that rule's event and the run goes on.
Record ==
    \E o \in [ActiveRules -> Outcomes], kept \in SUBSET ActiveRules \ {{}} :
        /\ Outcome(o)
        /\ MapThenSumSet(LAMBDA r : Len(events[r]), Rules) + Cardinality(kept) =< MaxEffects
        /\ events' = [r \in Rules |->
               IF r \in kept
               THEN Append(events[r],
                           [effect |-> o[r].effect, priced |-> o[r].priced, day |-> today])
               ELSE events[r]]
        /\ UNCHANGED <<ruleStatus, updated, switches, today>>

DaysPass(n) ==
    /\ today + n =< MaxDay /\ today' = today + n
    /\ UNCHANGED <<ruleStatus, updated, events, switches>>

HealthNext ==
    \/ Record
    \/ \E r \in Rules : Switch(r)
    \/ \E n \in Leaps : DaysPass(n)

HealthSpec == HealthInit /\ [][HealthNext]_healthVars

-----------------------------------------------------------------------------
Effects == [effect : {o.effect : o \in Outcomes}, priced : {o.priced : o \in Outcomes},
            day : Nat]

\* The types: a rule's journal is a sequence of dated effects.
HealthTypeOK ==
    /\ ruleStatus \in [Rules -> {"ACTIVE", "DISABLED"}]
    /\ updated \in [Rules -> Nat] /\ today \in Nat
    /\ events \in [Rules -> Seq(Effects)]

(* The two pages agree on every active rule: the health page shows it HEALTHY exactly    *)
(* if the effectiveness page has nothing against it and no other rule, its age or its    *)
(* priority does.  Each page has its own copy of the thresholds, and the classes of the  *)
(* one hide each other in another order than the findings of the other                   *)
(* (owner_rule_effectiveness.js:770, owner_knowledge_health.js:600).                     *)
VerdictsAgree ==
    \A r \in ActiveRules :
        Health(r) = "HEALTHY" <=>
            /\ Class(r) \in {"EFFECTIVE", "OCCASIONAL", "INSUFFICIENT_DATA"}
            /\ \A s \in Rules : ~Rivals(r, s) /\ ~Twins(r, s)
            /\ today - updated[r] =< 365
            /\ r.priority # "LOW"
=============================================================================
