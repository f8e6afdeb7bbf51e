------------------------------- MODULE MCBackend -------------------------------
(***************************************************************************)
(* One run for four parts of the purchasing backend that share no state:   *)
(* the publication of runs, the rules made of learned candidates, the      *)
(* candidates learned from the history of decisions and what is told of    *)
(* the rules' effects.  A behaviour is one part's, the one in focus, while *)
(* the others rest.                                                        *)
(***************************************************************************)
EXTENDS PurchasingRuns, RuleMaterialization, RuleHealth

CONSTANTS MaxEntries, LearningDays

VARIABLES focus, history, learningDay

\* An item skipped against the agent's advice, the same item bought, another one skipped
\* that the agent has no opinion on.
Decided(item, decision, agent, reason) ==
    [item |-> item, brand |-> "b", supplier |-> "s", decision |-> decision,
     agent |-> agent, reason |-> reason]
SkipOne == Decided("i1", "SKIP", "BUY", "LOW_DEMAND")
BuyOne == Decided("i1", "BUY", "BUY", None)
SkipTwo == Decided("i2", "SKIP", None, None)

Learning == INSTANCE LearnedRules
    WITH today <- learningDay, Cases <- {SkipOne, BuyOne, SkipTwo},
         Reasons <- <<"HIGH_STOCK", "LOW_DEMAND">>, Leaps <- {190}, MaxDay <- LearningDays

OfferedOnAgreement == Learning!OfferedOnAgreement

\* Two rules that want different things of one item.
Rule(n, decision, priority) ==
    [name |-> n, item |-> "i1", decision |-> decision, priority |-> priority]
Effect(e, priced) == [effect |-> e, priced |-> priced]

MCRules == {Rule(1, "SKIP", "HIGH"), Rule(2, "DEFER", "LOW")}
MCOutcomes == {Effect("NO_MATCH", TRUE), Effect("APPLIED_EFFECT", TRUE),
               Effect("FALLBACK_TO_BASELINE", TRUE)}

learningVars == <<history, learningDay>>

MCInit ==
    /\ focus \in {"runs", "rules", "learning", "health"}
    /\ Init /\ RulesInit /\ Learning!Init /\ HealthInit
    /\ focus # "rules" => \A c \in Candidates : candidate[c] = "ELIGIBLE"

RunsStep == focus = "runs" /\ Next
RulesStep == focus = "rules" /\ RulesNext
LearningStep == focus = "learning" /\ Learning!Next
HealthStep == focus = "health" /\ HealthNext

MCNext ==
    /\ UNCHANGED focus
    /\ \/ RunsStep /\ UNCHANGED <<ruleVars, learningVars, healthVars>>
       \/ RulesStep /\ UNCHANGED <<vars, learningVars, healthVars>>
       \/ LearningStep /\ UNCHANGED <<vars, ruleVars, healthVars>>
       \/ HealthStep /\ UNCHANGED <<vars, ruleVars, learningVars>>

\* A request that has begun goes on; the owner asks for a rule as often as it can be
\* had (FairSpec, FairRulesSpec).
RunsFair == \A q \in Requests : WF_vars(focus = "runs" /\ Step(q))
RulesFair ==
    /\ WF_ruleVars(focus = "rules" /\ (SaveRule \/ AppendEntry))
    /\ \A c \in Candidates : SF_ruleVars(focus = "rules" /\ Materialize(c))

MCSpec ==
    /\ MCInit /\ [][MCNext]_<<focus, vars, ruleVars, learningVars, healthVars>>
    /\ RunsFair /\ RulesFair
=============================================================================
