------------------------ MODULE RuleMaterialization_proofs ------------------------
(***************************************************************************)
(* A candidate has at most one rule, the journal agrees with the registry, *)
(* and both name approvals the owner has given, for any number of          *)
(* candidates, lifecycle events, crashes and failed writes.  RuleHealth:   *)
(* the two pages that judge an active rule do not contradict each other.   *)
(***************************************************************************)
EXTENDS RuleMaterialization, RuleHealth, Folds, SequenceTheorems, FiniteSetTheorems, TLAPS

-----------------------------------------------------------------------------
(* Types.                                                                   *)

\* The fields of the registry that is on disk, and of the one a request has read.
LEMMA RegistryFields ==
    ASSUME RulesTypeOK
    PROVE  /\ registry.rules \subseteq Materialization /\ registry.proposals \in Nat
           /\ snapshot.rules \subseteq Materialization
BY DEF RulesTypeOK

\* The end of a request.
LEMMA FinishStep ==
    ASSUME Finish
    PROVE  rulePc' = "idle" /\ draft' = None /\ rule' = None /\ snapshot' = EmptyRegistry
BY DEF Finish, GoOn

\* The counter of faults stays a number.
LEMMA FaultStep ==
    ASSUME ruleFaults \in Nat, FileFault \/ UNCHANGED ruleFaults
    PROVE  ruleFaults' \in Nat
BY DEF FileFault

\* A registry with one more rule.
LEMMA SavedType ==
    ASSUME RulesTypeOK, rule \in Materialization
    PROVE  LET saved == [registry EXCEPT !.rules = @ \union {rule}]
           IN  /\ saved \in [rules : SUBSET Materialization, proposals : Nat]
               /\ saved.rules = registry.rules \union {rule}
BY RegistryFields DEF RulesTypeOK

LEMMA EmptyRegistryType ==
    EmptyRegistry \in [rules : SUBSET Materialization, proposals : Nat]
BY DEF EmptyRegistry

-----------------------------------------------------------------------------
(* The approval under which a request acts.                                 *)

\* An approved candidate has lifecycle events, the last of them an approval.
LEMMA ApprovalIsLast ==
    ASSUME RulesTypeOK, NEW c \in Candidates, Status(c) = "APPROVED"
    PROVE  /\ Len(lifecycle[c]) \in DOMAIN lifecycle[c]
           /\ lifecycle[c][Len(lifecycle[c])] = "APPROVED"
BY DEF RulesTypeOK, Status

\* An event once in the lifecycle keeps its place.
LEMMA EventsKept ==
    ASSUME RulesTypeOK, NEW c \in Candidates, NEW to \in Statuses,
           lifecycle' = [lifecycle EXCEPT ![c] = Append(@, to)],
           NEW d \in Candidates, NEW n \in DOMAIN lifecycle[d]
    PROVE  n \in DOMAIN lifecycle'[d] /\ lifecycle'[d][n] = lifecycle[d][n]
<1>1. lifecycle \in [Candidates -> Seq(Statuses)]
  BY DEF RulesTypeOK
<1>2. CASE d = c
  <2>1. lifecycle'[c] = Append(lifecycle[c], to)
    BY <1>1
  <2>2. lifecycle[c] \in Seq(Statuses)
    BY <1>1
  <2> QED BY <2>1, <2>2, <1>2
<1>3. CASE d # c
  BY <1>1, <1>3
<1> QED BY <1>2, <1>3

-----------------------------------------------------------------------------
LEMMA InductiveInit == RulesInit => RulesInductive
<1> SUFFICES ASSUME RulesInit PROVE RulesInductive
  OBVIOUS
<1>1. registry.rules = {} /\ journal = {} /\ rulePc = "idle"
  BY DEF RulesInit, EmptyRegistry
<1>2. RulesTypeOK
  <2>1. lifecycle \in [Candidates -> Seq(Statuses)]
    BY DEF RulesInit
  <2> QED BY <2>1, EmptyRegistryType DEF RulesInit, RulesTypeOK
<1> QED
  BY <1>1, <1>2 DEF RulesInductive, SavingInv, OneRulePerCandidate,
                    JournalMatchesRegistry, ApprovedByOwner

\* What a step preserves that leaves the files alone and ends the request or
\* lets it be.
LEMMA FilesKept ==
    ASSUME RulesInductive, RulesTypeOK', UNCHANGED <<lifecycle, journal>>,
           registry'.rules = registry.rules,
           Finish \/ UNCHANGED local
    PROVE  RulesInductive'
<1>1. SavingInv'
  <2>1. CASE Finish
    BY <2>1, FinishStep DEF SavingInv
  <2>2. CASE UNCHANGED local
    BY <2>2 DEF RulesInductive, SavingInv, Status, local
  <2> QED BY <2>1, <2>2
<1>2. (OneRulePerCandidate /\ JournalMatchesRegistry /\ ApprovedByOwner)'
  BY DEF RulesInductive, OneRulePerCandidate, JournalMatchesRegistry, ApprovedByOwner
<1> QED BY <1>1, <1>2 DEF RulesInductive

\* What every step preserves.
LEMMA InductiveStep == RulesInductive /\ [RulesNext]_ruleVars => RulesInductive'
<1> SUFFICES ASSUME RulesInductive, [RulesNext]_ruleVars PROVE RulesInductive'
  OBVIOUS
<1>types. RulesTypeOK
  BY DEF RulesInductive
<1>request. SavingInv
  BY DEF RulesInductive
<1>1. CASE ApproveProposal
  <2>1. registry'.rules = registry.rules
        /\ registry' \in [rules : SUBSET Materialization, proposals : Nat]
    BY <1>1, <1>types, RegistryFields DEF ApproveProposal, RulesTypeOK
  <2>2. RulesTypeOK'
    BY <1>1, <1>types, <2>1 DEF ApproveProposal, RulesTypeOK, local
  <2> QED BY <1>1, <2>1, <2>2, FilesKept DEF ApproveProposal
<1>2. ASSUME NEW c \in Candidates, HistoryChanges(c)
      PROVE  RulesInductive'
  <2>1. RulesTypeOK'
    BY <1>2, <1>types DEF HistoryChanges, RulesTypeOK, ruleFiles, local
  <2> QED BY <1>2, <2>1, FilesKept DEF HistoryChanges, ruleFiles
<1>3. ASSUME NEW c \in Candidates, NEW to \in Statuses, ChangeCandidateStatus(c, to)
      PROVE  RulesInductive'
  <2>1. lifecycle' = [lifecycle EXCEPT ![c] = Append(@, to)]
        /\ UNCHANGED <<candidate, registry, journal, rulePc, draft, rule, snapshot, ruleFaults>>
    BY <1>3 DEF ChangeCandidateStatus, local
  <2>2. lifecycle' \in [Candidates -> Seq(Statuses)]
    <3>1. lifecycle[c] \in Seq(Statuses)
      BY <1>types DEF RulesTypeOK
    <3>2. Append(lifecycle[c], to) \in Seq(Statuses)
      BY <3>1
    <3> QED BY <2>1, <3>2, <1>types DEF RulesTypeOK
  <2>3. RulesTypeOK'
    BY <2>1, <2>2, <1>types DEF RulesTypeOK
  <2>4. SavingInv'
    BY <1>3, <2>1 DEF ChangeCandidateStatus, SavingInv
  <2>5. ApprovedByOwner'
    <3>1. ASSUME NEW r \in registry.rules
          PROVE  r.approval \in DOMAIN lifecycle'[r.candidate]
                 /\ lifecycle'[r.candidate][r.approval] = "APPROVED"
      <4>1. r.candidate \in Candidates
        BY <1>types, RegistryFields DEF Materialization
      <4>2. r.approval \in DOMAIN lifecycle[r.candidate]
            /\ lifecycle[r.candidate][r.approval] = "APPROVED"
        BY DEF RulesInductive, ApprovedByOwner
      <4> QED BY <4>1, <4>2, <2>1, <1>types, EventsKept
    <3>2. ASSUME NEW e \in journal
          PROVE  /\ e.approval \in DOMAIN lifecycle'[e.candidate]
                 /\ lifecycle'[e.candidate][e.approval] = "APPROVED"
                 /\ e.rule.approval <= e.approval
      <4>1. e.candidate \in Candidates
        BY <1>types DEF RulesTypeOK, Entry
      <4>2. /\ e.approval \in DOMAIN lifecycle[e.candidate]
            /\ lifecycle[e.candidate][e.approval] = "APPROVED"
            /\ e.rule.approval <= e.approval
        BY DEF RulesInductive, ApprovedByOwner
      <4> QED BY <4>1, <4>2, <2>1, <1>types, EventsKept
    <3> QED BY <2>1, <3>1, <3>2 DEF ApprovedByOwner
  <2> QED
    BY <2>1, <2>3, <2>4, <2>5
    DEF RulesInductive, OneRulePerCandidate, JournalMatchesRegistry
<1>4. ASSUME NEW c \in Candidates, Materialize(c)
      PROVE  RulesInductive'
  <2> DEFINE m == [candidate |-> c, approval |-> Len(lifecycle[c])]
  <2>1. /\ Status(c) = "APPROVED"
        /\ draft' = m /\ snapshot' = registry
        /\ UNCHANGED <<candidate, lifecycle, registry, journal, ruleFaults>>
    BY <1>4 DEF Materialize, Materializable, ruleFiles
  <2>2. m \in Materialization
    BY <1>types DEF RulesTypeOK, Materialization
  <2>3. \/ rulePc' = "save" /\ rule' = m /\ RulesOf(m) = {}
        \/ rulePc' = "append" /\ rule' \in RulesOf(m)
    BY <1>4 DEF Materialize, GoOn
  <2>4. rule' \in Materialization /\ rule'.candidate = c
    BY <2>2, <2>3, <1>types, RegistryFields DEF RulesOf
  <2>5. RulesTypeOK'
    BY <2>1, <2>2, <2>3, <2>4, <1>types DEF RulesTypeOK
  <2>6. SavingInv'
    <3>1. Status(c)' = "APPROVED"
      BY <2>1 DEF Status
    <3>2. draft' \in Materialization /\ draft'.candidate = c
          /\ draft'.approval = Len(lifecycle'[c])
      BY <2>1, <2>2
    <3>3. rulePc' = "save" => rule' = draft' /\ \A r \in snapshot'.rules : r.candidate # c
      BY <2>1, <2>3 DEF RulesOf
    <3>4. rulePc' = "append" => rule' \in registry'.rules
      BY <2>1, <2>3 DEF RulesOf
    <3> QED BY <2>4, <3>1, <3>2, <3>3, <3>4 DEF SavingInv, Status
  <2> QED
    BY <2>1, <2>5, <2>6
    DEF RulesInductive, OneRulePerCandidate, JournalMatchesRegistry, ApprovedByOwner
<1>5. CASE SaveRule
  <2>1. /\ rulePc = "save" /\ rule = draft /\ rule \in Materialization
        /\ \A r \in snapshot.rules : r.candidate # rule.candidate
        /\ rule.approval = Len(lifecycle[rule.candidate])
        /\ Status(rule.candidate) = "APPROVED"
    BY <1>5, <1>request DEF SaveRule, SavingInv
  <2>2. rule.candidate \in Candidates
    BY <2>1 DEF Materialization
  <2>3. UNCHANGED <<candidate, lifecycle, journal>>
    BY <1>5 DEF SaveRule
  <2>4. ruleFaults' \in Nat
    BY <1>5, <1>types, FaultStep DEF SaveRule, RulesTypeOK
  <2>5. Finish \/ (rulePc' = "append" /\ UNCHANGED <<draft, rule, snapshot>>)
    BY <1>5 DEF SaveRule, GoOn
  <2>6. CASE UNCHANGED registry /\ Finish
    <3>1. RulesTypeOK'
      BY <2>3, <2>4, <2>6, <1>types, FinishStep, EmptyRegistryType DEF RulesTypeOK
    <3> QED BY <2>3, <2>6, <3>1, FilesKept
  <2>7. CASE registry = snapshot /\ registry' = [registry EXCEPT !.rules = @ \union {rule}]
    <3>1. registry' \in [rules : SUBSET Materialization, proposals : Nat]
          /\ registry'.rules = registry.rules \union {rule}
      BY <2>1, <2>7, <1>types, SavedType
    <3>2. RulesTypeOK'
      BY <2>3, <2>4, <2>5, <3>1, <1>types, FinishStep, EmptyRegistryType DEF RulesTypeOK
    <3>3. SavingInv'
      <4>1. CASE Finish
        BY <4>1, FinishStep DEF SavingInv
      <4>2. CASE rulePc' = "append" /\ UNCHANGED <<draft, rule, snapshot>>
        BY <2>1, <2>3, <3>1, <4>2 DEF SavingInv, Status
      <4> QED BY <2>5, <4>1, <4>2
    <3>4. OneRulePerCandidate'
      BY <2>1, <2>7, <3>1 DEF RulesInductive, OneRulePerCandidate
    <3>5. JournalMatchesRegistry'
      BY <2>3, <3>1 DEF RulesInductive, JournalMatchesRegistry
    <3>6. ApprovedByOwner'
      BY <2>1, <2>2, <2>3, <3>1, <1>types, ApprovalIsLast DEF RulesInductive, ApprovedByOwner
    <3> QED BY <3>2, <3>3, <3>4, <3>5, <3>6 DEF RulesInductive
  <2> QED BY <1>5, <2>6, <2>7 DEF SaveRule
<1>6. CASE AppendEntry
  <2> DEFINE e == [candidate |-> draft.candidate, approval |-> draft.approval, rule |-> rule]
  <2>1. /\ draft \in Materialization /\ rule \in registry.rules
        /\ rule.candidate = draft.candidate
        /\ draft.approval = Len(lifecycle[draft.candidate])
        /\ Status(draft.candidate) = "APPROVED"
    BY <1>6, <1>request DEF AppendEntry, SavingInv
  <2>2. Finish /\ UNCHANGED <<candidate, lifecycle, registry>> /\ ruleFaults' \in Nat
    BY <1>6, <1>types, FaultStep DEF AppendEntry, RulesTypeOK
  <2>3. CASE journal' = journal
    <3>1. RulesTypeOK'
      BY <2>2, <2>3, <1>types, FinishStep, EmptyRegistryType DEF RulesTypeOK
    <3> QED BY <2>2, <2>3, <3>1, FilesKept
  <2>4. CASE journal' = journal \union {e} /\ ~Duplicate(e)
    <3>1. draft.candidate \in Candidates /\ draft.approval \in Nat /\ rule \in Materialization
      BY <2>1, <1>types, RegistryFields DEF Materialization
    <3>2. RulesTypeOK'
      <4>1. e \in Entry
        BY <3>1 DEF Entry
      <4> QED BY <2>2, <2>4, <4>1, <1>types, FinishStep, EmptyRegistryType DEF RulesTypeOK
    <3>3. SavingInv'
      BY <2>2, FinishStep DEF SavingInv
    <3>4. JournalMatchesRegistry'
      BY <2>1, <2>2, <2>4 DEF RulesInductive, JournalMatchesRegistry, Duplicate
    <3>5. ApprovedByOwner'
      <4>1. draft.approval \in DOMAIN lifecycle[draft.candidate]
            /\ lifecycle[draft.candidate][draft.approval] = "APPROVED"
        BY <2>1, <3>1, <1>types, ApprovalIsLast
      <4>2. rule.approval <= draft.approval
        <5>1. rule.approval \in DOMAIN lifecycle[draft.candidate]
          BY <2>1 DEF RulesInductive, ApprovedByOwner
        <5>2. lifecycle[draft.candidate] \in Seq(Statuses)
          BY <3>1, <1>types DEF RulesTypeOK
        <5> QED BY <2>1, <5>1, <5>2
      <4> QED BY <2>2, <2>4, <4>1, <4>2 DEF RulesInductive, ApprovedByOwner
    <3> QED
      BY <2>2, <3>2, <3>3, <3>4, <3>5 DEF RulesInductive, OneRulePerCandidate
  <2> QED BY <1>6, <2>3, <2>4 DEF AppendEntry
<1>7. CASE RequestDies
  <2>1. Finish /\ UNCHANGED <<candidate, lifecycle, registry, journal>> /\ ruleFaults' \in Nat
    BY <1>7, <1>types, FaultStep DEF RequestDies, ruleFiles, RulesTypeOK
  <2>2. RulesTypeOK'
    BY <2>1, <1>types, FinishStep, EmptyRegistryType DEF RulesTypeOK
  <2> QED BY <2>1, <2>2, FilesKept
<1>8. CASE UNCHANGED ruleVars
  <2>1. RulesTypeOK'
    BY <1>8, <1>types DEF ruleVars, ruleFiles, local, RulesTypeOK
  <2> QED BY <1>8, <2>1, FilesKept DEF ruleVars, ruleFiles
<1> QED BY <1>1, <1>2, <1>3, <1>4, <1>5, <1>6, <1>7, <1>8 DEF RulesNext

\* Everything the inductive invariant says holds in every reachable state.
THEOREM InductiveHolds == RulesSpec => []RulesInductive
<1>1. RulesInit => RulesInductive
  BY InductiveInit
<1>2. RulesInductive /\ [RulesNext]_ruleVars => RulesInductive'
  BY InductiveStep
<1> QED BY <1>1, <1>2, PTL DEF RulesSpec

-----------------------------------------------------------------------------
\* Type correctness of the materialization of candidates.
THEOREM TypeCorrect == RulesSpec => []RulesTypeOK
<1>1. RulesInductive => RulesTypeOK
  BY DEF RulesInductive
<1> QED BY <1>1, InductiveHolds, PTL

\* A crash between the registry and the journal, followed by a new approval, never
\* gives a candidate a second rule (materializeCandidateRule).
THEOREM OneRule == RulesSpec => []OneRulePerCandidate
<1>1. RulesInductive => OneRulePerCandidate
  BY DEF RulesInductive
<1> QED BY <1>1, InductiveHolds, PTL

\* The journal never names a rule the registry lacks, nor a candidate twice.
THEOREM JournalAgrees == RulesSpec => []JournalMatchesRegistry
<1>1. RulesInductive => JournalMatchesRegistry
  BY DEF RulesInductive
<1> QED BY <1>1, InductiveHolds, PTL

\* Rules and journal entries rest on approvals the owner has given.
THEOREM OwnerApproved == RulesSpec => []ApprovedByOwner
<1>1. RulesInductive => ApprovedByOwner
  BY DEF RulesInductive
<1> QED BY <1>1, InductiveHolds, PTL

\* When a rule comes into being, the approval it names is the candidate's present
\* status (validateCandidateForMaterialization, saveApprovedRules).
THEOREM ApprovalStandsAtCreation == RulesSpec => ApprovalStands
<1> DEFINE Stands == \A r \in registry'.rules \ registry.rules :
                       Status(r.candidate) = "APPROVED" /\ r.approval = Len(lifecycle[r.candidate])
<1>1. RulesInductive /\ [RulesNext]_ruleVars => [Stands]_ruleVars
  <2> SUFFICES ASSUME RulesInductive, RulesNext PROVE Stands \/ UNCHANGED ruleVars
    BY DEF ruleVars
  <2>1. CASE SaveRule
    <3>1. /\ rule = draft /\ rule \in Materialization
          /\ rule.approval = Len(lifecycle[rule.candidate])
          /\ Status(rule.candidate) = "APPROVED"
      BY <2>1 DEF SaveRule, RulesInductive, SavingInv
    <3>2. registry' = registry \/ registry'.rules = registry.rules \union {rule}
      BY <2>1, <3>1, SavedType DEF SaveRule, RulesInductive
    <3> QED BY <3>1, <3>2
  <2>2. CASE ApproveProposal
    <3>1. registry'.rules = registry.rules
      BY <2>2, RegistryFields DEF ApproveProposal, RulesInductive, RulesTypeOK
    <3> QED BY <3>1
  <2>3. CASE UNCHANGED registry
    BY <2>3
  <2> QED
    BY <2>1, <2>2, <2>3
    DEF RulesNext, HistoryChanges, ChangeCandidateStatus, Materialize, AppendEntry, RequestDies, ruleFiles
<1> QED BY <1>1, InductiveHolds, PTL DEF RulesSpec, ApprovalStands

-----------------------------------------------------------------------------
(* RuleHealth: what two pages say of a rule.                                *)

LEMMA NoFinding ==
  ASSUME NEW severity, NEW type, NEW when
  PROVE  Finding(severity, type, when) = {} <=> ~when
BY DEF Finding

\* Nothing found, nothing to subtract.
LEMMA FullScore == Score({}) = 100
<1> DEFINE Least(s) == CHOOSE x \in s : TRUE
           Is(f) == f = [s \in SUBSET {} |->
                           IF s = {} THEN 0 ELSE Penalty[Least(s)[1]] + f[s \ {Least(s)}]]
           sums == CHOOSE f : Is(f)
<1>1. Is([s \in SUBSET {} |-> 0])
  OBVIOUS
<1>2. Is(sums)
  BY <1>1
<1>3. sums[{}] = 0
  <2> HIDE DEF sums
  <2>1. PICK f : f = sums
    OBVIOUS
  <2>2. f = [s \in SUBSET {} |->
               IF s = {} THEN 0 ELSE Penalty[Least(s)[1]] + f[s \ {Least(s)}]]
    BY <1>2, <2>1
  <2>3. f[{}] = 0
    BY <2>2
  <2>4. QED
    BY <2>1, <2>3
<1>4. Score({}) = IF 100 - sums[{}] < 0 THEN 0 ELSE 100 - sums[{}]
  BY DEF Score, MapThenSumSet, MapThenFoldSet
<1>5. QED
  BY <1>3, <1>4

\* A rule is healthy if nothing is found, and only then.
LEMMA HealthyIffNothing ==
  ASSUME NEW r
  PROVE  Health(r) = "HEALTHY" <=> Findings(r) = {}
<1> DEFINE F == Findings(r)
           severities == {f[1] : f \in F}
<1>1. Health(r) = IF "CRITICAL" \in severities \/ Score(F) < 25 THEN "CRITICAL"
                  ELSE IF "HIGH" \in severities \/ Score(F) < 50 THEN "REVIEW"
                  ELSE IF severities # {} \/ Score(F) < 90 THEN "MONITOR" ELSE "HEALTHY"
  BY DEF Health
<1>2. severities = {} <=> F = {}
  OBVIOUS
<1>3. F = {} => Score(F) = 100
  BY FullScore
<1> HIDE DEF F, severities
<1>4. CASE F = {}
  <2>1. Score(F) = 100 /\ severities = {}
    BY <1>2, <1>3, <1>4
  <2>2. ~(Score(F) < 25) /\ ~(Score(F) < 50) /\ ~(Score(F) < 90)
    BY <2>1
  <2>3. "CRITICAL" \notin severities /\ "HIGH" \notin severities
    BY <2>1
  <2>4. Health(r) = "HEALTHY"
    BY <1>1, <2>1, <2>2, <2>3
  <2>5. QED
    BY <1>4, <2>4 DEF F
<1>5. CASE F # {}
  <2>1. Health(r) # "HEALTHY"
    BY <1>1, <1>2, <1>5
  <2>2. QED
    BY <1>5, <2>1 DEF F
<1>6. QED
  BY <1>4, <1>5

\* What is found of a rule that is switched on, condition by condition.
Blamed(r) ==
    LET s == Summary(r)
        class == Class(r)
    IN  \/ \E t \in Rules : Rivals(r, t)
        \/ \E t \in Rules : Twins(r, t)
        \/ r.priority = "LOW"
        \/ class = "STALE" \/ (s.applied > 0 /\ s.age > 90)
        \/ class = "NO_EFFECT_YET" \/ s.idle >= 5
        \/ class = "REVIEW_RECOMMENDED"
        \/ s.evaluated >= 3 /\ s.applied = 0
        \/ today - updated[r] > 365

LEMMA FoundIffBlamed ==
  ASSUME NEW r \in ActiveRules
  PROVE  Findings(r) = {} <=> ~Blamed(r)
<1>1. r \in Rules /\ ruleStatus[r] = "ACTIVE"
  BY DEF ActiveRules
<1>2. {s \in Rules : s = r \/ Twins(r, s)} # {r} <=> \E t \in Rules : Twins(r, t)
  BY <1>1 DEF Twins
<1>3. GroupFindings(r) = {} <=> /\ ~\E t \in Rules : Rivals(r, t)
                                /\ ~\E t \in Rules : Twins(r, t)
  <2> DEFINE twins == {s \in Rules : s = r \/ Twins(r, s)}
             severity == CASE {ruleStatus[s] : s \in twins} = {"ACTIVE"} -> "HIGH"
                           [] {ruleStatus[s] : s \in twins} = {"DISABLED"} -> "LOW"
                           [] OTHER -> "MEDIUM"
  <2>1. GroupFindings(r) = Finding("CRITICAL", "RULE_CONFLICT", \E t \in Rules : Rivals(r, t))
                           \union Finding(severity, "RULE_DUPLICATE", twins # {r})
    BY Zenon DEF GroupFindings
  <2> HIDE DEF severity
  <2>2. QED
    BY <1>2, <2>1 DEF Finding
<1> DEFINE s == Summary(r)
           class == Class(r)
<1>4. Findings(r) = {} <=>
        /\ GroupFindings(r) = {}
        /\ Finding("LOW", "RULE_LOW_PRIORITY", r.priority = "LOW") = {}
        /\ Finding("HIGH", "RULE_STALE",
                   class = "STALE" \/ (s.applied > 0 /\ s.age > 90)) = {}
        /\ Finding("MEDIUM", "RULE_NO_EFFECT", class = "NO_EFFECT_YET" \/ s.idle >= 5) = {}
        /\ Finding("HIGH", "RULE_REVIEW_RECOMMENDED", class = "REVIEW_RECOMMENDED") = {}
        /\ Finding("MEDIUM", "ACTIVE_RULE_NEVER_APPLIED",
                   s.evaluated >= 3 /\ s.applied = 0) = {}
        /\ Finding("MEDIUM", "RULE_LAST_UPDATED_TOO_OLD", today - updated[r] > 365) = {}
  <2> HIDE DEF s, class
  <2>1. Finding("MEDIUM", "DISABLED_RULE_WITH_EFFECT_EVENTS",
                ~(ruleStatus[r] = "ACTIVE") /\ s.evaluated > 0) = {}
    BY <1>1 DEF Finding
  <2>2. QED
    BY <1>1, <2>1 DEF Findings, s, class, Finding
<1> HIDE DEF s, class
<1>5. QED
  BY <1>3, <1>4, NoFinding DEF Blamed, s, class

\* Runs are counted.
LEMMA SummaryTyped ==
  ASSUME HealthTypeOK, NEW r \in Rules
  PROVE  Summary(r).evaluated \in Nat /\ Summary(r).applied \in Nat
<1>1. PICK e : e = events[r]
  OBVIOUS
<1>2. e \in Seq(Effects)
  BY <1>1 DEF HealthTypeOK
<1>3. Len(e) \in Nat /\ DOMAIN e = 1 .. Len(e)
  BY <1>2
<1>4. IsFiniteSet(1 .. Len(e)) /\ With(e, "APPLIED_EFFECT") \subseteq 1 .. Len(e)
  BY <1>3, FS_Interval DEF With
<1>5. Cardinality(With(e, "APPLIED_EFFECT")) \in Nat
  BY <1>4, FS_Subset, FS_CardinalityType
<1>6. /\ Summary(r).evaluated = Len(e)
      /\ Summary(r).applied = Cardinality(With(e, "APPLIED_EFFECT"))
  BY <1>1 DEF Summary
<1>7. QED
  BY <1>3, <1>5, <1>6

LEMMA VerdictsOfTypes == HealthTypeOK => VerdictsAgree
<1> SUFFICES ASSUME HealthTypeOK, NEW r \in ActiveRules
             PROVE  Health(r) = "HEALTHY" <=>
                      /\ Class(r) \in {"EFFECTIVE", "OCCASIONAL", "INSUFFICIENT_DATA"}
                      /\ \A s \in Rules : ~Rivals(r, s) /\ ~Twins(r, s)
                      /\ today - updated[r] =< 365
                      /\ r.priority # "LOW"
  BY DEF VerdictsAgree
<1>1. r \in Rules
  BY DEF ActiveRules
<1>2. today - updated[r] \in Int
  BY <1>1 DEF HealthTypeOK
<1> DEFINE s == Summary(r)
<1>3. s.evaluated \in Nat /\ s.applied \in Nat
  BY <1>1, SummaryTyped
<1>4. Class(r) = IF Review(s) THEN "REVIEW_RECOMMENDED"
                 ELSE IF Stale(s) THEN "STALE"
                 ELSE IF s.evaluated < 3 THEN "INSUFFICIENT_DATA" ELSE ByRate(s)
  BY DEF Class
<1>5. Blamed(r) <=> \/ \E t \in Rules : Rivals(r, t)
                    \/ \E t \in Rules : Twins(r, t)
                    \/ r.priority = "LOW"
                    \/ Class(r) = "STALE" \/ Stale(s)
                    \/ Class(r) = "NO_EFFECT_YET" \/ s.idle >= 5
                    \/ Class(r) = "REVIEW_RECOMMENDED"
                    \/ s.evaluated >= 3 /\ s.applied = 0
                    \/ today - updated[r] > 365
  BY DEF Blamed, Stale
<1>6. s.idle >= 5 => Review(s)
  BY DEF Review
<1> HIDE DEF s
<1>7. /\ ByRate(s) \in {"EFFECTIVE", "OCCASIONAL", "NO_EFFECT_YET"}
      /\ s.evaluated >= 3 /\ s.applied = 0 => ByRate(s) = "NO_EFFECT_YET"
  BY <1>3 DEF ByRate
<1>8. Class(r) \in {"EFFECTIVE", "OCCASIONAL", "INSUFFICIENT_DATA"}
        <=> ~(\/ Class(r) = "STALE" \/ Stale(s)
              \/ Class(r) = "NO_EFFECT_YET" \/ s.idle >= 5
              \/ Class(r) = "REVIEW_RECOMMENDED"
              \/ s.evaluated >= 3 /\ s.applied = 0)
  <2>1. CASE Review(s)
    BY <1>4, <2>1
  <2>2. CASE ~Review(s) /\ Stale(s)
    BY <1>4, <2>2
  <2>3. CASE ~Review(s) /\ ~Stale(s) /\ s.evaluated < 3
    BY <1>3, <1>4, <1>6, <2>3
  <2>4. CASE ~Review(s) /\ ~Stale(s) /\ ~(s.evaluated < 3)
    BY <1>3, <1>4, <1>6, <1>7, <2>4
  <2>5. QED
    BY <2>1, <2>2, <2>3, <2>4
<1>9. today - updated[r] =< 365 <=> ~(today - updated[r] > 365)
  BY <1>2
<1>10. QED
  BY <1>5, <1>8, <1>9, HealthyIffNothing, FoundIffBlamed

\* The types: switches and runs keep a rule's journal a sequence of dated effects.
THEOREM HealthTypeCorrect == HealthSpec => []HealthTypeOK
<1>1. HealthInit => HealthTypeOK
  BY DEF HealthInit, HealthTypeOK
<1>2. ASSUME HealthTypeOK, [HealthNext]_healthVars PROVE HealthTypeOK'
  <2>1. CASE Record
    <3>1. PICK o \in [ActiveRules -> Outcomes], kept \in SUBSET ActiveRules :
             events' = [r \in Rules |->
               IF r \in kept
               THEN Append(events[r],
                           [effect |-> o[r].effect, priced |-> o[r].priced, day |-> today])
               ELSE events[r]]
      BY <2>1 DEF Record
    <3>2. ASSUME NEW r \in kept
          PROVE  [effect |-> o[r].effect, priced |-> o[r].priced, day |-> today] \in Effects
      <4>1. o[r] \in Outcomes
        BY <3>1, <3>2
      <4>2. QED
        BY <1>2, <4>1 DEF Effects, HealthTypeOK
    <3>3. ASSUME NEW r \in Rules
          PROVE  (IF r \in kept
                  THEN Append(events[r], [effect |-> o[r].effect, priced |-> o[r].priced,
                                          day |-> today])
                  ELSE events[r]) \in Seq(Effects)
      <4>1. events[r] \in Seq(Effects)
        BY <1>2 DEF HealthTypeOK
      <4>2. QED
        BY <3>2, <4>1
    <3>4. events' \in [Rules -> Seq(Effects)]
      BY <3>1, <3>3
    <3>5. QED
      BY <1>2, <2>1, <3>4 DEF Record, HealthTypeOK
  <2>2. ASSUME NEW r \in Rules, Switch(r) PROVE HealthTypeOK'
    BY <1>2, <2>2 DEF Switch, HealthTypeOK
  <2>3. ASSUME NEW n \in Leaps, DaysPass(n) PROVE HealthTypeOK'
    BY <1>2, <2>3, HealthAssumption DEF DaysPass, HealthTypeOK
  <2>4. CASE UNCHANGED healthVars
    BY <1>2, <2>4 DEF healthVars, HealthTypeOK
  <2>5. QED
    BY <1>2, <2>1, <2>2, <2>3, <2>4 DEF HealthNext
<1>3. QED
  BY <1>1, <1>2, PTL DEF HealthSpec

\* The page of effects and the page of health do not contradict each other on a rule that is
\* switched on, whatever its journal says (owner_rule_effectiveness.js:770,
\* owner_knowledge_health.js:600).
THEOREM VerdictsNeverClash == HealthSpec => []VerdictsAgree
BY HealthTypeCorrect, VerdictsOfTypes, PTL
=============================================================================
