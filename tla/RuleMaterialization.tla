--------------------------- MODULE RuleMaterialization ---------------------------
(***************************************************************************)
(* A learned candidate becomes a purchasing rule.  The owner moves the     *)
(* candidate through its lifecycle (OwnerLearningCandidateLifecycleService)*)
(* and asks for the rule of an approved one                                *)
(* (OwnerRuleMaterializationService.materializeCandidateRule), which is    *)
(* saved, switched off, in the rule registry and then recorded in the      *)
(* materialization journal.                                                *)
(*                                                                         *)
(* One backend process owns all these files but the registry.  It runs a   *)
(* request without yielding, so other requests never come between two file *)
(* operations; a crash and another process's registry write may.           *)
(*                                                                         *)
(* The n-th lifecycle event of candidate c is told by <<c, n>>.  The       *)
(* materializationId is a digest of the candidateId and the eventId of the *)
(* approval (the decision is part of the candidateId), and the ruleId of   *)
(* the materializationId, so a rule is named by its candidate and approval.*)
(***************************************************************************)
EXTENDS Integers, Sequences, Absent

CONSTANTS
    Candidates,      \* candidateIds
    MaxEvents,       \* bound: lifecycle events of a candidate
    MaxProposals,    \* bound: rules another process adds by approveProposal
    MaxRuleFaults    \* bound: crashes and failed file operations

Materialization == [candidate : Candidates, approval : Nat]

\* A journal entry says of which rule it is and which approval it was made under.
Entry == [candidate : Candidates, approval : Nat, rule : Materialization]

ASSUME RulesAssumption ==
    /\ None \notin Materialization
    /\ MaxEvents \in Nat /\ MaxProposals \in Nat /\ MaxRuleFaults \in Nat

\* ALLOWED_TRANSITIONS
Allowed ==
    [NEW          |-> {"UNDER_REVIEW", "APPROVED", "REJECTED", "POSTPONED"},
     UNDER_REVIEW |-> {"APPROVED", "REJECTED", "POSTPONED"},
     POSTPONED    |-> {"UNDER_REVIEW", "APPROVED", "REJECTED"},
     REJECTED     |-> {"UNDER_REVIEW"},
     APPROVED     |-> {"UNDER_REVIEW"}]

Statuses == DOMAIN Allowed \ {"NEW"}

VARIABLES
    candidate,   \* what the decision history makes of a candidateId now
    lifecycle,   \* candidate -> the statuses its lifecycle events moved it to
    registry,    \* owner-approved-rules.json: materialized rules, other rules
    journal,     \* owner-rule-materializations.json: the entries
    rulePc,      \* the next file operation of the request that is executed
    draft,       \* the materialization the request has computed
    rule,        \* the rule it records in the journal
    snapshot,    \* the registry it has read
    ruleFaults

ruleFiles == <<lifecycle, registry, journal>>
local == <<rulePc, draft, rule, snapshot>>
ruleVars == <<candidate, ruleFiles, local, ruleFaults>>

EmptyRegistry == [rules |-> {}, proposals |-> 0]

RulesInit ==
    /\ candidate \in [Candidates -> {"GONE", "INELIGIBLE", "ELIGIBLE"}]
    /\ lifecycle = [c \in Candidates |-> <<>>]
    /\ registry = EmptyRegistry /\ journal = {}
    /\ rulePc = "idle" /\ draft = None /\ rule = None /\ snapshot = EmptyRegistry
    /\ ruleFaults = 0

FileFault == ruleFaults < MaxRuleFaults /\ ruleFaults' = ruleFaults + 1

GoOn(step) == rulePc' = step

\* The request ends, with an answer or by a crash.
Finish ==
    /\ GoOn("idle")
    /\ draft' = None /\ rule' = None /\ snapshot' = EmptyRegistry

-----------------------------------------------------------------------------
(* The environment.                                                         *)

\* Another decision of the owner changes what the history says of c.
HistoryChanges(c) ==
    /\ candidate' \in {[candidate EXCEPT ![c] = s] :
                         s \in {"GONE", "INELIGIBLE", "ELIGIBLE"} \ {candidate[c]}}
    /\ UNCHANGED <<ruleFiles, local, ruleFaults>>

\* approveProposal in another process adds a rule of its own.
ApproveProposal ==
    /\ registry.proposals < MaxProposals
    /\ registry' = [registry EXCEPT !.proposals = @ + 1]
    /\ UNCHANGED <<candidate, lifecycle, journal, local, ruleFaults>>

-----------------------------------------------------------------------------
(* The lifecycle.                                                           *)

\* getCandidateLifecycleState: the status the last event gave.
Status(c) ==
    IF lifecycle[c] = <<>> THEN "NEW" ELSE lifecycle[c][Len(lifecycle[c])]

\* A mistaken change: the event has the two statuses swapped.
ChangeToPreviousStatus(c, to) ==
    /\ rulePc = "idle"
    /\ candidate[c] # "GONE"
    /\ to \in Allowed[Status(c)]
    /\ Len(lifecycle[c]) < MaxEvents
    /\ lifecycle' = [lifecycle EXCEPT ![c] = Append(@, Status(c))]
    /\ UNCHANGED <<candidate, registry, journal, local, ruleFaults>>

\* changeCandidateStatus: append the event of an allowed transition.  A repeated
\* request and one that is not allowed change nothing; nor does a failed write,
\* unless only the directory sync after the rename failed.
ChangeCandidateStatus(c, to) ==
    /\ rulePc = "idle"
    /\ candidate[c] # "GONE"
    /\ to \in Allowed[Status(c)]
    /\ Len(lifecycle[c]) < MaxEvents
    /\ lifecycle' = [lifecycle EXCEPT ![c] = Append(@, to)]
    /\ UNCHANGED <<candidate, registry, journal, local, ruleFaults>>

-----------------------------------------------------------------------------
(* materializeCandidateRule.                                                *)

\* A mistaken validation: the lifecycle is not asked.
EligibleOnly(c) == candidate[c] = "ELIGIBLE" /\ lifecycle[c] # <<>>

\* validateCandidateForMaterialization
Materializable(c) == candidate[c] = "ELIGIBLE" /\ Status(c) = "APPROVED"

\* A mistaken lookup: by the materializationId alone.
RulesOfMaterialization(m) == registry.rules \intersect {m}

\* findRuleByMaterialization: by the candidateId or the materializationId.
RulesOf(m) == {r \in registry.rules : r.candidate = m.candidate \/ r = m}

Recorded(c) == \E e \in journal : e.candidate = c

\* A mistaken start: an existing rule is answered without looking at the journal.
MaterializeWithoutRepair(c) ==
    LET m == [candidate |-> c, approval |-> Len(lifecycle[c])] IN
    /\ rulePc = "idle"
    /\ Materializable(c)
    /\ RulesOf(m) = {}
    /\ draft' = m /\ rule' = m /\ snapshot' = registry
    /\ GoOn("save")
    /\ UNCHANGED <<candidate, ruleFiles, ruleFaults>>

\* Read candidate, lifecycle, journal and registry.  A recorded candidate is
\* answered at once; a rule that has no record gets one; else there is no rule.
Materialize(c) ==
    LET m == [candidate |-> c, approval |-> Len(lifecycle[c])] IN
    /\ rulePc = "idle"
    /\ Materializable(c)
    /\ ~Recorded(c)
    /\ draft' = m
    /\ snapshot' = registry
    /\ \/ /\ RulesOf(m) = {}
          /\ rule' = m
          /\ GoOn("save")
       \/ /\ rule' \in RulesOf(m)
          /\ GoOn("append")
    /\ UNCHANGED <<candidate, ruleFiles, ruleFaults>>

\* saveApprovedRules.  RULE_REGISTRY_CONCURRENT_MODIFICATION or WRITE_LOCKED ends
\* the request; so does a failure, before the rename or after it.
SaveRule ==
    LET saved == [registry EXCEPT !.rules = @ \union {rule}] IN
    /\ rulePc = "save"
    /\ \/ /\ registry = snapshot
          /\ registry' = saved
          /\ GoOn("append")
          /\ UNCHANGED <<draft, rule, snapshot, ruleFaults>>
       \/ /\ Finish
          /\ UNCHANGED <<registry, ruleFaults>>
       \/ /\ FileFault
          /\ registry = snapshot
          /\ registry' = saved
          /\ Finish
    /\ UNCHANGED <<candidate, lifecycle, journal>>

\* An entry of the same candidate (its materializationId tells the candidate) or
\* of the same rule is in the way.
Duplicate(e) == \E f \in journal : f.candidate = e.candidate \/ f.rule = e.rule

\* appendMaterializationEvent, with the approval of this request and the rule.
AppendEntry ==
    LET e == [candidate |-> draft.candidate, approval |-> draft.approval, rule |-> rule] IN
    /\ rulePc = "append"
    /\ Finish
    /\ \/ /\ journal' = IF Duplicate(e) THEN journal ELSE journal \union {e}
          /\ UNCHANGED ruleFaults
       \/ /\ FileFault
          /\ journal' \in {journal, IF Duplicate(e) THEN journal ELSE journal \union {e}}
    /\ UNCHANGED <<candidate, lifecycle, registry>>

\* The process dies between two file operations and is started again.
RequestDies ==
    /\ rulePc # "idle"
    /\ FileFault
    /\ Finish
    /\ UNCHANGED <<candidate, ruleFiles>>

RulesNext ==
    \/ ApproveProposal
    \/ \E c \in Candidates :
         \/ HistoryChanges(c)
         \/ \E to \in Statuses : ChangeCandidateStatus(c, to)
         \/ Materialize(c)
    \/ SaveRule \/ AppendEntry \/ RequestDies

RulesSpec == RulesInit /\ [][RulesNext]_ruleVars

\* The owner asks for the rule again as often as it can be had.
FairRulesSpec ==
    /\ RulesSpec
    /\ WF_ruleVars(SaveRule \/ AppendEntry)
    /\ \A c \in Candidates : SF_ruleVars(Materialize(c))

-----------------------------------------------------------------------------
(* Properties.                                                              *)

\* The types of the variables.
RulesTypeOK ==
    /\ candidate \in [Candidates -> {"GONE", "INELIGIBLE", "ELIGIBLE"}]
    /\ lifecycle \in [Candidates -> Seq(Statuses)]
    /\ registry \in [rules : SUBSET Materialization, proposals : Nat]
    /\ journal \subseteq Entry
    /\ rulePc \in {"idle", "save", "append"}
    /\ draft \in Materialization \union {None}
    /\ rule \in Materialization \union {None}
    /\ snapshot \in [rules : SUBSET Materialization, proposals : Nat]
    /\ ruleFaults \in Nat

\* A candidate never gets two rules, although each approval of it would give the
\* rule another id: not when a crash parts the registry from the journal and the
\* candidate is approved anew before the owner asks again.
OneRulePerCandidate ==
    \A r, s \in registry.rules : r.candidate = s.candidate => r = s

\* The journal and the registry agree: an entry names a rule the registry has, of
\* its own candidate (what the health report counts as orphanMaterializations is
\* empty, and a recorded candidate is never refused with "the journal does not
\* match the registry"), and no candidate is recorded twice (which would make the
\* journal unreadable).
JournalMatchesRegistry ==
    /\ \A e \in journal : e.rule \in registry.rules /\ e.rule.candidate = e.candidate
    /\ \A e, f \in journal : e.candidate = f.candidate => e = f

\* Whatever happens to the candidate later, its rule and its journal entry each
\* name an approval the owner has given it, and a repaired entry never an earlier
\* one than the rule.
ApprovedByOwner ==
    /\ \A r \in registry.rules :
         r.approval \in DOMAIN lifecycle[r.candidate]
         /\ lifecycle[r.candidate][r.approval] = "APPROVED"
    /\ \A e \in journal :
         /\ e.approval \in DOMAIN lifecycle[e.candidate]
         /\ lifecycle[e.candidate][e.approval] = "APPROVED"
         /\ e.rule.approval <= e.approval

\* A rule comes into being only while the approval it names stands.
ApprovalStands ==
    [][\A r \in registry'.rules \ registry.rules :
         Status(r.candidate) = "APPROVED" /\ r.approval = Len(lifecycle[r.candidate])]_ruleVars

\* A rule that a crash or a failed write left without a journal entry gets one, if
\* the candidate stays approved and the owner repeats the request.
JournalRepaired ==
    \A c \in Candidates :
      <>[]Materializable(c) => []<>(Recorded(c) \/ \A r \in registry.rules : r.candidate # c)

-----------------------------------------------------------------------------
(* The strengthening every step preserves; RuleMaterialization_proofs proves *)
(* it.                                                                      *)

\* A request acts under the standing approval of its candidate, which it found
\* without a journal entry; the rule it saves is a new one, the rule it records
\* is the registry's.
SavingInv ==
    /\ rulePc # "idle" =>
         /\ draft \in Materialization /\ rule \in Materialization
         /\ rule.candidate = draft.candidate
         /\ draft.approval = Len(lifecycle[draft.candidate])
         /\ Status(draft.candidate) = "APPROVED"
    /\ rulePc = "save" => rule = draft /\ \A r \in snapshot.rules : r.candidate # rule.candidate
    /\ rulePc = "append" => rule \in registry.rules

RulesInductive ==
    /\ RulesTypeOK /\ SavingInv
    /\ OneRulePerCandidate /\ JournalMatchesRegistry /\ ApprovedByOwner
=============================================================================
