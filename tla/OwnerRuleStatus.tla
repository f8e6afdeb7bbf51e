---------------------------- MODULE OwnerRuleStatus ----------------------------
(***************************************************************************)
(* The owner switches one materialized purchasing rule on or off           *)
(* (OwnerRuleStatusService.changeStatus).  A change touches three files    *)
(* that no transaction spans: the rule registry, the audit journal and a   *)
(* per-rule transition intent, a write-ahead record that lets a repeated   *)
(* request finish an audit entry an earlier one left behind.               *)
(*                                                                         *)
(* One action per file operation.  Between two of them the process may     *)
(* crash, and another process may run.  The registry write lock is         *)
(* abstracted to the compare-and-swap it protects; RegistryLock models it. *)
(*                                                                         *)
(* A fingerprint is the registry's own content; an intent is the audit     *)
(* event it carries (intentId is a digest of it); a preview is told from   *)
(* another by the time it was made.                                        *)
(***************************************************************************)
EXTENDS Absent, Integers, FiniteSets

CONSTANTS
    Rules,                 \* ruleIds of materialized item rules
    Servers,               \* backend processes that share the data directory
    PreviewTTL,            \* clock ticks a preview stays valid
    LockRemovalCanFail,    \* may unlinking the registry lock file fail?
    MaxClock,              \* bound: last clock value
    MaxProposals,          \* bound: rules another process adds by approveProposal
    MaxFaults              \* bound: crashes and failed file operations

Statuses == {"ACTIVE", "DISABLED"}

\* An audit event; fromStatus is the opposite of toStatus.
Event == [rule : Rules, to : Statuses, at : Nat, preview : Nat]

RuleState == [status : Statuses \union {"ABSENT"}, updatedAt : Nat]

Registry == [rule : [Rules -> RuleState], proposals : Nat, updatedAt : Nat]

Preview == [rule : Rules, target : Statuses, registry : Registry, createdAt : Nat]

Request == [rule : Rules, target : Statuses]

ASSUME ConstantsAssumption ==
    /\ PreviewTTL \in Nat /\ MaxClock \in Nat
    /\ MaxProposals \in Nat /\ MaxFaults \in Nat
    /\ LockRemovalCanFail \in BOOLEAN
    /\ None \notin Event /\ None \notin Request

Steps == {"idle", "preview", "intent", "registry", "loadJournal", "writeJournal",
          "claim", "verify", "unlink", "unclaim", "repairEvents", "repairIntent"}

Codes == {"NONE", "CHANGED", "ALREADY_CHANGED", "IN_PROGRESS", "UNRESOLVED",
          "CONFLICT", "REGISTRY_UNAVAILABLE", "STORAGE_UNAVAILABLE", "REFUSED"}

VARIABLES
    \* files
    registry,        \* owner-approved-rules.json
    journal,         \* owner-learning-rule-status-events.json: the recorded events
    intent,          \* <rule>.json in the transition-intents directory, or None
    cleanup,         \* intents with a cleanup claim file beside them
    previews,        \* owner-learning-rule-activation-previews.json
    clock,
    \* the request each server is executing
    pc,              \* the next file operation
    request,
    snapshot,        \* the registry the request has read
    event,           \* the event it records, and the intent it deletes at the end
    seen,            \* the journal content it has read
    reply,           \* the answer: the last one given, or the one about to be
    \* bookkeeping of the specification
    changes,         \* events of the status changes the registry has taken
    faults

files == <<registry, journal, intent, cleanup, previews>>
local == <<pc, request, snapshot, event, seen, reply>>
vars == <<files, clock, local, changes, faults>>

Opposite(status) == IF status = "ACTIVE" THEN "DISABLED" ELSE "ACTIVE"

EmptyRegistry ==
    [rule |-> [r \in Rules |-> [status |-> "ABSENT", updatedAt |-> 0]],
     proposals |-> 0, updatedAt |-> 0]

\* A mistaken nextRegistry: the new status without its time.
WithStatusOnly(reg, e) ==
    [reg EXCEPT !.rule[e.rule] = [status |-> e.to]]

\* nextRegistry of changeStatus
WithStatus(reg, e) ==
    [reg EXCEPT !.rule[e.rule] = [status |-> e.to, updatedAt |-> e.at],
                !.updatedAt = e.at]

Init ==
    /\ registry \in {[EmptyRegistry EXCEPT !.rule = f] : f \in
                       [Rules -> [status : {"ABSENT", "DISABLED"}, updatedAt : {0}]]}
    /\ journal = {} /\ cleanup = {} /\ previews = {}
    /\ intent = [r \in Rules |-> None]
    /\ clock = 1
    /\ pc = [p \in Servers |-> "idle"]
    /\ request = [p \in Servers |-> None]
    /\ snapshot = [p \in Servers |-> EmptyRegistry]
    /\ event = [p \in Servers |-> None]
    /\ seen = [p \in Servers |-> {}]
    /\ reply = [p \in Servers |-> "NONE"]
    /\ changes = {}
    /\ faults = 0

-----------------------------------------------------------------------------
(* Control of one request.                                                  *)

\* A crash or a failed file operation, drawn from the budget.
Fault == faults < MaxFaults /\ faults' = faults + 1

\* The server goes on to the file operation `step`.
Goto(p, step) == pc' = [pc EXCEPT ![p] = step]

\* The request ends, with or without an answer, and its locals with it.
Finish(p, code) ==
    /\ Goto(p, "idle")
    /\ reply' = [reply EXCEPT ![p] = code]
    /\ request' = [request EXCEPT ![p] = None]
    /\ snapshot' = [snapshot EXCEPT ![p] = EmptyRegistry]
    /\ event' = [event EXCEPT ![p] = None]
    /\ seen' = [seen EXCEPT ![p] = {}]

\* A file operation throws: the answer is an error, the files stay as they were.
FailUntouched(p, code) ==
    /\ Fault
    /\ Finish(p, code)
    /\ UNCHANGED <<files, clock, changes>>

-----------------------------------------------------------------------------
(* The environment: other operations on the same files.                     *)

\* approveProposal, run by another process: it adds an item rule this service
\* does not manage.  Its own compare-and-swap makes the save one step.
ApproveProposal ==
    /\ registry.proposals < MaxProposals
    /\ registry' = [registry EXCEPT !.proposals = @ + 1, !.updatedAt = clock]
    /\ UNCHANGED <<journal, intent, cleanup, previews, clock, local, changes, faults>>

\* materializeCandidateRule adds the rule, switched off.  JavaScript runs it
\* whole, so its server executes no status change meanwhile.
Materialize(p, r) ==
    /\ pc[p] = "idle"
    /\ registry.rule[r].status = "ABSENT"
    /\ registry' = [registry EXCEPT
                      !.rule[r] = [status |-> "DISABLED", updatedAt |-> clock],
                      !.updatedAt = clock]
    /\ UNCHANGED <<journal, intent, cleanup, previews, clock, local, changes, faults>>

\* previewRuleStatusChange and saveActivationPreview: the change is computed on
\* a copy of the registry and the result stored with the registry's fingerprint.
\* The recalculation takes time, so nothing else carries its timestamp.
PreviewStatusChange(p, r) ==
    /\ pc[p] = "idle"
    /\ registry.rule[r].status # "ABSENT"
    /\ clock < MaxClock
    /\ previews' = {v \in previews : clock < v.createdAt + PreviewTTL}
                     \union {[rule |-> r, target |-> Opposite(registry.rule[r].status),
                              registry |-> registry, createdAt |-> clock]}
    /\ clock' = clock + 1
    /\ UNCHANGED <<registry, journal, intent, cleanup, local, changes, faults>>

-----------------------------------------------------------------------------
(* changeStatus.                                                            *)

\* A mistaken changeStatus: a rule in the target status is answered at once.
StartChangeWithoutRepair(p, r, target) ==
    /\ pc[p] = "idle"
    /\ registry.rule[r].status = Opposite(target)
    /\ Goto(p, "preview")
    /\ request' = [request EXCEPT ![p] = [rule |-> r, target |-> target]]
    /\ snapshot' = [snapshot EXCEPT ![p] = registry]
    /\ reply' = [reply EXCEPT ![p] = "NONE"]
    /\ UNCHANGED <<files, clock, event, seen, changes, faults>>

\* Read the registry.  A rule that already has the target status is looked up
\* in the journal; any other needs a preview.
StartChange(p, r, target) ==
    /\ pc[p] = "idle"
    /\ registry.rule[r].status # "ABSENT"
    /\ Goto(p, IF registry.rule[r].status = target THEN "repairEvents" ELSE "preview")
    /\ request' = [request EXCEPT ![p] = [rule |-> r, target |-> target]]
    /\ snapshot' = [snapshot EXCEPT ![p] = registry]
    /\ reply' = [reply EXCEPT ![p] = "NONE"]
    /\ UNCHANGED <<files, clock, event, seen, changes, faults>>

\* validatePreview passes: the preview is for this change of this registry and
\* has not expired.  The event is stamped with the current time.
UsePreview(p) ==
    /\ pc[p] = "preview"
    /\ \E v \in previews :
         /\ v.rule = request[p].rule /\ v.target = request[p].target
         /\ v.registry = snapshot[p]
         /\ clock < v.createdAt + PreviewTTL
         /\ event' = [event EXCEPT ![p] = [rule |-> v.rule, to |-> v.target,
                                           at |-> clock, preview |-> v.createdAt]]
    /\ Goto(p, "intent")
    /\ UNCHANGED <<files, clock, request, snapshot, seen, reply, changes, faults>>

\* The preview is missing, expired, for something else, out of date, not
\* permitted financially, or carries critical warnings.
RefusePreview(p) ==
    /\ pc[p] = "preview"
    /\ Finish(p, "REFUSED")
    /\ UNCHANGED <<files, clock, changes, faults>>

\* A mistaken saveStatusTransitionIntent: a present file is taken for this one.
PersistIntentOverAny(p) ==
    LET e == event[p] IN
    /\ pc[p] = "intent"
    /\ intent' = [intent EXCEPT ![e.rule] = IF @ = None THEN e ELSE @]
    /\ Goto(p, "registry")
    /\ UNCHANGED <<registry, journal, cleanup, previews, clock,
                   request, snapshot, event, seen, reply, changes, faults>>

\* saveStatusTransitionIntent: link(2) creates the file or finds it present.
PersistIntent(p) ==
    LET e == event[p] IN
    /\ pc[p] = "intent"
    /\ \/ /\ intent[e.rule] \in {None, e}
          /\ intent' = [intent EXCEPT ![e.rule] = e]
          /\ Goto(p, "registry")
          /\ UNCHANGED <<registry, journal, cleanup, previews, clock,
                         request, snapshot, event, seen, reply, changes, faults>>
       \/ /\ intent[e.rule] \notin {None, e}
          /\ Finish(p, "IN_PROGRESS")
          /\ UNCHANGED <<files, clock, changes, faults>>
       \/ \* the link fails, or only the directory sync after it does
          /\ Fault
          /\ intent[e.rule] \in {None, e}
          /\ intent' \in {intent, [intent EXCEPT ![e.rule] = e]}
          /\ Finish(p, "STORAGE_UNAVAILABLE")
          /\ UNCHANGED <<registry, journal, cleanup, previews, clock, changes>>

\* A mistaken saveApprovedRules: nothing is compared before the replacement.
RegistryTakenUnchecked(p) ==
    /\ registry' = WithStatus(snapshot[p], event[p])
    /\ changes' = changes \union {event[p]}

\* saveApprovedRules under the write lock.  Only when the registry is still the
\* one the request has read is it replaced.
RegistryTaken(p) ==
    /\ registry = snapshot[p]
    /\ registry' = WithStatus(registry, event[p])
    /\ changes' = changes \union {event[p]}

SaveRegistry(p) ==
    /\ pc[p] = "registry"
    /\ RegistryTaken(p)
    /\ Goto(p, "loadJournal")
    /\ reply' = [reply EXCEPT ![p] = "CHANGED"]
    /\ UNCHANGED <<journal, intent, cleanup, previews, clock,
                   request, snapshot, event, seen, faults>>

\* RULE_REGISTRY_CONCURRENT_MODIFICATION, or RULE_REGISTRY_WRITE_LOCKED after
\* the lock's timeout: the intent is kept, for the request that won.
LoseRegistry(p) ==
    /\ pc[p] = "registry"
    /\ Finish(p, "CONFLICT")
    /\ UNCHANGED <<files, clock, changes, faults>>

\* Any other error of saveApprovedRules deletes the intent.  The write failed,
\* or it succeeded and removing the lock file failed.
FailRegistry(p) ==
    /\ pc[p] = "registry"
    /\ Fault
    /\ \/ UNCHANGED <<registry, changes>>
       \/ LockRemovalCanFail /\ RegistryTaken(p)
    /\ Goto(p, "claim")
    /\ reply' = [reply EXCEPT ![p] = "REGISTRY_UNAVAILABLE"]
    /\ UNCHANGED <<journal, intent, cleanup, previews, clock,
                   request, snapshot, event, seen>>

\* appendRuleStatusEvent reads the journal and, unless the event is in it,
\* replaces the file by what it read and the event.
LoadJournal(p) ==
    /\ pc[p] = "loadJournal"
    /\ \/ /\ seen' = [seen EXCEPT ![p] = journal]
          /\ Goto(p, IF event[p] \in journal THEN "claim" ELSE "writeJournal")
          /\ UNCHANGED <<files, clock, request, snapshot, event, reply, changes, faults>>
       \/ FailUntouched(p, "STORAGE_UNAVAILABLE")

\* The rename that publishes the journal; the directory sync after it may fail.
WriteJournal(p) ==
    /\ pc[p] = "writeJournal"
    /\ \/ /\ journal' = seen[p] \union {event[p]}
          /\ Goto(p, "claim")
          /\ UNCHANGED <<request, snapshot, event, seen, reply, faults>>
       \/ /\ Fault
          /\ journal' \in {journal, seen[p] \union {event[p]}}
          /\ Finish(p, "STORAGE_UNAVAILABLE")
    /\ UNCHANGED <<registry, intent, cleanup, previews, clock, changes>>

-----------------------------------------------------------------------------
(* deleteStatusTransitionIntent: the intent is deleted by the one holder of  *)
(* a claim file named after it, and only if it still is that intent.         *)

\* open(2) with O_EXCL creates the claim, or finds another's.  A claim that
\* could be created but not written stays behind.
ClaimCleanup(p) ==
    LET e == event[p] IN
    /\ pc[p] = "claim"
    /\ \/ /\ e \notin cleanup
          /\ cleanup' = cleanup \union {e}
          /\ Goto(p, "verify")
          /\ UNCHANGED <<request, snapshot, event, seen, reply, faults>>
       \/ /\ e \in cleanup      \* RULE_STATUS_TRANSITION_CLEANUP_IN_PROGRESS
          /\ Finish(p, reply[p])
          /\ UNCHANGED <<cleanup, faults>>
       \/ /\ Fault
          /\ e \notin cleanup
          /\ cleanup' \in {cleanup, cleanup \union {e}}
          /\ Finish(p, "STORAGE_UNAVAILABLE")
    /\ UNCHANGED <<registry, journal, intent, previews, clock, changes>>

\* Read the intent and compare it with the expected one.
VerifyIntent(p) ==
    /\ pc[p] = "verify"
    /\ Goto(p, IF intent[event[p].rule] = event[p] THEN "unlink" ELSE "unclaim")
    /\ UNCHANGED <<files, clock, request, snapshot, event, seen, reply, changes, faults>>

\* Remove the intent file, whichever it is by now.  When unlink or the directory
\* sync throws, the claim is still released on the way out.
UnlinkIntent(p) ==
    LET removed == [intent EXCEPT ![event[p].rule] = None] IN
    /\ pc[p] = "unlink"
    /\ \/ /\ intent' = removed
          /\ UNCHANGED <<reply, faults>>
       \/ /\ Fault
          /\ intent' \in {intent, removed}
          /\ reply' = [reply EXCEPT ![p] = "STORAGE_UNAVAILABLE"]
    /\ Goto(p, "unclaim")
    /\ UNCHANGED <<registry, journal, cleanup, previews, clock,
                   request, snapshot, event, seen, changes>>

\* Release the claim and answer; a claim that cannot be removed stays.
ReleaseCleanup(p) ==
    /\ pc[p] = "unclaim"
    /\ \/ /\ cleanup' = cleanup \ {event[p]}
          /\ Finish(p, reply[p])
          /\ UNCHANGED faults
       \/ /\ Fault
          /\ Finish(p, "STORAGE_UNAVAILABLE")
          /\ UNCHANGED cleanup
    /\ UNCHANGED <<registry, journal, intent, previews, clock, changes>>

-----------------------------------------------------------------------------
(* repairAlreadyChanged: the rule has the target status already.            *)

LoadEvents(p) ==
    /\ pc[p] = "repairEvents"
    /\ \/ /\ seen' = [seen EXCEPT ![p] = journal]
          /\ Goto(p, "repairIntent")
          /\ UNCHANGED <<files, clock, request, snapshot, event, reply, changes, faults>>
       \/ FailUntouched(p, "STORAGE_UNAVAILABLE")

\* The journal events that record how the rule came to its present status.
RecordedEvents(p) ==
    {e \in seen[p] : /\ e.rule = request[p].rule
                     /\ e.to = request[p].target
                     /\ e.at = snapshot[p].rule[e.rule].updatedAt}

\* The intent is the one of the change that gave the rule its present status.
IntentMatches(p) ==
    LET i == intent[request[p].rule] IN
    /\ i # None
    /\ i.to = request[p].target
    /\ i.at = snapshot[p].rule[i.rule].updatedAt

\* A mistaken repair: any intent of the rule is recorded.
RepairFromAnyIntent(p) ==
    /\ RecordedEvents(p) = {}
    /\ intent[request[p].rule] # None
    /\ event' = [event EXCEPT ![p] = intent[request[p].rule]]
    /\ Goto(p, "loadJournal")
    /\ reply' = [reply EXCEPT ![p] = "ALREADY_CHANGED"]
    /\ UNCHANGED <<request, snapshot, seen>>

\* The intent says what the journal lacks, or nothing does.
RepairUnrecorded(p) ==
    /\ RecordedEvents(p) = {}
    /\ \/ /\ IntentMatches(p)
          /\ event' = [event EXCEPT ![p] = intent[request[p].rule]]
          /\ Goto(p, "loadJournal")
          /\ reply' = [reply EXCEPT ![p] = "ALREADY_CHANGED"]
          /\ UNCHANGED <<request, snapshot, seen>>
       \/ /\ ~IntentMatches(p)
          /\ Finish(p, "UNRESOLVED")

Repair(p) ==
    /\ pc[p] = "repairIntent"
    /\ \/ /\ \/ \E e \in RecordedEvents(p) :
                  IF intent[e.rule] = e
                  THEN /\ event' = [event EXCEPT ![p] = e]
                       /\ Goto(p, "claim")
                       /\ reply' = [reply EXCEPT ![p] = "ALREADY_CHANGED"]
                       /\ UNCHANGED <<request, snapshot, seen>>
                  ELSE Finish(p, "ALREADY_CHANGED")
             \/ RepairUnrecorded(p)
          /\ UNCHANGED <<files, clock, changes, faults>>
       \/ FailUntouched(p, "STORAGE_UNAVAILABLE")

-----------------------------------------------------------------------------
\* The process dies between two file operations and is started again.
Crash(p) ==
    /\ pc[p] # "idle"
    /\ FailUntouched(p, "NONE")

\* The file operation the request is at.
Step(p) ==
    \/ UsePreview(p) \/ RefusePreview(p) \/ PersistIntent(p)
    \/ SaveRegistry(p) \/ LoseRegistry(p) \/ FailRegistry(p)
    \/ LoadJournal(p) \/ WriteJournal(p)
    \/ ClaimCleanup(p) \/ VerifyIntent(p) \/ UnlinkIntent(p) \/ ReleaseCleanup(p)
    \/ LoadEvents(p) \/ Repair(p)

Next ==
    \/ ApproveProposal
    \/ \E p \in Servers :
         \/ \E r \in Rules : Materialize(p, r) \/ PreviewStatusChange(p, r)
         \/ \E r \in Rules, target \in Statuses : StartChange(p, r, target)
         \/ Step(p)
         \/ Crash(p)

Spec == Init /\ [][Next]_vars

\* The owner repeats a request for the status the rule already has, which is
\* how the documentation says a missing audit entry is repaired; a request that
\* has begun goes on.
Retry(p, r) == \E target \in Statuses :
                 registry.rule[r].status = target /\ StartChange(p, r, target)

FairSpec ==
    /\ Spec
    /\ \A p \in Servers : WF_vars(Step(p))
    /\ \A p \in Servers, r \in Rules : SF_vars(Retry(p, r))

-----------------------------------------------------------------------------
(* Properties.                                                              *)

\* The types of the variables.
TypeOK ==
    /\ registry \in Registry
    /\ journal \subseteq Event /\ cleanup \subseteq Event /\ changes \subseteq Event
    /\ intent \in [Rules -> Event \union {None}]
    /\ previews \subseteq Preview
    /\ clock \in Nat /\ faults \in Nat
    /\ pc \in [Servers -> Steps]
    /\ request \in [Servers -> Request \union {None}]
    /\ snapshot \in [Servers -> Registry]
    /\ event \in [Servers -> Event \union {None}]
    /\ seen \in [Servers -> SUBSET Event]
    /\ reply \in [Servers -> Codes]

\* The changes of r that the journal does not record.
Unrecorded(r) == {c \in changes \ journal : c.rule = r}

\* A status change without an audit entry is the rule's latest, and the intent
\* that lets a repeated request write the entry is still on disk: neither a
\* crash nor a failed file operation may lose the entry for good.
AuditComplete ==
    \A c \in changes \ journal :
      /\ intent[c.rule] = c
      /\ registry.rule[c.rule] = [status |-> c.to, updatedAt |-> c.at]

\* The journal records no change that did not happen: a repair never guesses.
NoPhantomAudit == journal \subseteq changes

\* An answer of success means the change is in the journal.
AnsweredChangeIsAudited ==
    [][\A p \in Servers :
         /\ pc[p] # "idle" /\ pc'[p] = "idle"
         /\ reply'[p] \in {"CHANGED", "ALREADY_CHANGED"}
         => \E e \in journal' : e.rule = request[p].rule /\ e.to = request[p].target]_vars

\* An intent is only ever deleted by the request that finishes it, and only when
\* its change is in the journal or never reached the registry.
CleanupExact ==
    [][\A r \in Rules :
         intent[r] # None /\ intent'[r] # intent[r]
         => /\ intent'[r] = None
            /\ \E p \in Servers : pc[p] = "unlink" /\ event[p] = intent[r]]_vars

\* A save of the registry never undoes a status change another request has made.
NoLostStatusChange ==
    \A c \in changes : registry.rule[c.rule].updatedAt >= c.at

\* Nor does it drop a rule that another process has added since the request read
\* the registry.
OtherWritersKept == [][registry'.proposals >= registry.proposals]_vars

\* An audit entry that is missing is written in the end, if the owner repeats
\* the request (docs/purchasing-web-backend-v1.md, "Materialized rule status").
RepairedEventually ==
    \A r \in Rules : Unrecorded(r) # {} ~> Unrecorded(r) = {}

\* Each rule's change that has no record, of which there is one at most.
OneOf(events) == IF events = {} THEN None ELSE CHOOSE c \in events : TRUE

Missing == [r \in Rules |-> OneOf(Unrecorded(r))]

\* The service implements the audit trail.
Trail == INSTANCE AuditTrail WITH
    status <- registry.rule, unrecorded <- Missing, log <- journal

ImplementsAuditTrail == Trail!Spec

\* "registry write failure leaves status unchanged": when the answer is
\* RULE_REGISTRY_UNAVAILABLE, the request has not changed the rule.
UnavailableMeansUnchanged ==
    [][\A p \in Servers :
         pc[p] # "idle" /\ pc'[p] = "idle" /\ reply'[p] = "REGISTRY_UNAVAILABLE"
         => event[p] \notin changes]_vars

-----------------------------------------------------------------------------
(* Why AuditComplete holds with one server: the strengthening that every     *)
(* step preserves.  OwnerRuleStatus_proofs proves it.                        *)

\* The steps that have an event, and those before the registry is replaced.
WithEvent == {"intent", "registry", "loadJournal", "writeJournal",
              "claim", "verify", "unlink", "unclaim"}
BeforeChange == {"preview", "intent", "registry", "repairEvents", "repairIntent"}

\* A request that is executed has its parameters, and its event is about them.
LocalsOK ==
    /\ \A p \in Servers : pc[p] # "idle" => request[p] \in Request
    /\ \A p \in Servers : pc[p] \in WithEvent =>
         event[p] \in Event /\ event[p].rule = request[p].rule
    /\ \A r \in Rules : intent[r] # None => intent[r].rule = r

\* Timestamps tell a change from everything before it.
TimesOrdered ==
    /\ \A r \in Rules : registry.rule[r].updatedAt <= clock
    /\ \A v \in previews : /\ v.createdAt < clock
                           /\ \A r \in Rules : v.registry.rule[r].updatedAt <= v.createdAt

\* An intent is the change the rule has made, or one it has not made yet.
IntentTrue ==
    \A r \in Rules : intent[r] # None =>
      /\ registry.rule[r].status # "ABSENT"
      /\ intent[r] \in changes \/ intent[r].at > registry.rule[r].updatedAt

FilesInv ==
    /\ AuditComplete /\ NoPhantomAudit /\ NoLostStatusChange
    /\ TimesOrdered /\ IntentTrue

\* What a request has read is still what the files hold; the event it is about
\* to make is new, one it records has happened, and one whose intent it deletes
\* is recorded or never happened.
RequestInv(p) ==
    /\ pc[p] # "idle" => registry.rule[request[p].rule].status # "ABSENT"
    /\ pc[p] \in BeforeChange => snapshot[p].rule = registry.rule
    /\ pc[p] \in {"writeJournal", "repairIntent"} => seen[p] = journal
    /\ pc[p] \in {"intent", "registry"} =>
         event[p].at \in (registry.rule[event[p].rule].updatedAt + 1) .. clock
    /\ pc[p] \in {"registry", "unlink"} => intent[event[p].rule] = event[p]
    /\ pc[p] \in {"loadJournal", "writeJournal"} => event[p] \in changes
    /\ pc[p] \in {"claim", "verify", "unlink"} => event[p] \notin changes \ journal

\* The inductive invariant.
Inductive ==
    /\ TypeOK /\ LocalsOK
    /\ FilesInv
    /\ \A p \in Servers : RequestInv(p)

=============================================================================
