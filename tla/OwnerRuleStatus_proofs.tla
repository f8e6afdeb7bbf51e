------------------------ MODULE OwnerRuleStatus_proofs ------------------------
(***************************************************************************)
(* Proofs about OwnerRuleStatus, for any rules, any bounds and, where a    *)
(* theorem says so, for one server whose file removals of the registry     *)
(* lock succeed.                                                           *)
(***************************************************************************)
EXTENDS OwnerRuleStatus, TLAPS

-----------------------------------------------------------------------------
(* Types.                                                                   *)

\* What an event is made of.
LEMMA EventFields ==
  /\ \A e \in Event : e.rule \in Rules /\ e.to \in Statuses /\ e.at \in Nat
  /\ \A v \in Request : v.rule \in Rules /\ v.target \in Statuses
  /\ \A v \in Preview : /\ v.rule \in Rules /\ v.target \in Statuses
                        /\ v.registry \in Registry /\ v.createdAt \in Nat
  BY DEF Event, Request, Preview

\* The empty registry, which a request's locals are reset to, is a registry.
LEMMA EmptyRegistryType == EmptyRegistry \in Registry
<1> DEFINE absent == [status |-> "ABSENT", updatedAt |-> 0]
           rule == [r \in Rules |-> absent]
<1>1. absent \in RuleState
  BY DEF RuleState
<1>2. rule \in [Rules -> RuleState]
  BY <1>1
<1>3. QED
  BY <1>2 DEF EmptyRegistry, Registry

\* The rule part of a registry is a function to rule states with a time each.
LEMMA RegistryFields ==
  ASSUME NEW reg \in Registry, NEW r \in Rules
  PROVE  /\ reg.rule \in [Rules -> RuleState] /\ reg.rule[r] \in RuleState
         /\ reg.rule[r].status \in Statuses \union {"ABSENT"}
         /\ reg.rule[r].updatedAt \in Nat
  BY DEF Registry, RuleState

\* nextRegistry is a registry, and what it changes.
LEMMA WithStatusType ==
  ASSUME NEW reg \in Registry, NEW e \in Event
  PROVE  /\ WithStatus(reg, e) \in Registry
         /\ WithStatus(reg, e).rule[e.rule] = [status |-> e.to, updatedAt |-> e.at]
         /\ \A r \in Rules \ {e.rule} : WithStatus(reg, e).rule[r] = reg.rule[r]
<1> DEFINE state == [status |-> e.to, updatedAt |-> e.at]
           rule == [reg.rule EXCEPT ![e.rule] = state]
<1>1. state \in RuleState
  BY EventFields DEF RuleState, Statuses
<1>2. reg.rule \in [Rules -> RuleState] /\ e.rule \in Rules
  BY EventFields DEF Registry
<1>3. rule \in [Rules -> RuleState]
  BY <1>1, <1>2
<1>4. WithStatus(reg, e) = [reg EXCEPT !.rule = rule, !.updatedAt = e.at]
  BY DEF WithStatus, Registry
<1>5. QED
  BY <1>2, <1>3, <1>4, EventFields DEF Registry

\* Ending a request leaves the local variables in their types, and those of
\* the other servers alone.
LEMMA FinishStep ==
  ASSUME TypeOK, NEW p \in Servers, NEW code \in Codes, Finish(p, code)
  PROVE  /\ pc' \in [Servers -> Steps] /\ request' \in [Servers -> Request \union {None}]
         /\ snapshot' \in [Servers -> Registry] /\ event' \in [Servers -> Event \union {None}]
         /\ seen' \in [Servers -> SUBSET Event] /\ reply' \in [Servers -> Codes]
         /\ pc'[p] = "idle" /\ reply'[p] = code
         /\ \A q \in Servers \ {p} : /\ pc'[q] = pc[q] /\ request'[q] = request[q]
                                     /\ snapshot'[q] = snapshot[q] /\ event'[q] = event[q]
                                     /\ seen'[q] = seen[q]
  BY EmptyRegistryType DEF TypeOK, Finish, Goto, Steps

\* Going on to another step changes nothing else about control.
LEMMA GotoStep ==
  ASSUME TypeOK, NEW p \in Servers, NEW step \in Steps, Goto(p, step)
  PROVE  /\ pc' \in [Servers -> Steps]
         /\ pc'[p] = step
         /\ \A q \in Servers \ {p} : pc'[q] = pc[q]
  BY DEF TypeOK, Goto

\* The types of the files and of what belongs to no single request.
FilesTyped ==
    /\ registry \in Registry
    /\ journal \subseteq Event /\ cleanup \subseteq Event /\ changes \subseteq Event
    /\ intent \in [Rules -> Event \union {None}]
    /\ \A r \in Rules : intent[r] # None => intent[r].rule = r
    /\ previews \subseteq Preview
    /\ clock \in Nat /\ faults \in Nat

\* Files that a step leaves alone keep their types.
LEMMA FilesTypedKept ==
  ASSUME TypeOK, LocalsOK, UNCHANGED <<files, clock, changes>>,
         Fault \/ UNCHANGED faults
  PROVE  FilesTyped'
BY DEF TypeOK, LocalsOK, FilesTyped, files, Fault

\* A request that ends leaves its server's variables with their types.
LEMMA EndKeepsTypes ==
  ASSUME TypeOK, LocalsOK, NEW p \in Servers, NEW code \in Codes, Finish(p, code),
         FilesTyped'
  PROVE  TypeOK' /\ LocalsOK'
<1>1. TypeOK'
  BY FinishStep DEF TypeOK, FilesTyped
<1>2. LocalsOK'
  BY FinishStep DEF LocalsOK, FilesTyped, WithEvent
<1>3. QED
  BY <1>1, <1>2

\* So does a request that goes on to a step for which it has an event.
LEMMA GoOnKeepsTypes ==
  ASSUME TypeOK, LocalsOK, NEW p \in Servers, NEW step \in Steps, Goto(p, step),
         FilesTyped', UNCHANGED <<request, snapshot, event>>,
         pc[p] \in WithEvent,
         seen' \in [Servers -> SUBSET Event], reply' \in [Servers -> Codes]
  PROVE  TypeOK' /\ LocalsOK'
<1>1. TypeOK'
  BY GotoStep DEF TypeOK, FilesTyped
<1>2. LocalsOK'
  BY GotoStep DEF LocalsOK, FilesTyped, WithEvent
<1>3. QED
  BY <1>1, <1>2

\* The type of a reply that is replaced.
LEMMA ReplyType ==
  ASSUME TypeOK, NEW p \in Servers, NEW code \in Codes,
         reply' = [reply EXCEPT ![p] = code] \/ UNCHANGED reply
  PROVE  reply' \in [Servers -> Codes]
BY DEF TypeOK

\* Every step leaves the variables in their types, a request with its
\* parameters, and its event about the request's rule.
LEMMA TypeStep ==
  ASSUME TypeOK, LocalsOK, [Next]_vars
  PROVE  TypeOK' /\ LocalsOK'
<1> USE ConstantsAssumption DEF Steps, Codes, WithEvent
<1>1. CASE UNCHANGED vars
  BY <1>1 DEF TypeOK, LocalsOK, vars, files, local
<1>2. CASE ApproveProposal
  <2>1. registry' \in Registry
    <3>1. registry' = [rule |-> registry.rule, proposals |-> registry.proposals + 1,
                       updatedAt |-> clock]
      BY <1>2 DEF TypeOK, ApproveProposal, Registry
    <3>2. QED
      BY <3>1 DEF TypeOK, Registry
  <2>2. QED
    BY <1>2, <2>1 DEF TypeOK, LocalsOK, ApproveProposal, local
<1>3. ASSUME NEW p \in Servers, NEW r \in Rules, Materialize(p, r)
      PROVE  TypeOK' /\ LocalsOK'
  <2> DEFINE state == [status |-> "DISABLED", updatedAt |-> clock]
             rule == [registry.rule EXCEPT ![r] = state]
  <2>1. rule \in [Rules -> RuleState]
    BY RegistryFields DEF TypeOK, RuleState, Statuses
  <2>2. registry' = [registry EXCEPT !.rule = rule, !.updatedAt = clock]
    BY <1>3 DEF TypeOK, Materialize, Registry
  <2>3. registry' \in Registry
    BY <2>1, <2>2 DEF TypeOK, Registry
  <2>4. QED
    BY <1>3, <2>3 DEF TypeOK, LocalsOK, Materialize, local
<1>4. ASSUME NEW p \in Servers, NEW r \in Rules, PreviewStatusChange(p, r)
      PROVE  TypeOK' /\ LocalsOK'
  BY <1>4 DEF TypeOK, LocalsOK, PreviewStatusChange, local, Preview, Opposite, Statuses
<1>5. ASSUME NEW p \in Servers, NEW r \in Rules, NEW target \in Statuses,
             StartChange(p, r, target)
      PROVE  TypeOK' /\ LocalsOK'
  BY <1>5 DEF TypeOK, LocalsOK, StartChange, Goto, files, Request
<1>6. ASSUME NEW p \in Servers, UsePreview(p)
      PROVE  TypeOK' /\ LocalsOK'
  <2>1. PICK v \in previews :
          /\ v.rule = request[p].rule /\ v.target = request[p].target
          /\ event' = [event EXCEPT ![p] = [rule |-> v.rule, to |-> v.target,
                                            at |-> clock, preview |-> v.createdAt]]
    BY <1>6 DEF UsePreview
  <2>2. [rule |-> v.rule, to |-> v.target, at |-> clock, preview |-> v.createdAt] \in Event
    BY EventFields DEF TypeOK, Event
  <2>3. pc' \in [Servers -> Steps] /\ pc'[p] = "intent" /\ \A q \in Servers \ {p} : pc'[q] = pc[q]
    BY <1>6, GotoStep DEF UsePreview
  <2>4. event' \in [Servers -> Event \union {None}] /\ event'[p] \in Event
        /\ event'[p].rule = request[p].rule /\ \A q \in Servers \ {p} : event'[q] = event[q]
    BY <2>1, <2>2 DEF TypeOK
  <2>5. QED
    BY <1>6, <2>3, <2>4 DEF TypeOK, LocalsOK, UsePreview, files
<1>7. ASSUME NEW p \in Servers, RefusePreview(p)
      PROVE  TypeOK' /\ LocalsOK'
  BY <1>7, FilesTypedKept, EndKeepsTypes DEF RefusePreview
<1>8. ASSUME NEW p \in Servers, PersistIntent(p)
      PROVE  TypeOK' /\ LocalsOK'
  <2>1. event[p] \in Event
    BY <1>8 DEF PersistIntent, LocalsOK
  <2>2. CASE intent[event[p].rule] \notin {None, event[p]}
    <3>1. FilesTyped' /\ Finish(p, "IN_PROGRESS")
      BY <1>8, <2>2, FilesTypedKept DEF PersistIntent
    <3>2. QED
      BY <3>1, EndKeepsTypes
  <2>3. CASE intent[event[p].rule] \in {None, event[p]}
    <3>1. FilesTyped'
      BY <1>8, <2>1, <2>3, EventFields DEF PersistIntent, TypeOK, LocalsOK, FilesTyped, Fault
    <3>2. CASE Finish(p, "STORAGE_UNAVAILABLE")
      BY <3>1, <3>2, EndKeepsTypes
    <3>3. CASE ~Finish(p, "STORAGE_UNAVAILABLE")
      BY <1>8, <2>3, <3>1, <3>3, GoOnKeepsTypes DEF PersistIntent, TypeOK
    <3>4. QED
      BY <3>2, <3>3
  <2>4. QED
    BY <2>2, <2>3
<1>9. ASSUME NEW p \in Servers, SaveRegistry(p)
      PROVE  TypeOK' /\ LocalsOK'
  <2>1. event[p] \in Event
    BY <1>9 DEF SaveRegistry, LocalsOK
  <2>2. registry' \in Registry /\ changes' \subseteq Event
    BY <1>9, <2>1, WithStatusType DEF SaveRegistry, RegistryTaken, TypeOK
  <2>3. FilesTyped'
    BY <1>9, <2>2 DEF SaveRegistry, TypeOK, LocalsOK, FilesTyped
  <2>4. QED
    BY <1>9, <2>3, GoOnKeepsTypes, ReplyType DEF SaveRegistry, TypeOK
<1>10. ASSUME NEW p \in Servers, LoseRegistry(p)
      PROVE  TypeOK' /\ LocalsOK'
  BY <1>10, FilesTypedKept, EndKeepsTypes DEF LoseRegistry
<1>11. ASSUME NEW p \in Servers, FailRegistry(p)
      PROVE  TypeOK' /\ LocalsOK'
  <2>1. event[p] \in Event
    BY <1>11 DEF FailRegistry, LocalsOK
  <2>2. registry' \in Registry /\ changes' \subseteq Event
    <3>1. CASE UNCHANGED <<registry, changes>>
      BY <3>1 DEF TypeOK
    <3>2. CASE RegistryTaken(p)
      BY <2>1, <3>2, WithStatusType DEF RegistryTaken, TypeOK
    <3>3. QED
      BY <1>11, <3>1, <3>2 DEF FailRegistry
  <2>3. pc' \in [Servers -> Steps] /\ pc'[p] = "claim" /\ \A q \in Servers \ {p} : pc'[q] = pc[q]
    BY <1>11, GotoStep DEF FailRegistry
  <2>4. UNCHANGED <<journal, intent, cleanup, previews, clock, request, snapshot, event, seen>>
        /\ reply' = [reply EXCEPT ![p] = "REGISTRY_UNAVAILABLE"]
        /\ faults' = faults + 1 /\ pc[p] = "registry"
    BY <1>11 DEF FailRegistry, Fault
  <2>5. TypeOK'
    BY <2>2, <2>3, <2>4 DEF TypeOK
  <2>6. LocalsOK'
    BY <2>3, <2>4 DEF LocalsOK
  <2>7. QED
    BY <2>5, <2>6
<1>12. ASSUME NEW p \in Servers, LoadJournal(p)
      PROVE  TypeOK' /\ LocalsOK'
  <2>1. CASE FailUntouched(p, "STORAGE_UNAVAILABLE")
    BY <2>1, FilesTypedKept, EndKeepsTypes DEF FailUntouched
  <2>2. CASE ~FailUntouched(p, "STORAGE_UNAVAILABLE")
    <3>1. FilesTyped'
      BY <1>12, <2>2, FilesTypedKept DEF LoadJournal
    <3>2. seen' \in [Servers -> SUBSET Event]
      BY <1>12, <2>2 DEF LoadJournal, TypeOK
    <3>3. QED
      BY <1>12, <2>2, <3>1, <3>2, GoOnKeepsTypes DEF LoadJournal, TypeOK
  <2>3. QED
    BY <2>1, <2>2
<1>13. ASSUME NEW p \in Servers, WriteJournal(p)
      PROVE  TypeOK' /\ LocalsOK'
  <2>1. event[p] \in Event /\ seen[p] \subseteq Event
    BY <1>13 DEF WriteJournal, TypeOK, LocalsOK
  <2>2. journal' \subseteq Event
    BY <1>13, <2>1 DEF WriteJournal, TypeOK
  <2>3. FilesTyped'
    BY <1>13, <2>2 DEF WriteJournal, TypeOK, LocalsOK, FilesTyped, Fault
  <2>4. CASE Finish(p, "STORAGE_UNAVAILABLE")
    BY <2>3, <2>4, EndKeepsTypes
  <2>5. CASE ~Finish(p, "STORAGE_UNAVAILABLE")
    BY <1>13, <2>3, <2>5, GoOnKeepsTypes DEF WriteJournal, TypeOK
  <2>6. QED
    BY <2>4, <2>5
<1>14. ASSUME NEW p \in Servers, ClaimCleanup(p)
      PROVE  TypeOK' /\ LocalsOK'
  <2>1. event[p] \in Event /\ reply[p] \in Codes
    BY <1>14 DEF ClaimCleanup, TypeOK, LocalsOK
  <2>2. cleanup' \subseteq Event
    BY <1>14, <2>1 DEF ClaimCleanup, TypeOK
  <2>3. FilesTyped'
    BY <1>14, <2>2 DEF ClaimCleanup, TypeOK, LocalsOK, FilesTyped, Fault
  <2>4. CASE Finish(p, reply[p]) \/ Finish(p, "STORAGE_UNAVAILABLE")
    BY <2>1, <2>3, <2>4, EndKeepsTypes
  <2>5. CASE ~(Finish(p, reply[p]) \/ Finish(p, "STORAGE_UNAVAILABLE"))
    BY <1>14, <2>3, <2>5, GoOnKeepsTypes DEF ClaimCleanup, TypeOK
  <2>6. QED
    BY <2>4, <2>5
<1>15. ASSUME NEW p \in Servers, VerifyIntent(p)
      PROVE  TypeOK' /\ LocalsOK'
  <2>1. FilesTyped'
    BY <1>15, FilesTypedKept DEF VerifyIntent
  <2>2. QED
    BY <1>15, <2>1, GoOnKeepsTypes DEF VerifyIntent, TypeOK
<1>16. ASSUME NEW p \in Servers, UnlinkIntent(p)
      PROVE  TypeOK' /\ LocalsOK'
  <2>1. FilesTyped'
    BY <1>16 DEF UnlinkIntent, TypeOK, LocalsOK, FilesTyped, Fault
  <2>2. QED
    BY <1>16, <2>1, GoOnKeepsTypes, ReplyType DEF UnlinkIntent, TypeOK
<1>17. ASSUME NEW p \in Servers, ReleaseCleanup(p)
      PROVE  TypeOK' /\ LocalsOK'
  <2>1. FilesTyped' /\ reply[p] \in Codes
    BY <1>17 DEF ReleaseCleanup, TypeOK, LocalsOK, FilesTyped, Fault
  <2>2. QED
    BY <1>17, <2>1, EndKeepsTypes DEF ReleaseCleanup
<1>18. ASSUME NEW p \in Servers, LoadEvents(p)
      PROVE  TypeOK' /\ LocalsOK'
  <2>1. CASE FailUntouched(p, "STORAGE_UNAVAILABLE")
    BY <1>18, <2>1, FinishStep DEF TypeOK, LocalsOK, FailUntouched, Fault, files, LoadEvents
  <2>2. CASE ~FailUntouched(p, "STORAGE_UNAVAILABLE")
    BY <1>18, <2>2 DEF TypeOK, LocalsOK, LoadEvents, Goto, files
  <2>3. QED
    BY <2>1, <2>2
<1>19. ASSUME NEW p \in Servers, Repair(p)
      PROVE  TypeOK' /\ LocalsOK'
  <2>1. CASE Finish(p, "ALREADY_CHANGED") /\ UNCHANGED <<files, clock, changes, faults>>
    BY <2>1, FinishStep DEF TypeOK, LocalsOK, files
  <2>2. CASE RepairUnrecorded(p) /\ UNCHANGED <<files, clock, changes, faults>>
    <3>1. CASE Finish(p, "UNRESOLVED")
      BY <2>2, <3>1, FinishStep DEF TypeOK, LocalsOK, files
    <3>2. CASE ~Finish(p, "UNRESOLVED")
      <4>1. request[p].rule \in Rules
        BY <1>19, EventFields DEF Repair, LocalsOK
      <4>2. intent[request[p].rule] \in Event /\ intent[request[p].rule].rule = request[p].rule
        BY <2>2, <3>2, <4>1 DEF RepairUnrecorded, IntentMatches, TypeOK, LocalsOK
      <4>3. QED
        BY <1>19, <2>2, <3>2, <4>2 DEF TypeOK, LocalsOK, RepairUnrecorded, Goto, files, Repair
    <3>3. QED
      BY <3>1, <3>2
  <2>3. CASE FailUntouched(p, "STORAGE_UNAVAILABLE")
    BY <2>3, FinishStep DEF TypeOK, LocalsOK, FailUntouched, Fault, files
  <2>4. CASE /\ \E e \in RecordedEvents(p) :
                  /\ event' = [event EXCEPT ![p] = e]
                  /\ Goto(p, "claim")
                  /\ reply' = [reply EXCEPT ![p] = "ALREADY_CHANGED"]
                  /\ UNCHANGED <<request, snapshot, seen>>
             /\ UNCHANGED <<files, clock, changes, faults>>
    <3>1. PICK e \in RecordedEvents(p) : event' = [event EXCEPT ![p] = e]
      BY <2>4
    <3>2. e \in Event /\ e.rule = request[p].rule
      BY <3>1 DEF RecordedEvents, TypeOK
    <3>3. pc' \in [Servers -> Steps] /\ pc'[p] = "claim" /\ \A q \in Servers \ {p} : pc'[q] = pc[q]
      BY <2>4, GotoStep
    <3>4. QED
      BY <1>19, <2>4, <3>1, <3>2, <3>3 DEF TypeOK, LocalsOK, files, Repair
  <2>5. QED
    BY <1>19, <2>1, <2>2, <2>3, <2>4 DEF Repair
<1>20. ASSUME NEW p \in Servers, Crash(p)
      PROVE  TypeOK' /\ LocalsOK'
  BY <1>20, FilesTypedKept, EndKeepsTypes DEF Crash, FailUntouched
<1>21. QED
  BY <1>1, <1>2, <1>3, <1>4, <1>5, <1>6, <1>7, <1>8, <1>9, <1>10, <1>11, <1>12, <1>13, <1>14, <1>15, <1>16, <1>17, <1>18, <1>19, <1>20 DEF Next, Step

\* Initially the variables have their types and no request is executed.
LEMMA TypeInit == Init => TypeOK /\ LocalsOK
<1> SUFFICES ASSUME Init PROVE TypeOK /\ LocalsOK
  OBVIOUS
<1>1. registry \in Registry
  <2>1. PICK f \in [Rules -> [status : {"ABSENT", "DISABLED"}, updatedAt : {0}]] :
          registry = [EmptyRegistry EXCEPT !.rule = f]
    BY DEF Init
  <2>2. f \in [Rules -> RuleState]
    BY DEF RuleState, Statuses
  <2>3. QED
    BY <2>1, <2>2, EmptyRegistryType DEF Registry
<1>2. QED
  BY <1>1, EmptyRegistryType DEF Init, TypeOK, LocalsOK, Steps, Codes, WithEvent

\* The variables keep their types, for any number of servers.
THEOREM TypeCorrect == Spec => []TypeOK
<1>1. TypeOK /\ LocalsOK /\ [Next]_vars => TypeOK' /\ LocalsOK'
  BY TypeStep
<1>2. QED
  BY TypeInit, <1>1, PTL DEF Spec

\* A status change leaves the other rules of the registry alone.
LEMMA WithStatusKeepsProposals ==
  ASSUME NEW reg \in Registry, NEW e
  PROVE  WithStatus(reg, e).proposals = reg.proposals
<1> DEFINE rule == [reg.rule EXCEPT ![e.rule] = [status |-> e.to, updatedAt |-> e.at]]
<1>1. WithStatus(reg, e) = [reg EXCEPT !.rule = rule, !.updatedAt = e.at]
  BY DEF WithStatus, Registry
<1> HIDE DEF rule
<1>2. QED
  BY <1>1 DEF Registry

\* No step drops a rule another process has added: for any number of servers, and
\* whether or not the registry's lock file resists its removal.
THEOREM OtherWritersUndisturbed == Spec => OtherWritersKept
<1>1. ASSUME TypeOK, [Next]_vars
      PROVE  [registry'.proposals >= registry.proposals]_vars
  <2>types. registry \in Registry /\ registry.proposals \in Nat
    BY <1>1 DEF TypeOK, Registry
  <2>1. CASE UNCHANGED registry
    BY <2>types, <2>1
  <2>2. CASE ApproveProposal
    <3>1. registry' = [registry EXCEPT !.proposals = registry.proposals + 1, !.updatedAt = clock]
      BY <2>2 DEF ApproveProposal
    <3>2. QED
      BY <2>types, <3>1 DEF Registry
  <2>3. ASSUME NEW p \in Servers, NEW r \in Rules, Materialize(p, r)
        PROVE  registry'.proposals >= registry.proposals
    <3> DEFINE rule == [registry.rule EXCEPT ![r] = [status |-> "DISABLED", updatedAt |-> clock]]
    <3>1. registry' = [registry EXCEPT !.rule = rule, !.updatedAt = clock]
      BY <2>3, <2>types DEF Materialize, Registry
    <3> HIDE DEF rule
    <3>2. QED
      BY <2>types, <3>1 DEF Registry
  <2>4. ASSUME NEW p \in Servers, RegistryTaken(p)
        PROVE  registry'.proposals >= registry.proposals
    BY <2>types, <2>4, WithStatusKeepsProposals DEF RegistryTaken
  <2>5. ASSUME NEW p \in Servers, Step(p)
        PROVE  UNCHANGED registry \/ RegistryTaken(p)
    BY <2>5 DEF Step, UsePreview, RefusePreview, PersistIntent, SaveRegistry, LoseRegistry,
                FailRegistry, LoadJournal, WriteJournal, ClaimCleanup, VerifyIntent,
                UnlinkIntent, ReleaseCleanup, LoadEvents, Repair, FailUntouched, files
  <2>6. QED
    BY <1>1, <2>1, <2>2, <2>3, <2>4, <2>5
       DEF Next, PreviewStatusChange, StartChange, Crash, FailUntouched, files, vars
<1>2. QED
  BY <1>1, TypeCorrect, PTL DEF Spec, OtherWritersKept

-----------------------------------------------------------------------------
(* The audit trail of one server whose removals of the registry's lock file  *)
(* succeed.                                                                  *)

OneServer == \A p, q \in Servers : p = q

\* What holds of the files holds until a file or the clock changes.
LEMMA FilesKept ==
  ASSUME FilesInv, UNCHANGED <<registry, journal, intent, previews, clock, changes>>
  PROVE  FilesInv'
  BY DEF FilesInv, AuditComplete, NoPhantomAudit, NoLostStatusChange,
         TimesOrdered, IntentTrue

\* A server that executes nothing has nothing to keep true.
LEMMA IdleServer ==
  ASSUME OneServer, NEW p \in Servers, pc'[p] = "idle"
  PROVE  \A q \in Servers : RequestInv(q)'
  BY DEF OneServer, RequestInv, BeforeChange

\* Initially nothing has changed and every server is idle.
LEMMA InductiveInit == Init => Inductive
<1> SUFFICES ASSUME Init PROVE Inductive
  OBVIOUS
<1>1. TypeOK /\ LocalsOK
  BY TypeInit
<1>2. \A r \in Rules : registry.rule[r].updatedAt = 0
  <2>1. PICK f \in [Rules -> [status : {"ABSENT", "DISABLED"}, updatedAt : {0}]] :
          registry = [EmptyRegistry EXCEPT !.rule = f]
    BY DEF Init
  <2>2. registry.rule = f
    BY <2>1 DEF EmptyRegistry
  <2>3. QED
    BY <2>2
<1>3. FilesInv
  BY <1>2 DEF Init, FilesInv, AuditComplete, NoPhantomAudit, NoLostStatusChange,
              TimesOrdered, IntentTrue
<1>4. \A p \in Servers : RequestInv(p)
  BY DEF Init, RequestInv, BeforeChange
<1>5. QED
  BY <1>1, <1>3, <1>4 DEF Inductive

\* Every step preserves the inductive invariant.
LEMMA InductiveStep ==
  ASSUME OneServer, ~LockRemovalCanFail, Inductive, [Next]_vars
  PROVE  Inductive'
<1> SUFFICES FilesInv' /\ \A q \in Servers : RequestInv(q)'
  BY TypeStep DEF Inductive
<1>a. TypeOK /\ LocalsOK /\ FilesInv /\ (\A q \in Servers : RequestInv(q)) /\ TypeOK' /\ LocalsOK'
  BY TypeStep DEF Inductive
<1> USE <1>a, ConstantsAssumption DEF BeforeChange, WithEvent, Steps, Codes
<1>1. CASE UNCHANGED vars
  BY <1>1, FilesKept DEF vars, files, local, RequestInv
<1>2. CASE ApproveProposal
  <2>1. registry'.rule = registry.rule
    BY <1>2 DEF ApproveProposal, TypeOK, Registry
  <2>2. FilesInv'
    BY <1>2, <2>1 DEF ApproveProposal, FilesInv, AuditComplete, NoPhantomAudit,
                      NoLostStatusChange, TimesOrdered, IntentTrue
  <2>3. \A q \in Servers : RequestInv(q)'
    BY <1>2, <2>1 DEF ApproveProposal, local, RequestInv
  <2>4. QED
    BY <2>2, <2>3
<1>3. ASSUME NEW p \in Servers, NEW r \in Rules, Materialize(p, r)
      PROVE  FilesInv' /\ \A q \in Servers : RequestInv(q)'
  <2>1. /\ \A q \in Rules \ {r} : registry'.rule[q] = registry.rule[q]
        /\ registry'.rule[r] = [status |-> "DISABLED", updatedAt |-> clock]
        /\ registry.rule[r].status = "ABSENT" /\ registry.rule[r].updatedAt <= clock
    BY <1>3 DEF Materialize, TypeOK, Registry, FilesInv, TimesOrdered
  <2>2. UNCHANGED <<journal, intent, previews, clock, changes>>
    BY <1>3 DEF Materialize
  <2>3. AuditComplete' /\ NoPhantomAudit'
    BY <2>1, <2>2, EventFields DEF FilesInv, AuditComplete, NoPhantomAudit, TypeOK, Statuses
  <2>4. NoLostStatusChange'
    <3>1. SUFFICES ASSUME NEW c \in changes
                   PROVE  registry'.rule[c.rule].updatedAt >= c.at
      BY <2>2 DEF NoLostStatusChange
    <3>2. /\ c.rule \in Rules /\ c.at \in Nat /\ clock \in Nat
          /\ registry.rule[c.rule].updatedAt >= c.at
          /\ registry.rule[c.rule].updatedAt \in Nat
      BY EventFields, RegistryFields DEF FilesInv, NoLostStatusChange, TypeOK
    <3>3. registry'.rule[c.rule].updatedAt >= registry.rule[c.rule].updatedAt
      BY <2>1, <3>2
    <3>4. QED
      BY <2>1, <3>2, <3>3
  <2>5. TimesOrdered' /\ IntentTrue'
    BY <2>1, <2>2 DEF FilesInv, TimesOrdered, IntentTrue, TypeOK
  <2>6. \A q \in Servers : RequestInv(q)'
    BY <1>3, IdleServer DEF Materialize, local
  <2>7. QED
    BY <2>3, <2>4, <2>5, <2>6 DEF FilesInv
<1>4. ASSUME NEW p \in Servers, NEW r \in Rules, PreviewStatusChange(p, r)
      PROVE  FilesInv' /\ \A q \in Servers : RequestInv(q)'
  <2>1. UNCHANGED <<registry, journal, intent, changes>> /\ clock' = clock + 1
    BY <1>4 DEF PreviewStatusChange
  <2>2. \A v \in previews' : v \in previews \/ (v.registry = registry /\ v.createdAt = clock)
    BY <1>4 DEF PreviewStatusChange
  <2>3. TimesOrdered'
    BY <2>1, <2>2, RegistryFields, EventFields DEF TypeOK, FilesInv, TimesOrdered
  <2>4. FilesInv'
    BY <2>1, <2>3 DEF FilesInv, AuditComplete, NoPhantomAudit, NoLostStatusChange, IntentTrue
  <2>5. \A q \in Servers : RequestInv(q)'
    BY <1>4, IdleServer DEF PreviewStatusChange, local
  <2>6. QED
    BY <2>4, <2>5
<1>5. ASSUME NEW p \in Servers, NEW r \in Rules, NEW target \in Statuses,
             StartChange(p, r, target)
      PROVE  FilesInv' /\ \A q \in Servers : RequestInv(q)'
  <2>1. FilesInv'
    BY <1>5, FilesKept DEF StartChange, files
  <2>2. \A q \in Servers : RequestInv(q)'
    BY <1>5 DEF StartChange, Goto, files, RequestInv, OneServer, TypeOK
  <2>3. QED
    BY <2>1, <2>2
<1>6. ASSUME NEW p \in Servers, UsePreview(p)
      PROVE  FilesInv' /\ \A q \in Servers : RequestInv(q)'
  <2>1. FilesInv'
    BY <1>6, FilesKept DEF UsePreview, files
  <2>2. PICK v \in previews :
          /\ v.rule = request[p].rule /\ v.registry = snapshot[p]
          /\ event'[p] = [rule |-> v.rule, to |-> v.target, at |-> clock,
                          preview |-> v.createdAt]
    BY <1>6 DEF UsePreview, TypeOK
  <2>3. v.createdAt < clock /\ registry.rule[v.rule].updatedAt <= v.createdAt
    BY <1>6, <2>2, EventFields DEF UsePreview, FilesInv, TimesOrdered, RequestInv, TypeOK
  <2>4. event'[p].at \in (registry.rule[event'[p].rule].updatedAt + 1) .. clock
    BY <2>2, <2>3, EventFields, RegistryFields DEF TypeOK
  <2>5. \A q \in Servers : RequestInv(q)'
    BY <1>6, <2>4 DEF UsePreview, Goto, files, RequestInv, OneServer, TypeOK
  <2>6. QED
    BY <2>1, <2>5
<1>7. ASSUME NEW p \in Servers, RefusePreview(p)
      PROVE  FilesInv' /\ \A q \in Servers : RequestInv(q)'
  BY <1>7, FilesKept, FinishStep, IdleServer DEF RefusePreview, files
<1>8. ASSUME NEW p \in Servers, PersistIntent(p)
      PROVE  FilesInv' /\ \A q \in Servers : RequestInv(q)'
  <2> DEFINE e == event[p]
  <2>1. /\ UNCHANGED <<registry, journal, previews, clock, changes>>
        /\ pc[p] = "intent"
        /\ \/ UNCHANGED intent
           \/ intent[e.rule] \in {None, e} /\ intent' = [intent EXCEPT ![e.rule] = e]
    BY <1>8 DEF PersistIntent, FailUntouched, files
  <2>2. /\ e \in Event /\ e.rule \in Rules /\ e.rule = request[p].rule
        /\ registry.rule[e.rule].status # "ABSENT"
        /\ e.at > registry.rule[e.rule].updatedAt
    BY <2>1, EventFields, RegistryFields DEF LocalsOK, RequestInv, TypeOK
  <2>3. AuditComplete'
    <3>1. SUFFICES ASSUME NEW c \in changes \ journal
                   PROVE  intent'[c.rule] = c
      BY <2>1 DEF AuditComplete, FilesInv
    <3>2. intent[c.rule] = c /\ c \in Event /\ c.rule \in Rules
      BY EventFields DEF FilesInv, AuditComplete, TypeOK
    <3>3. c # None
      BY <3>2, ConstantsAssumption
    <3>4. QED
      BY <2>1, <2>2, <3>2, <3>3 DEF TypeOK
  <2>4. IntentTrue'
    BY <2>1, <2>2 DEF FilesInv, IntentTrue, TypeOK
  <2>5. FilesInv'
    BY <2>1, <2>3, <2>4 DEF FilesInv, NoPhantomAudit, NoLostStatusChange, TimesOrdered
  <2>6. CASE pc'[p] = "idle"
    BY <2>5, <2>6, IdleServer
  <2>7. CASE pc'[p] # "idle"
    <3>1. /\ pc'[p] = "registry" /\ intent'[e.rule] = e
          /\ UNCHANGED <<request, snapshot, event, seen>>
      BY <1>8, <2>2, <2>7, FinishStep DEF PersistIntent, FailUntouched, Goto, TypeOK
    <3>2. \A q \in Servers : RequestInv(q)'
      BY <2>1, <3>1 DEF RequestInv, OneServer
    <3>3. QED
      BY <2>5, <3>2
  <2>8. QED
    BY <2>6, <2>7
<1>9. ASSUME NEW p \in Servers, SaveRegistry(p)
      PROVE  FilesInv' /\ \A q \in Servers : RequestInv(q)'
  <2> DEFINE e == event[p]
  <2>1. /\ e \in Event /\ e.rule \in Rules /\ e.rule = request[p].rule
        /\ intent[e.rule] = e
        /\ e.at \in (registry.rule[e.rule].updatedAt + 1) .. clock
    BY <1>9, EventFields DEF SaveRegistry, LocalsOK, RequestInv, TypeOK
  <2>2. /\ registry'.rule[e.rule] = [status |-> e.to, updatedAt |-> e.at]
        /\ \A r \in Rules \ {e.rule} : registry'.rule[r] = registry.rule[r]
        /\ changes' = changes \union {e}
        /\ UNCHANGED <<journal, intent, previews, clock>>
    BY <1>9, <2>1, WithStatusType DEF SaveRegistry, RegistryTaken, TypeOK
  <2>3. AuditComplete'
    <3>1. SUFFICES ASSUME NEW c \in changes' \ journal'
                   PROVE  /\ intent'[c.rule] = c
                          /\ registry'.rule[c.rule] = [status |-> c.to, updatedAt |-> c.at]
      BY DEF AuditComplete
    <3>2. CASE c = e
      BY <2>1, <2>2, <3>2
    <3>3. CASE c # e
      <4>1. c \in changes \ journal /\ c.rule \in Rules
        BY <2>2, <3>3, EventFields DEF TypeOK
      <4>2. intent[c.rule] = c /\ c.rule # e.rule
        BY <2>1, <3>3, <4>1 DEF FilesInv, AuditComplete
      <4>3. QED
        BY <2>2, <4>1, <4>2 DEF FilesInv, AuditComplete
    <3>4. QED
      BY <3>2, <3>3
  <2>4. NoPhantomAudit'
    BY <2>2 DEF FilesInv, NoPhantomAudit
  <2>5. NoLostStatusChange'
    <3>1. SUFFICES ASSUME NEW c \in changes'
                   PROVE  registry'.rule[c.rule].updatedAt >= c.at
      BY DEF NoLostStatusChange
    <3>2. CASE c = e
      BY <2>1, <2>2, <3>2, EventFields
    <3>3. CASE c # e
      <4>1. /\ c \in changes /\ c.rule \in Rules /\ c.at \in Nat
            /\ registry.rule[c.rule].updatedAt >= c.at
        BY <2>2, <3>3, EventFields DEF FilesInv, NoLostStatusChange, TypeOK
      <4>2. QED
        BY <2>1, <2>2, <4>1, EventFields, RegistryFields DEF TypeOK
    <3>4. QED
      BY <3>2, <3>3
  <2>6. TimesOrdered'
    BY <2>1, <2>2, EventFields DEF FilesInv, TimesOrdered, TypeOK
  <2>7. IntentTrue'
    BY <2>1, <2>2, EventFields DEF FilesInv, IntentTrue, Statuses
  <2>8. \A q \in Servers : RequestInv(q)'
    <3>1. pc'[p] = "loadJournal" /\ event'[p] = e /\ request'[p] = request[p]
      BY <1>9 DEF SaveRegistry, Goto, TypeOK
    <3>2. registry'.rule[e.rule].status # "ABSENT" /\ e \in changes'
      BY <2>1, <2>2, EventFields DEF Statuses
    <3>3. QED
      BY <2>1, <3>1, <3>2 DEF RequestInv, OneServer
  <2>9. QED
    BY <2>3, <2>4, <2>5, <2>6, <2>7, <2>8 DEF FilesInv
<1>10. ASSUME NEW p \in Servers, LoseRegistry(p)
      PROVE  FilesInv' /\ \A q \in Servers : RequestInv(q)'
  BY <1>10, FilesKept, FinishStep, IdleServer DEF LoseRegistry, files
<1>11. ASSUME NEW p \in Servers, FailRegistry(p)
      PROVE  FilesInv' /\ \A q \in Servers : RequestInv(q)'
  <2>1. /\ UNCHANGED <<registry, changes, journal, intent, cleanup, previews, clock,
                       request, snapshot, event, seen>>
        /\ pc[p] = "registry" /\ pc'[p] = "claim"
    BY <1>11 DEF FailRegistry, Goto, TypeOK
  <2>2. event[p] \notin changes
    <3>1. event[p] \in Event /\ event[p].at > registry.rule[event[p].rule].updatedAt
      BY <2>1, EventFields, RegistryFields DEF LocalsOK, RequestInv, TypeOK
    <3>2. QED
      BY <3>1, EventFields, RegistryFields DEF FilesInv, NoLostStatusChange, TypeOK
  <2>3. FilesInv'
    BY <2>1, FilesKept
  <2>4. \A q \in Servers : RequestInv(q)'
    BY <2>1, <2>2 DEF RequestInv, OneServer
  <2>5. QED
    BY <2>3, <2>4
<1>12. ASSUME NEW p \in Servers, LoadJournal(p)
      PROVE  FilesInv' /\ \A q \in Servers : RequestInv(q)'
  <2>1. FilesInv'
    BY <1>12, FilesKept DEF LoadJournal, FailUntouched, files
  <2>2. CASE FailUntouched(p, "STORAGE_UNAVAILABLE")
    BY <2>1, <2>2, FinishStep, IdleServer DEF FailUntouched
  <2>3. CASE ~FailUntouched(p, "STORAGE_UNAVAILABLE")
    <3>1. /\ UNCHANGED <<registry, journal, changes, request, event>>
          /\ seen'[p] = journal
          /\ pc[p] = "loadJournal" /\ event[p] \in changes
          /\ \/ event[p] \in journal /\ pc'[p] = "claim"
             \/ pc'[p] = "writeJournal"
      BY <1>12, <2>3 DEF LoadJournal, files, Goto, RequestInv, TypeOK
    <3>2. \A q \in Servers : RequestInv(q)'
      BY <3>1 DEF RequestInv, OneServer
    <3>3. QED
      BY <2>1, <3>2
  <2>4. QED
    BY <2>2, <2>3
<1>13. ASSUME NEW p \in Servers, WriteJournal(p)
      PROVE  FilesInv' /\ \A q \in Servers : RequestInv(q)'
  <2>1. /\ pc[p] = "writeJournal" /\ event[p] \in changes
        /\ journal' \in {journal, journal \union {event[p]}}
        /\ UNCHANGED <<registry, intent, previews, clock, changes>>
    BY <1>13 DEF WriteJournal, RequestInv
  <2>2. FilesInv'
    BY <2>1 DEF FilesInv, AuditComplete, NoPhantomAudit, NoLostStatusChange,
                TimesOrdered, IntentTrue
  <2>3. CASE Finish(p, "STORAGE_UNAVAILABLE")
    BY <2>2, <2>3, FinishStep, IdleServer
  <2>4. CASE ~Finish(p, "STORAGE_UNAVAILABLE")
    <3>1. /\ pc'[p] = "claim" /\ event[p] \in journal'
          /\ UNCHANGED <<request, event, registry>>
      BY <1>13, <2>4 DEF WriteJournal, Goto, TypeOK
    <3>2. \A q \in Servers : RequestInv(q)'
      BY <2>1, <3>1 DEF RequestInv, OneServer
    <3>3. QED
      BY <2>2, <3>2
  <2>5. QED
    BY <2>3, <2>4
<1>14. ASSUME NEW p \in Servers, ClaimCleanup(p)
      PROVE  FilesInv' /\ \A q \in Servers : RequestInv(q)'
  <2>1. FilesInv'
    BY <1>14, FilesKept DEF ClaimCleanup
  <2>2. CASE pc'[p] = "idle"
    BY <2>1, <2>2, IdleServer
  <2>3. CASE pc'[p] # "idle"
    <3>1. pc[p] = "claim" /\ pc'[p] = "verify"
          /\ UNCHANGED <<registry, journal, changes, request, event>>
      BY <1>14, <2>3, FinishStep DEF ClaimCleanup, Goto, TypeOK, LocalsOK
    <3>2. \A q \in Servers : RequestInv(q)'
      BY <3>1 DEF RequestInv, OneServer
    <3>3. QED
      BY <2>1, <3>2
  <2>4. QED
    BY <2>2, <2>3
<1>15. ASSUME NEW p \in Servers, VerifyIntent(p)
      PROVE  FilesInv' /\ \A q \in Servers : RequestInv(q)'
  <2>1. FilesInv'
    BY <1>15, FilesKept DEF VerifyIntent, files
  <2>2. /\ UNCHANGED <<registry, journal, intent, changes, request, event>>
        /\ pc[p] = "verify"
        /\ \/ pc'[p] = "unlink" /\ intent[event[p].rule] = event[p]
           \/ pc'[p] = "unclaim"
    BY <1>15 DEF VerifyIntent, files, Goto, TypeOK
  <2>3. \A q \in Servers : RequestInv(q)'
    BY <2>2 DEF RequestInv, OneServer
  <2>4. QED
    BY <2>1, <2>3
<1>16. ASSUME NEW p \in Servers, UnlinkIntent(p)
      PROVE  FilesInv' /\ \A q \in Servers : RequestInv(q)'
  <2> DEFINE e == event[p]
  <2>1. /\ intent' \in {intent, [intent EXCEPT ![e.rule] = None]}
        /\ UNCHANGED <<registry, journal, previews, clock, changes, request, event>>
        /\ pc[p] = "unlink" /\ pc'[p] = "unclaim"
    BY <1>16 DEF UnlinkIntent, Goto, TypeOK
  <2>2. intent[e.rule] = e /\ e \notin changes \ journal /\ e.rule \in Rules
    BY <2>1, EventFields DEF RequestInv, LocalsOK
  <2>3. AuditComplete'
    <3>1. SUFFICES ASSUME NEW c \in changes \ journal
                   PROVE  intent'[c.rule] = c
      BY <2>1 DEF AuditComplete, FilesInv
    <3>2. intent[c.rule] = c /\ c.rule \in Rules
      BY <3>1, EventFields DEF FilesInv, AuditComplete, TypeOK
    <3>3. c.rule # e.rule
      BY <2>2, <3>1, <3>2
    <3>4. QED
      BY <2>1, <3>2, <3>3 DEF TypeOK
  <2>4. IntentTrue'
    BY <2>1, <2>2 DEF FilesInv, IntentTrue, TypeOK
  <2>5. FilesInv'
    BY <2>1, <2>3, <2>4 DEF FilesInv, NoPhantomAudit, NoLostStatusChange, TimesOrdered
  <2>6. \A q \in Servers : RequestInv(q)'
    BY <2>1 DEF RequestInv, OneServer
  <2>7. QED
    BY <2>5, <2>6
<1>17. ASSUME NEW p \in Servers, ReleaseCleanup(p)
      PROVE  FilesInv' /\ \A q \in Servers : RequestInv(q)'
  <2>1. FilesInv'
    BY <1>17, FilesKept DEF ReleaseCleanup
  <2>2. pc'[p] = "idle"
    BY <1>17 DEF ReleaseCleanup, Finish, Goto, TypeOK
  <2>3. QED
    BY <2>1, <2>2, IdleServer
<1>18. ASSUME NEW p \in Servers, LoadEvents(p)
      PROVE  FilesInv' /\ \A q \in Servers : RequestInv(q)'
  <2>1. FilesInv'
    BY <1>18, FilesKept DEF LoadEvents, FailUntouched, files
  <2>2. CASE FailUntouched(p, "STORAGE_UNAVAILABLE")
    BY <2>1, <2>2, FinishStep, IdleServer DEF FailUntouched
  <2>3. CASE ~FailUntouched(p, "STORAGE_UNAVAILABLE")
    <3>1. /\ UNCHANGED <<registry, journal, changes, request, snapshot, event>>
          /\ pc[p] = "repairEvents" /\ pc'[p] = "repairIntent" /\ seen'[p] = journal
      BY <1>18, <2>3 DEF LoadEvents, files, Goto, TypeOK
    <3>2. \A q \in Servers : RequestInv(q)'
      BY <3>1 DEF RequestInv, OneServer
    <3>3. QED
      BY <2>1, <3>2
  <2>4. QED
    BY <2>2, <2>3
<1>19. ASSUME NEW p \in Servers, Repair(p)
      PROVE  FilesInv' /\ \A q \in Servers : RequestInv(q)'
  <2>1. FilesInv' /\ UNCHANGED <<registry, journal, intent, changes>>
    BY <1>19, FilesKept DEF Repair, FailUntouched, files
  <2>2. pc[p] = "repairIntent" /\ seen[p] = journal /\ snapshot[p].rule = registry.rule
        /\ registry.rule[request[p].rule].status # "ABSENT" /\ request[p].rule \in Rules
    BY <1>19, EventFields DEF Repair, RequestInv, LocalsOK
  <2>3. CASE pc'[p] = "idle"
    BY <2>1, <2>3, IdleServer
  <2>4. CASE pc'[p] = "claim" /\ request'[p] = request[p] /\ event'[p] \in journal
    BY <2>1, <2>2, <2>4 DEF RequestInv, OneServer
  <2>5. CASE pc'[p] = "loadJournal" /\ request'[p] = request[p] /\ event'[p] \in changes
    BY <2>1, <2>2, <2>5 DEF RequestInv, OneServer
  <2>6. ASSUME pc'[p] # "idle"
        PROVE  \/ pc'[p] = "claim" /\ request'[p] = request[p] /\ event'[p] \in journal
               \/ pc'[p] = "loadJournal" /\ request'[p] = request[p] /\ event'[p] \in changes
    <3>1. ~Finish(p, "UNRESOLVED") /\ ~Finish(p, "ALREADY_CHANGED")
          /\ ~FailUntouched(p, "STORAGE_UNAVAILABLE")
      BY <2>6, FinishStep DEF FailUntouched
    <3>2. CASE RepairUnrecorded(p)
      <4>1. /\ IntentMatches(p)
            /\ event'[p] = intent[request[p].rule]
            /\ pc'[p] = "loadJournal" /\ UNCHANGED request
        BY <3>1, <3>2 DEF RepairUnrecorded, Goto, TypeOK
      <4>2. intent[request[p].rule] \in changes
        BY <2>2, <4>1, EventFields, RegistryFields
           DEF IntentMatches, FilesInv, IntentTrue, LocalsOK, TypeOK
      <4>3. QED
        BY <4>1, <4>2
    <3>3. CASE ~RepairUnrecorded(p)
      <4>1. PICK e \in RecordedEvents(p) :
              event' = [event EXCEPT ![p] = e] /\ Goto(p, "claim") /\ UNCHANGED request
        BY <1>19, <3>1, <3>3 DEF Repair
      <4>2. QED
        BY <2>2, <4>1 DEF RecordedEvents, Goto, TypeOK
    <3>4. QED
      BY <3>2, <3>3
  <2>7. QED
    BY <2>1, <2>3, <2>4, <2>5, <2>6
<1>20. ASSUME NEW p \in Servers, Crash(p)
      PROVE  FilesInv' /\ \A q \in Servers : RequestInv(q)'
  BY <1>20, FilesKept, FinishStep, IdleServer DEF Crash, FailUntouched, files
<1>21. QED
  BY <1>1, <1>2, <1>3, <1>4, <1>5, <1>6, <1>7, <1>8, <1>9, <1>10, <1>11, <1>12, <1>13,
     <1>14, <1>15, <1>16, <1>17, <1>18, <1>19, <1>20 DEF Next, Step

\* The inductive invariant holds throughout.
THEOREM InductiveHolds ==
  ASSUME OneServer, ~LockRemovalCanFail
  PROVE  Spec => []Inductive
<1>1. Inductive /\ [Next]_vars => Inductive'
  BY InductiveStep
<1>2. QED
  BY InductiveInit, <1>1, PTL DEF Spec

\* A status change whose audit entry is missing, because the process died or a
\* file operation failed in between, is always the rule's latest, and the intent
\* with which a repeated request writes the entry is on disk.
THEOREM AuditNeverLost ==
  ASSUME OneServer, ~LockRemovalCanFail
  PROVE  Spec => []AuditComplete
<1>1. Inductive => AuditComplete
  BY DEF Inductive, FilesInv
<1>2. QED
  BY InductiveHolds, <1>1, PTL

\* The journal never records a change that did not happen.
THEOREM AuditNeverInvented ==
  ASSUME OneServer, ~LockRemovalCanFail
  PROVE  Spec => []NoPhantomAudit
<1>1. Inductive => NoPhantomAudit
  BY DEF Inductive, FilesInv
<1>2. QED
  BY InductiveHolds, <1>1, PTL

\* No save of the registry undoes a later status change.
THEOREM StatusNeverLost ==
  ASSUME OneServer, ~LockRemovalCanFail
  PROVE  Spec => []NoLostStatusChange
<1>1. Inductive => NoLostStatusChange
  BY DEF Inductive, FilesInv
<1>2. QED
  BY InductiveHolds, <1>1, PTL

-----------------------------------------------------------------------------
(* The deletion of intents, for any number of servers and any failure.      *)

\* The steps of deleteStatusTransitionIntent behind the claim.
Deleting == {"verify", "unlink", "unclaim"}

\* Of the requests that delete the intent of one event, one holds the claim, and
\* from the moment it has compared the intent to the unlink, the file is that intent.
ClaimInv ==
    /\ \A p \in Servers : pc[p] \in Deleting => event[p] \in cleanup
    /\ \A p, q \in Servers :
         pc[p] \in Deleting /\ pc[q] \in Deleting /\ event[p] = event[q] => p = q
    /\ \A p \in Servers : pc[p] = "unlink" => intent[event[p].rule] = event[p]

\* No request is deleting an intent at the start.
LEMMA ClaimInit == Init => ClaimInv
BY DEF Init, ClaimInv, Deleting

\* A step by which no request comes to delete an intent keeps the claims.
LEMMA ClaimsKept ==
  ASSUME ClaimInv, UNCHANGED cleanup,
         \A r \in Rules : intent[r] # None => intent'[r] = intent[r],
         \A p \in Servers : pc'[p] \in Deleting =>
           pc'[p] = pc[p] /\ event'[p] = event[p]
             /\ event[p] \in Event /\ event[p].rule \in Rules
  PROVE  ClaimInv'
BY ConstantsAssumption DEF ClaimInv, Deleting

\* Every step keeps the claims exclusive, and the intent that is about to be
\* deleted the one that was compared.
LEMMA ClaimStep ==
  ASSUME TypeOK, LocalsOK, ClaimInv, [Next]_vars
  PROVE  ClaimInv'
<1>events. \A p \in Servers : pc[p] \in WithEvent => event[p] \in Event /\ event[p].rule \in Rules
  BY EventFields DEF LocalsOK
<1> USE DEF Deleting, WithEvent
<1>1. ASSUME UNCHANGED <<cleanup, intent, pc, event>>
      PROVE  ClaimInv'
  BY <1>1, <1>events, ClaimsKept
<1>2. ASSUME NEW p \in Servers, NEW step \in Steps \ Deleting, Goto(p, step),
             \A q \in Servers \ {p} : event'[q] = event[q],
             UNCHANGED <<cleanup, intent>>
      PROVE  ClaimInv'
  BY <1>2, <1>events, GotoStep, ClaimsKept
<1>3. ASSUME NEW p \in Servers, NEW r \in Rules, NEW target \in Statuses,
             StartChange(p, r, target)
      PROVE  ClaimInv'
  BY <1>2, <1>3 DEF StartChange, files, Steps
<1>4. ASSUME NEW p \in Servers, UsePreview(p)
      PROVE  ClaimInv'
  BY <1>2, <1>4 DEF UsePreview, files, Steps, TypeOK
<1>5. ASSUME NEW p \in Servers, PersistIntent(p)
      PROVE  ClaimInv'
  <2>1. UNCHANGED cleanup /\ \A r \in Rules : intent[r] # None => intent'[r] = intent[r]
    BY <1>5, <1>events DEF PersistIntent, files, TypeOK
  <2>2. pc'[p] \in {"idle", "registry"}
        /\ \A q \in Servers \ {p} : pc'[q] = pc[q] /\ event'[q] = event[q]
    BY <1>5 DEF PersistIntent, Goto, Finish, TypeOK
  <2>3. QED
    BY <1>events, <2>1, <2>2, ClaimsKept
<1>6. ASSUME NEW p \in Servers, SaveRegistry(p) \/ FailRegistry(p) \/ LoadEvents(p)
      PROVE  ClaimInv'
  <2>1. PICK step \in {"loadJournal", "claim", "repairIntent", "idle"} :
          Goto(p, step) /\ UNCHANGED <<cleanup, intent>>
            /\ \A q \in Servers \ {p} : event'[q] = event[q]
    BY <1>6, FinishStep DEF SaveRegistry, FailRegistry, LoadEvents, FailUntouched, Finish, files, Codes
  <2>2. QED
    BY <1>2, <2>1 DEF Steps
<1>7. ASSUME NEW p \in Servers, LoadJournal(p) \/ WriteJournal(p) \/ Repair(p)
      PROVE  ClaimInv'
  <2>1. PICK step \in {"loadJournal", "writeJournal", "claim", "idle"} :
          Goto(p, step) /\ UNCHANGED <<cleanup, intent>>
    BY <1>7 DEF LoadJournal, WriteJournal, Repair, RepairUnrecorded, FailUntouched, Finish, files
  <2>2. \A q \in Servers \ {p} : event'[q] = event[q]
    BY <1>7 DEF LoadJournal, WriteJournal, Repair, RepairUnrecorded, FailUntouched, Finish, TypeOK
  <2>3. QED
    BY <1>2, <2>1, <2>2 DEF Steps
<1>8. ASSUME NEW p \in Servers, ClaimCleanup(p)
      PROVE  ClaimInv'
  <2>1. CASE event[p] \in cleanup
    BY <1>2, <1>8, <2>1 DEF ClaimCleanup, Finish, Steps, TypeOK
  <2>2. CASE event[p] \notin cleanup /\ Finish(p, "STORAGE_UNAVAILABLE")
    <3>1. cleanup \subseteq cleanup' /\ UNCHANGED intent
      BY <1>8, <2>2 DEF ClaimCleanup
    <3>2. pc'[p] = "idle" /\ \A q \in Servers \ {p} : pc'[q] = pc[q] /\ event'[q] = event[q]
      BY <2>2, FinishStep DEF Codes
    <3>3. QED
      BY <3>1, <3>2 DEF ClaimInv
  <2>3. CASE event[p] \notin cleanup /\ ~Finish(p, "STORAGE_UNAVAILABLE")
    <3>1. cleanup' = cleanup \union {event[p]} /\ UNCHANGED <<intent, event>> /\ Goto(p, "verify")
      BY <1>8, <2>3 DEF ClaimCleanup
    <3>2. pc'[p] = "verify" /\ \A q \in Servers \ {p} : pc'[q] = pc[q]
      BY <3>1, GotoStep DEF Steps
    <3>3. QED
      BY <2>3, <3>1, <3>2 DEF ClaimInv
  <2>4. QED
    BY <2>1, <2>2, <2>3
<1>9. ASSUME NEW p \in Servers, VerifyIntent(p)
      PROVE  ClaimInv'
  <2>1. UNCHANGED <<cleanup, intent, event>> /\ pc[p] = "verify"
    BY <1>9 DEF VerifyIntent, files
  <2>2. pc'[p] = (IF intent[event[p].rule] = event[p] THEN "unlink" ELSE "unclaim")
        /\ \A q \in Servers \ {p} : pc'[q] = pc[q]
    BY <1>9 DEF VerifyIntent, Goto, TypeOK
  <2>3. QED
    BY <2>1, <2>2 DEF ClaimInv
<1>10. ASSUME NEW p \in Servers, UnlinkIntent(p)
      PROVE  ClaimInv'
  <2>1. pc[p] = "unlink" /\ UNCHANGED <<cleanup, event>> /\ pc'[p] = "unclaim"
        /\ \A q \in Servers \ {p} : pc'[q] = pc[q]
    BY <1>10, GotoStep DEF UnlinkIntent, Steps
  <2>2. \A r \in Rules \ {event[p].rule} : intent'[r] = intent[r]
    BY <1>10 DEF UnlinkIntent, TypeOK
  <2>3. ASSUME NEW q \in Servers, pc'[q] = "unlink"
        PROVE  intent'[event[q].rule] = event[q]
    <3>1. q # p /\ pc[q] = "unlink"
      BY <2>1, <2>3
    <3>2. event[q].rule \in Rules /\ intent[event[q].rule] = event[q]
      BY <1>events, <3>1 DEF ClaimInv
    <3>3. event[q].rule # event[p].rule
      BY <2>1, <3>1, <3>2 DEF ClaimInv
    <3>4. QED
      BY <2>2, <3>2, <3>3
  <2>4. QED
    BY <2>1, <2>3 DEF ClaimInv
<1>11. ASSUME NEW p \in Servers, ReleaseCleanup(p)
      PROVE  ClaimInv'
  <2>1. pc[p] = "unclaim" /\ cleanup \ {event[p]} \subseteq cleanup' /\ UNCHANGED intent
    BY <1>11 DEF ReleaseCleanup
  <2>2. pc'[p] = "idle" /\ \A q \in Servers \ {p} : pc'[q] = pc[q] /\ event'[q] = event[q]
    BY <1>11 DEF ReleaseCleanup, Finish, Goto, TypeOK
  <2>3. QED
    BY <2>1, <2>2 DEF ClaimInv
<1>12. ASSUME NEW p \in Servers, RefusePreview(p) \/ LoseRegistry(p) \/ Crash(p)
      PROVE  ClaimInv'
  <2>1. Goto(p, "idle") /\ UNCHANGED <<cleanup, intent>>
        /\ \A q \in Servers \ {p} : event'[q] = event[q]
    BY <1>12 DEF RefusePreview, LoseRegistry, Crash, FailUntouched, Finish, files, TypeOK
  <2>2. QED
    BY <1>2, <2>1 DEF Steps
<1>13. CASE ApproveProposal \/ UNCHANGED vars
            \/ \E p \in Servers, r \in Rules : Materialize(p, r) \/ PreviewStatusChange(p, r)
  BY <1>1, <1>13 DEF ApproveProposal, Materialize, PreviewStatusChange, vars, local, files
<1>14. QED
  BY <1>3, <1>4, <1>5, <1>6, <1>7, <1>8, <1>9, <1>10, <1>11, <1>12, <1>13 DEF Next, Step

\* For any number of backend processes, and whatever crashes and fails: an intent
\* on disk is replaced by no other, and deleted only by a request that unlinks
\* exactly this intent (the check and the unlink of deleteStatusTransitionIntent
\* are two file operations).
THEOREM IntentsDeletedExactly == Spec => CleanupExact
<1> DEFINE Exact == \A r \in Rules :
                      intent[r] # None /\ intent'[r] # intent[r]
                      => /\ intent'[r] = None
                         /\ \E p \in Servers : pc[p] = "unlink" /\ event[p] = intent[r]
<1>1. ASSUME TypeOK, LocalsOK, ClaimInv, [Next]_vars
      PROVE  Exact
  <2>1. SUFFICES ASSUME NEW r \in Rules, intent[r] # None, intent'[r] # intent[r]
                 PROVE  /\ intent'[r] = None
                        /\ \E p \in Servers : pc[p] = "unlink" /\ event[p] = intent[r]
    OBVIOUS
  <2>2. \E p \in Servers : PersistIntent(p) \/ UnlinkIntent(p)
    BY <1>1, <2>1 DEF Next, Step, ApproveProposal, Materialize, PreviewStatusChange, StartChange,
                UsePreview, RefusePreview, SaveRegistry, LoseRegistry, FailRegistry, LoadJournal,
                WriteJournal, ClaimCleanup, VerifyIntent, ReleaseCleanup, LoadEvents, Repair,
                Crash, FailUntouched, files, vars
  <2>3. PICK p \in Servers : PersistIntent(p) \/ UnlinkIntent(p)
    BY <2>2
  <2>4. CASE PersistIntent(p)
    BY <1>1, <2>1, <2>4 DEF PersistIntent, files, TypeOK
  <2>5. CASE UnlinkIntent(p)
    <3>1. event[p].rule = r /\ intent'[r] = None /\ pc[p] = "unlink"
      BY <1>1, <2>1, <2>5 DEF UnlinkIntent, TypeOK
    <3>2. QED
      BY <1>1, <3>1 DEF ClaimInv
  <2>6. QED
    BY <2>3, <2>4, <2>5
<1>2. TypeOK /\ LocalsOK /\ ClaimInv /\ [Next]_vars => TypeOK' /\ LocalsOK' /\ ClaimInv'
  BY TypeStep, ClaimStep
<1>3. TypeOK /\ LocalsOK /\ ClaimInv /\ [Next]_vars => [Exact]_vars
  BY <1>1
<1>4. QED
  BY <1>2, <1>3, TypeInit, ClaimInit, PTL DEF Spec, CleanupExact

-----------------------------------------------------------------------------
(* The answers of one server.                                               *)

\* A request's event is the change it was asked for, and one that has recorded
\* its event, or found it recorded, is past the journal.
AnswerInv ==
    \A p \in Servers :
      /\ pc[p] \in WithEvent => event[p].to = request[p].target
      /\ pc[p] \in {"claim", "verify", "unlink", "unclaim"}
           /\ reply[p] \in {"CHANGED", "ALREADY_CHANGED"} => event[p] \in journal

\* No request has an event at the start.
LEMMA AnswerInit == Init => AnswerInv
BY DEF Init, AnswerInv, WithEvent

\* The journal of one server only grows.
LEMMA JournalGrows ==
  ASSUME Inductive, [Next]_vars
  PROVE  journal \subseteq journal'
<1>1. ASSUME NEW p \in Servers, WriteJournal(p)
      PROVE  journal \subseteq journal'
  BY <1>1 DEF WriteJournal, Inductive, RequestInv
<1>2. QED
  BY <1>1 DEF Next, Step, ApproveProposal, Materialize, PreviewStatusChange, StartChange,
              UsePreview, RefusePreview, PersistIntent, SaveRegistry, LoseRegistry, FailRegistry,
              LoadJournal, ClaimCleanup, VerifyIntent, UnlinkIntent, ReleaseCleanup, LoadEvents,
              Repair, Crash, FailUntouched, files, vars

\* Every step of the one server keeps AnswerInv, and one that ends a request with
\* an answer of success leaves the requested change in the journal.
LEMMA AnswerStep ==
  ASSUME OneServer, Inductive, AnswerInv, [Next]_vars, NEW p \in Servers
  PROVE  /\ pc'[p] \in WithEvent => event'[p].to = request'[p].target
         /\ pc'[p] \in {"claim", "verify", "unlink", "unclaim"}
              /\ reply'[p] \in {"CHANGED", "ALREADY_CHANGED"} => event'[p] \in journal'
         /\ pc[p] # "idle" /\ pc'[p] = "idle" /\ reply'[p] \in {"CHANGED", "ALREADY_CHANGED"}
              => \E e \in journal' : e.rule = request[p].rule /\ e.to = request[p].target
<1> DEFINE Kept == /\ pc'[p] \in WithEvent => event'[p].to = request'[p].target
                   /\ pc'[p] \in {"claim", "verify", "unlink", "unclaim"}
                        /\ reply'[p] \in {"CHANGED", "ALREADY_CHANGED"} => event'[p] \in journal'
           Answered == pc[p] # "idle" /\ pc'[p] = "idle"
                         /\ reply'[p] \in {"CHANGED", "ALREADY_CHANGED"}
                       => \E e \in journal' : e.rule = request[p].rule /\ e.to = request[p].target
<1> SUFFICES Kept /\ Answered
  OBVIOUS
<1>servers. Servers = {p}
  BY DEF OneServer
<1>types. TypeOK /\ LocalsOK /\ RequestInv(p)
  BY DEF Inductive
<1>grows. journal \subseteq journal'
  BY JournalGrows
<1> USE <1>types, <1>grows DEF WithEvent
<1>1. ASSUME NEW code \in Codes \ {"CHANGED", "ALREADY_CHANGED"}, Finish(p, code)
      PROVE  Kept /\ Answered
  BY <1>1, FinishStep
<1>2. ASSUME pc[p] \in {"claim", "unclaim"}, Finish(p, reply[p])
      PROVE  Kept /\ Answered
  <2>1. pc'[p] = "idle" /\ reply'[p] = reply[p]
    BY <1>2, FinishStep DEF TypeOK
  <2>2. event[p].rule = request[p].rule /\ event[p].to = request[p].target
    BY <1>2 DEF LocalsOK, AnswerInv
  <2>3. QED
    BY <1>2, <2>1, <2>2 DEF AnswerInv
<1>3. CASE UNCHANGED vars \/ ApproveProposal
           \/ \E r \in Rules : Materialize(p, r) \/ PreviewStatusChange(p, r)
  <2>1. UNCHANGED <<pc, event, request, reply>>
    BY <1>3 DEF vars, local, ApproveProposal, Materialize, PreviewStatusChange
  <2>2. QED
    BY <2>1 DEF AnswerInv
<1>4. ASSUME NEW r \in Rules, NEW target \in Statuses, StartChange(p, r, target)
      PROVE  Kept /\ Answered
  BY <1>4 DEF StartChange, Goto, TypeOK
<1>5. CASE UsePreview(p)
  <2>1. UNCHANGED request /\ pc'[p] = "intent" /\ event'[p].to = request[p].target
    BY <1>5 DEF UsePreview, Goto, TypeOK
  <2>2. QED
    BY <2>1
<1>6. CASE PersistIntent(p) /\ ~\E code \in Codes \ {"CHANGED", "ALREADY_CHANGED"} : Finish(p, code)
  BY <1>6 DEF PersistIntent, AnswerInv, Goto, TypeOK, Codes
<1>7. CASE SaveRegistry(p)
  BY <1>7 DEF SaveRegistry, AnswerInv, Goto, TypeOK
<1>8. CASE FailRegistry(p)
  BY <1>8 DEF FailRegistry, AnswerInv, Goto, TypeOK
<1>9. CASE LoadJournal(p) /\ ~FailUntouched(p, "STORAGE_UNAVAILABLE")
  <2>1. pc'[p] \in {"claim", "writeJournal"} /\ (pc'[p] = "claim" => event[p] \in journal)
        /\ pc[p] = "loadJournal" /\ UNCHANGED <<event, request, reply, journal>>
    BY <1>9 DEF LoadJournal, Goto, TypeOK, files
  <2>2. QED
    BY <2>1 DEF AnswerInv
<1>10. CASE WriteJournal(p) /\ ~Finish(p, "STORAGE_UNAVAILABLE")
  <2>1. pc'[p] = "claim" /\ event[p] \in journal'
        /\ pc[p] = "writeJournal" /\ UNCHANGED <<event, request, reply>>
    BY <1>10 DEF WriteJournal, Goto, TypeOK
  <2>2. QED
    BY <2>1 DEF AnswerInv
<1>11. CASE ClaimCleanup(p) /\ ~Finish(p, "STORAGE_UNAVAILABLE")
  <2>1. CASE Finish(p, reply[p])
    BY <1>2, <1>11, <2>1 DEF ClaimCleanup
  <2>2. CASE ~Finish(p, reply[p])
    <3>1. pc[p] = "claim" /\ pc'[p] = "verify" /\ UNCHANGED <<event, request, reply>>
      BY <1>11, <2>2 DEF ClaimCleanup, Goto, TypeOK
    <3>2. QED
      BY <3>1 DEF AnswerInv
  <2>3. QED
    BY <2>1, <2>2
<1>12. CASE VerifyIntent(p) \/ UnlinkIntent(p)
  <2>1. pc[p] \in {"verify", "unlink"} /\ pc'[p] \in {"unlink", "unclaim"}
        /\ UNCHANGED <<event, request>>
        /\ (reply'[p] = reply[p] \/ reply'[p] = "STORAGE_UNAVAILABLE")
    BY <1>12 DEF VerifyIntent, UnlinkIntent, Goto, TypeOK
  <2>2. QED
    BY <2>1 DEF AnswerInv
<1>13. CASE ReleaseCleanup(p)
  BY <1>1, <1>2, <1>13 DEF ReleaseCleanup, Codes
<1>14. CASE LoadEvents(p) /\ ~FailUntouched(p, "STORAGE_UNAVAILABLE")
  BY <1>14 DEF LoadEvents, Goto, TypeOK
<1>15. CASE Repair(p) /\ ~FailUntouched(p, "STORAGE_UNAVAILABLE")
  <2>1. pc[p] = "repairIntent" /\ seen[p] = journal
    BY <1>15 DEF Repair, RequestInv
  <2>2. CASE RepairUnrecorded(p)
    <3>1. CASE Finish(p, "UNRESOLVED")
      BY <1>1, <3>1 DEF Codes
    <3>2. CASE ~Finish(p, "UNRESOLVED")
      BY <2>1, <2>2, <3>2, EventFields
         DEF RepairUnrecorded, IntentMatches, Goto, TypeOK, LocalsOK
    <3>3. QED
      BY <3>1, <3>2
  <2>3. CASE ~RepairUnrecorded(p)
    <3>1. PICK e \in RecordedEvents(p) :
            \/ Finish(p, "ALREADY_CHANGED")
            \/ /\ event' = [event EXCEPT ![p] = e] /\ Goto(p, "claim") /\ UNCHANGED request
      BY <1>15, <2>3 DEF Repair
    <3>2. e \in journal /\ e.rule = request[p].rule /\ e.to = request[p].target
      BY <2>1, <3>1 DEF RecordedEvents
    <3>3. CASE Finish(p, "ALREADY_CHANGED")
      BY <3>2, <3>3, FinishStep DEF Codes
    <3>4. CASE ~Finish(p, "ALREADY_CHANGED")
      BY <3>1, <3>2, <3>4 DEF Goto, TypeOK
    <3>5. QED
      BY <3>3, <3>4
  <2>4. QED
    BY <2>2, <2>3
<1>16. CASE \E code \in {"REFUSED", "CONFLICT", "IN_PROGRESS", "STORAGE_UNAVAILABLE", "NONE"} :
              Finish(p, code) \/ FailUntouched(p, code)
  BY <1>1, <1>16 DEF FailUntouched, Codes
<1>17. QED
  BY <1>servers, <1>3, <1>4, <1>5, <1>6, <1>7, <1>8, <1>9, <1>10, <1>11, <1>12, <1>13, <1>14,
     <1>15, <1>16, <1>1 DEF Next, Step, RefusePreview, LoseRegistry, Crash

\* With one backend process and a lock file that can be removed: an answer of
\* success (CHANGED, or ALREADY_CHANGED after a repair) means that the journal
\* holds the change the owner asked for, whatever crashed or failed before.
THEOREM AnswersAreAudited ==
  ASSUME OneServer, ~LockRemovalCanFail
  PROVE  Spec => AnsweredChangeIsAudited
<1> DEFINE Audited == \A p \in Servers :
                        /\ pc[p] # "idle" /\ pc'[p] = "idle"
                        /\ reply'[p] \in {"CHANGED", "ALREADY_CHANGED"}
                        => \E e \in journal' : e.rule = request[p].rule /\ e.to = request[p].target
<1>1. Inductive /\ AnswerInv /\ [Next]_vars => Inductive' /\ AnswerInv'
  BY InductiveStep, AnswerStep DEF AnswerInv
<1>2. Inductive /\ AnswerInv /\ [Next]_vars => [Audited]_vars
  BY AnswerStep
<1>3. QED
  BY <1>1, <1>2, InductiveInit, AnswerInit, PTL DEF Spec, AnsweredChangeIsAudited

-----------------------------------------------------------------------------
(* The service implements AuditTrail: whatever crashes and fails, the files *)
(* of one backend process show the owner an audit trail.                    *)
(*                                                                          *)
(* AuditComplete makes the rule's intent the one change that can be         *)
(* unrecorded, so a step that touches neither a rule nor the changes nor    *)
(* the journal is a stutter of the trail; three kinds of steps are left.    *)

\* A request on its way to the registry changes the rule's status to the other one.
Switches ==
    \A p \in Servers : pc[p] \in {"preview", "intent", "registry"} =>
      /\ registry.rule[request[p].rule].status = Opposite(request[p].target)
      /\ pc[p] # "preview" => event[p].to = request[p].target

\* The two statuses.
LEMMA OppositeStatuses ==
  ASSUME NEW r \in Registry, NEW rule \in Rules, NEW target \in Statuses,
         r.rule[rule].status # "ABSENT", r.rule[rule].status # target
  PROVE  r.rule[rule].status = Opposite(target)
BY RegistryFields DEF Statuses, Opposite

\* What is unrecorded of a rule is its intent, or nothing.
LEMMA MissingIsIntent ==
  ASSUME AuditComplete, NEW r \in Rules
  PROVE  /\ Unrecorded(r) = {} => Missing[r] = None
         /\ Unrecorded(r) # {} => Unrecorded(r) = {intent[r]} /\ Missing[r] = intent[r]
<1>1. \A c \in Unrecorded(r) : c = intent[r]
  BY DEF AuditComplete, Unrecorded
<1>2. CASE Unrecorded(r) = {}
  BY <1>2 DEF Missing, OneOf
<1>3. CASE Unrecorded(r) # {}
  <2>1. Unrecorded(r) = {intent[r]}
    BY <1>1, <1>3
  <2>2. QED
    BY <2>1 DEF Missing, OneOf
<1>4. QED
  BY <1>2, <1>3

\* A step that keeps the changes and the journal keeps what is unrecorded.
LEMMA MissingKept ==
  ASSUME UNCHANGED <<changes, journal>>
  PROVE  UNCHANGED Missing
BY DEF Missing, Unrecorded

\* A step that changes what is unrecorded of one rule, to one change or none.
LEMMA OtherMissingKept ==
  ASSUME NEW r \in Rules, NEW e,
         \A q \in Rules \ {r} : Unrecorded(q)' = Unrecorded(q)
  PROVE  /\ Unrecorded(r)' = {e} => Missing' = [Missing EXCEPT ![r] = e] /\ Missing'[r] = e
         /\ Unrecorded(r)' = {} => Missing' = [Missing EXCEPT ![r] = None]
<1>1. \A q \in Rules \ {r} : Missing'[q] = Missing[q]
  BY DEF Missing
<1>2. Unrecorded(r)' = {e} => Missing'[r] = e
  BY DEF Missing, OneOf
<1>3. Unrecorded(r)' = {} => Missing'[r] = None
  BY DEF Missing, OneOf
<1>4. Missing' = [q \in Rules |-> Missing'[q]] /\ Missing = [q \in Rules |-> Missing[q]]
  BY DEF Missing
<1>5. QED
  BY <1>1, <1>2, <1>3, <1>4

\* A crash and a failed operation keep Switches; so does every step that leaves the
\* rules alone and does not bring a request closer to the registry.
LEMMA SwitchesStep ==
  ASSUME OneServer, Inductive, Switches, [Next]_vars
  PROVE  Switches'
<1> SUFFICES ASSUME NEW p \in Servers, pc'[p] \in {"preview", "intent", "registry"}
             PROVE  /\ registry'.rule[request'[p].rule].status = Opposite(request'[p].target)
                    /\ pc'[p] # "preview" => event'[p].to = request'[p].target
  BY DEF Switches
<1> USE DEF Inductive
<1>servers. Servers = {p}
  BY DEF OneServer
<1>1. CASE UNCHANGED vars
  BY <1>1 DEF vars, files, local, Switches
<1>2. CASE ApproveProposal
  <2>1. registry'.rule = registry.rule
    BY <1>2 DEF ApproveProposal, TypeOK, Registry
  <2>2. QED
    BY <1>2, <2>1 DEF ApproveProposal, local, Switches
<1>3. ASSUME NEW r \in Rules, Materialize(p, r) \/ PreviewStatusChange(p, r)
      PROVE  FALSE
  BY <1>3 DEF Materialize, PreviewStatusChange, local
<1>4. ASSUME NEW r \in Rules, NEW target \in Statuses, StartChange(p, r, target)
      PROVE  /\ registry'.rule[request'[p].rule].status = Opposite(request'[p].target)
             /\ pc'[p] = "preview"
  <2>1. pc'[p] = "preview" /\ registry.rule[r].status # target
    BY <1>4, GotoStep DEF StartChange, TypeOK, Goto, Steps
  <2>2. request'[p] = [rule |-> r, target |-> target] /\ registry' = registry
    BY <1>4 DEF StartChange, TypeOK, files
  <2>3. QED
    BY <1>4, <2>1, <2>2, OppositeStatuses DEF StartChange, TypeOK
<1>5. CASE UsePreview(p)
  <2>1. pc[p] = "preview" /\ UNCHANGED <<registry, request>> /\ pc'[p] = "intent"
    BY <1>5 DEF UsePreview, Goto, files, TypeOK
  <2>2. event'[p].to = request[p].target
    BY <1>5 DEF UsePreview, TypeOK
  <2>3. QED
    BY <2>1, <2>2 DEF Switches
<1>6. CASE PersistIntent(p)
  <2>1. pc[p] = "intent" /\ UNCHANGED registry
    BY <1>6 DEF PersistIntent, files
  <2>2. CASE Finish(p, "IN_PROGRESS") \/ Finish(p, "STORAGE_UNAVAILABLE")
    BY <2>2, FinishStep DEF Codes
  <2>3. CASE ~(Finish(p, "IN_PROGRESS") \/ Finish(p, "STORAGE_UNAVAILABLE"))
    BY <1>6, <2>1, <2>3 DEF PersistIntent, Switches
  <2>4. QED
    BY <2>2, <2>3
<1>7. CASE RefusePreview(p) \/ LoseRegistry(p) \/ ReleaseCleanup(p) \/ Crash(p)
  <2>1. \E code \in Codes : Finish(p, code)
    BY <1>7 DEF RefusePreview, LoseRegistry, ReleaseCleanup, Crash, FailUntouched, Codes, TypeOK
  <2>2. QED
    BY <2>1, FinishStep
<1>8. CASE SaveRegistry(p) \/ FailRegistry(p) \/ LoadJournal(p) \/ WriteJournal(p)
           \/ ClaimCleanup(p) \/ VerifyIntent(p) \/ UnlinkIntent(p)
           \/ LoadEvents(p) \/ Repair(p)
  <2>1. \E step \in {"idle", "loadJournal", "writeJournal", "claim", "verify", "unlink",
                     "unclaim", "repairIntent"} : Goto(p, step)
    BY <1>8 DEF SaveRegistry, FailRegistry, LoadJournal, WriteJournal, ClaimCleanup,
                VerifyIntent, UnlinkIntent, LoadEvents, Repair, RepairUnrecorded,
                FailUntouched, Finish
  <2>2. QED
    BY <2>1 DEF Goto, TypeOK
<1>9. QED
  BY <1>servers, <1>1, <1>2, <1>3, <1>4, <1>5, <1>6, <1>7, <1>8 DEF Next, Step

-----------------------------------------------------------------------------
(* The three kinds of steps that the trail sees.                            *)

\* A rule comes into being.
LEMMA AddStep ==
  ASSUME Inductive, NEW p \in Servers, NEW r \in Rules, Materialize(p, r)
  PROVE  Trail!Add(r)
<1>1. registry'.rule = [registry.rule EXCEPT ![r] = [status |-> "DISABLED", updatedAt |-> clock]]
  BY DEF Inductive, TypeOK, Registry, Materialize
<1>2. registry.rule \in [Rules -> RuleState] /\ registry.rule[r].status = "ABSENT"
  BY DEF Inductive, TypeOK, Registry, Materialize
<1>3. UNCHANGED <<Missing, journal>>
  BY MissingKept DEF Materialize
<1>4. registry'.rule[r].status = "DISABLED" /\ registry'.rule = [registry.rule EXCEPT ![r] = registry'.rule[r]]
  BY <1>1, <1>2
<1>5. QED
  BY <1>2, <1>3, <1>4 DEF Trail!Add, Trail!OnlyStatusOf

\* The registry takes a change of a rule that has no change without a record.
LEMMA ChangeStep ==
  ASSUME Inductive, Switches, NEW p \in Servers, pc[p] = "registry",
         RegistryTaken(p), UNCHANGED journal, NEW e, e = event[p], NEW r, r = e.rule
  PROVE  r \in Rules /\ Trail!Change(r)
<1>1. /\ e \in Event /\ r \in Rules /\ e.to \in Statuses /\ e.at \in Nat
      /\ r = request[p].rule
  BY EventFields DEF Inductive, LocalsOK, WithEvent
<1>2. e.at \in (registry.rule[r].updatedAt + 1) .. clock /\ intent[r] = e
  BY DEF Inductive, RequestInv
<1>3. registry.rule[r].updatedAt \in Nat /\ clock \in Nat /\ registry.rule \in [Rules -> RuleState]
  BY <1>1, RegistryFields DEF Inductive, TypeOK
<1>4. e.at > registry.rule[r].updatedAt
  BY <1>1, <1>2, <1>3
<1>5. e \notin changes /\ e \notin journal
  <2>1. \A c \in changes : c.rule = r => registry.rule[r].updatedAt >= c.at /\ c.at \in Nat
    BY EventFields DEF Inductive, FilesInv, NoLostStatusChange, TypeOK
  <2>2. e \notin changes
    <3>1. SUFFICES ASSUME e \in changes PROVE FALSE
      OBVIOUS
    <3>2. registry.rule[r].updatedAt >= e.at
      BY <2>1, <3>1
    <3>3. QED
      BY <1>1, <1>3, <1>4, <3>2
  <2>3. QED
    BY <2>2 DEF Inductive, FilesInv, NoPhantomAudit
<1>6. Missing[r] = None
  <2>1. SUFFICES ASSUME Unrecorded(r) # {} PROVE FALSE
    BY <1>1, MissingIsIntent DEF Inductive, FilesInv
  <2>2. intent[r] \in Unrecorded(r)
    BY <1>1, <2>1, MissingIsIntent DEF Inductive, FilesInv
  <2>3. QED
    BY <1>2, <1>5, <2>2 DEF Unrecorded
<1>7. /\ registry'.rule = [registry.rule EXCEPT ![r] = [status |-> e.to, updatedAt |-> e.at]]
      /\ changes' = changes \union {e}
  BY <1>1 DEF RegistryTaken, WithStatus, Inductive, TypeOK, Registry
<1>8. Unrecorded(r)' = {e} /\ \A q \in Rules \ {r} : Unrecorded(q)' = Unrecorded(q)
  <2>1. Unrecorded(r) = {}
    BY <1>1, <1>2, <1>5, MissingIsIntent DEF Inductive, FilesInv, Unrecorded
  <2>2. QED
    BY <1>5, <1>7, <2>1 DEF Unrecorded
<1>9. Missing' = [Missing EXCEPT ![r] = e] /\ Missing'[r] = e
  BY <1>1, <1>8, OtherMissingKept
<1>10. e # None
  BY <1>1, ConstantsAssumption
<1>11. {registry.rule[r].status, e.to} = {"ACTIVE", "DISABLED"}
  BY <1>1 DEF Switches, Opposite, Statuses, Inductive, TypeOK
<1>12. registry'.rule = [registry.rule EXCEPT ![r] = registry'.rule[r]]
       /\ registry'.rule[r] = [status |-> e.to, updatedAt |-> e.at]
  BY <1>1, <1>3, <1>7
<1>13. QED
  BY <1>1, <1>4, <1>6, <1>9, <1>10, <1>11, <1>12 DEF Trail!Change, Trail!OnlyStatusOf

\* The journal takes the event of a change: its record, or nothing new.
LEMMA RecordStep ==
  ASSUME Inductive, NEW p \in Servers, pc[p] = "writeJournal",
         journal' = seen[p] \union {event[p]}, UNCHANGED <<registry, changes>>,
         NEW e, e = event[p], NEW r, r = e.rule
  PROVE  \/ r \in Rules /\ Trail!Record(r)
         \/ UNCHANGED <<registry.rule, Missing, journal>>
<1>1. e \in changes /\ seen[p] = journal /\ r \in Rules
  BY EventFields DEF Inductive, RequestInv, LocalsOK, WithEvent
<1>2. CASE e \in journal
  <2>1. journal' = journal
    BY <1>1, <1>2
  <2>2. QED
    BY <2>1, MissingKept
<1>3. CASE e \notin journal
  <2>1. Unrecorded(r) = {e} /\ Missing[r] = e
    <3>1. e \in Unrecorded(r)
      BY <1>1, <1>3 DEF Unrecorded
    <3>2. QED
      BY <1>1, <3>1, MissingIsIntent DEF Inductive, FilesInv
  <2>2. Unrecorded(r)' = {} /\ \A q \in Rules \ {r} : Unrecorded(q)' = Unrecorded(q)
    BY <1>1, <2>1 DEF Unrecorded
  <2>3. Missing' = [Missing EXCEPT ![r] = None]
    BY <1>1, <2>2, OtherMissingKept
  <2>4. e # None
    BY <1>1, ConstantsAssumption DEF Inductive, TypeOK
  <2>5. QED
    BY <1>1, <2>1, <2>3, <2>4 DEF Trail!Record
<1>4. QED
  BY <1>2, <1>3

-----------------------------------------------------------------------------
\* The initial states are the trail's, and no request is executed in them.
LEMMA TrailInit == Init => Trail!Init /\ Switches
<1> SUFFICES ASSUME Init PROVE Trail!Init /\ Switches
  OBVIOUS
<1>1. registry.rule \in [Rules -> [status : {"ABSENT", "DISABLED"}, updatedAt : {0}]]
  BY DEF Init, EmptyRegistry
<1>2. \A r \in Rules : Unrecorded(r) = {}
  BY DEF Init, Unrecorded
<1>3. Missing = [r \in Rules |-> None]
  BY <1>2 DEF Missing, OneOf
<1>4. Switches
  BY DEF Init, Switches
<1>5. QED
  BY <1>1, <1>3, <1>4 DEF Init, Trail!Init

\* Every step of the service is a step of the trail, or the trail does not see it.
LEMMA TrailStep ==
  ASSUME OneServer, ~LockRemovalCanFail, Inductive, Switches, [Next]_vars
  PROVE  [Trail!Next]_Trail!vars
<1> DEFINE Unseen == UNCHANGED <<registry.rule, Missing, journal>>
<1> SUFFICES (\E r \in Rules : Trail!Add(r) \/ Trail!Change(r) \/ Trail!Record(r)) \/ Unseen
  BY DEF Trail!Next, Trail!vars
<1>1. ASSUME UNCHANGED <<registry, journal, changes>>
      PROVE  Unseen
  BY <1>1, MissingKept
<1>2. CASE ApproveProposal
  <2>1. registry'.rule = registry.rule /\ UNCHANGED <<journal, changes>>
    BY <1>2 DEF ApproveProposal, Inductive, TypeOK, Registry
  <2>2. QED
    BY <2>1, MissingKept
<1>3. ASSUME NEW p \in Servers, NEW r \in Rules, Materialize(p, r)
      PROVE  Trail!Add(r)
  BY <1>3, AddStep
<1>4. ASSUME NEW p \in Servers, SaveRegistry(p)
      PROVE  \E r \in Rules : Trail!Change(r)
  BY <1>4, ChangeStep DEF SaveRegistry
<1>5. ASSUME NEW p \in Servers, WriteJournal(p)
      PROVE  (\E r \in Rules : Trail!Record(r)) \/ Unseen
  <2>1. pc[p] = "writeJournal" /\ UNCHANGED <<registry, changes>>
    BY <1>5 DEF WriteJournal
  <2>2. CASE journal' = journal
    BY <2>1, <2>2, <1>1
  <2>3. CASE journal' = seen[p] \union {event[p]}
    BY <2>1, <2>3, RecordStep
  <2>4. QED
    BY <1>5, <2>2, <2>3 DEF WriteJournal
<1>6. ASSUME NEW p \in Servers, Step(p), ~SaveRegistry(p), ~WriteJournal(p)
      PROVE  UNCHANGED <<registry, journal, changes>>
  BY <1>6 DEF Step, UsePreview, RefusePreview, PersistIntent, LoseRegistry, FailRegistry,
              LoadJournal, ClaimCleanup, VerifyIntent, UnlinkIntent, ReleaseCleanup,
              LoadEvents, Repair, FailUntouched, files
<1>7. ASSUME NEW p \in Servers,
             \/ Crash(p)
             \/ \E r \in Rules : PreviewStatusChange(p, r)
             \/ \E r \in Rules, target \in Statuses : StartChange(p, r, target)
      PROVE  UNCHANGED <<registry, journal, changes>>
  BY <1>7 DEF Crash, FailUntouched, PreviewStatusChange, StartChange, files
<1>8. CASE UNCHANGED vars
  BY <1>8, <1>1 DEF vars, files
<1>9. QED
  BY <1>1, <1>2, <1>3, <1>4, <1>5, <1>6, <1>7, <1>8 DEF Next

\* With one backend process and a lock file that can be removed, the service keeps
\* an audit trail: the rule's status, the journal and what the journal lacks move
\* as AuditTrail says, for any rules, clock, crashes and failed file operations.
THEOREM ServiceImplementsTrail ==
  ASSUME OneServer, ~LockRemovalCanFail
  PROVE  Spec => ImplementsAuditTrail
<1>1. Inductive /\ Switches /\ [Next]_vars => Inductive' /\ Switches'
  BY InductiveStep, SwitchesStep
<1>2. Inductive /\ Switches /\ [Next]_vars => [Trail!Next]_Trail!vars
  BY TrailStep
<1>3. QED
  BY <1>1, <1>2, InductiveInit, TrailInit, PTL DEF Spec, ImplementsAuditTrail, Trail!Spec
=============================================================================
