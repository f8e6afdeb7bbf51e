-------------------------- MODULE RegistryLock_proofs --------------------------
(***************************************************************************)
(* Proofs about RegistryLock: however many processes, whatever process ids *)
(* they get, and wherever they die or fail, the holder of the write lock   *)
(* keeps it, so that replacing the registry is a compare-and-swap.         *)
(***************************************************************************)
EXTENDS RegistryLock, TLAPS

\* The fields of a lock.
LEMMA LockFields ==
  ASSUME NEW l \in Lock
  PROVE  l.id \in Ids /\ l.pid \in Pids /\ l.written \in BOOLEAN /\ l.stale \in BOOLEAN
  BY DEF Lock

\* Going on to another step changes nothing else about control.
LEMMA GotoStep ==
  ASSUME TypeOK, NEW p \in Procs, NEW step \in Steps, Goto(p, step)
  PROVE  /\ pc' \in [Procs -> Steps]
         /\ pc'[p] = step
         /\ \A q \in Procs \ {p} : pc'[q] = pc[q]
  BY DEF TypeOK, Goto

\* A save that ends leaves no locals behind, and those of the others alone.
LEMMA FinishStep ==
  ASSUME TypeOK, NEW p \in Procs, NEW code \in Codes, Finish(p, code)
  PROVE  /\ pc' \in [Procs -> Steps] /\ base' \in [Procs -> Versions \union {None}]
         /\ mine' \in [Procs -> Ids \union {None}] /\ seen' \in [Procs -> Lock \union {None}]
         /\ reply' \in [Procs -> Codes]
         /\ pc'[p] = "idle" /\ base'[p] = None /\ mine'[p] = None /\ seen'[p] = None
         /\ \A q \in Procs \ {p} : /\ pc'[q] = pc[q] /\ base'[q] = base[q]
                                   /\ mine'[q] = mine[q] /\ seen'[q] = seen[q]
  BY DEF TypeOK, Finish, Goto, Steps

\* Every step preserves the inductive invariant.
LEMMA InductiveStep ==
  ASSUME Inductive, [Next]_vars
  PROVE  Inductive'
<1> USE ConstantsAssumption DEF Inductive, Steps, Holding, Reclaiming, Codes
<1>1. CASE UNCHANGED vars
  <2>1. TypeOK'
    BY <1>1, LockFields DEF TypeOK, vars, files, local
  <2>2. SavesDistinct'
    BY <1>1, LockFields DEF SavesDistinct, TypeOK, vars, files, local
  <2>3. LocksTruthful'
    BY <1>1, LockFields DEF LocksTruthful, TypeOK, vars, files, local, SavesDistinct
  <2>4. WriterOwnsLock'
    BY <1>1, LockFields DEF WriterOwnsLock, TypeOK, vars, files, local, SavesDistinct
  <2>5. ReclaimersExclusive'
    BY <1>1, LockFields DEF ReclaimersExclusive, TypeOK, vars, files, local, SavesDistinct
  <2>6. CheckedIsCurrent'
    BY <1>1, LockFields DEF CheckedIsCurrent, TypeOK, vars, files, local, SavesDistinct
  <2>7. HolderOwnsLock'
    BY <1>1, LockFields DEF HolderOwnsLock, TypeOK, vars, files, local, SavesDistinct
  <2>8. QED
    BY <2>1, <2>2, <2>3, <2>4, <2>5, <2>6, <2>7
<1>2. CASE LockAges
  <2>1. TypeOK'
    BY <1>2, LockFields DEF TypeOK, LockAges, local, Lock
  <2>2. SavesDistinct'
    BY <1>2, LockFields DEF SavesDistinct, TypeOK, LockAges, local, Lock
  <2>3. LocksTruthful'
    BY <1>2, LockFields DEF LocksTruthful, TypeOK, LockAges, local, Lock, SavesDistinct
  <2>4. WriterOwnsLock'
    BY <1>2, LockFields DEF WriterOwnsLock, TypeOK, LockAges, local, Lock, SavesDistinct
  <2>5. ReclaimersExclusive'
    BY <1>2, LockFields DEF ReclaimersExclusive, TypeOK, LockAges, local, Lock, SavesDistinct
  <2>6. CheckedIsCurrent'
    BY <1>2, LockFields DEF CheckedIsCurrent, TypeOK, LockAges, local, Lock, SavesDistinct
  <2>7. HolderOwnsLock'
    BY <1>2, LockFields DEF HolderOwnsLock, TypeOK, LockAges, local, Lock, SavesDistinct
  <2>8. QED
    BY <2>1, <2>2, <2>3, <2>4, <2>5, <2>6, <2>7
<1>3. ASSUME NEW p \in Procs, StartSave(p)
      PROVE  Inductive'
  <2>1. TypeOK'
    BY <1>3, LockFields DEF TypeOK, StartSave, Goto, files, FreshIds
  <2>2. SavesDistinct'
    BY <1>3, LockFields DEF SavesDistinct, TypeOK, StartSave, Goto, files, FreshIds
  <2>3. LocksTruthful'
    BY <1>3, LockFields DEF LocksTruthful, TypeOK, StartSave, Goto, files, FreshIds, SavesDistinct
  <2>4. WriterOwnsLock'
    BY <1>3, LockFields DEF WriterOwnsLock, TypeOK, StartSave, Goto, files, FreshIds, SavesDistinct
  <2>5. ReclaimersExclusive'
    BY <1>3, LockFields DEF ReclaimersExclusive, TypeOK, StartSave, Goto, files, FreshIds, SavesDistinct
  <2>6. CheckedIsCurrent'
    BY <1>3, LockFields DEF CheckedIsCurrent, TypeOK, StartSave, Goto, files, FreshIds, SavesDistinct
  <2>7. HolderOwnsLock'
    BY <1>3, LockFields DEF HolderOwnsLock, TypeOK, StartSave, Goto, files, FreshIds, SavesDistinct
  <2>8. QED
    BY <2>1, <2>2, <2>3, <2>4, <2>5, <2>6, <2>7
<1>4. ASSUME NEW p \in Procs, OpenLock(p)
      PROVE  Inductive'
  <2> DEFINE new == [id |-> mine[p], pid |-> pid[p], written |-> FALSE, stale |-> FALSE]
  <2>1. /\ pc[p] = "open" /\ mine[p] \in Ids /\ pid[p] \in Pids
        /\ UNCHANGED <<registry, reclaims, pid, base, mine, seen, reply, faults>>
    BY <1>4 DEF OpenLock, TypeOK, SavesDistinct
  <2>2. SavesDistinct'
    BY <1>4, <2>1 DEF OpenLock, Goto, TypeOK, SavesDistinct
  <2>3. CASE lock = None
    <3>1. lock' = new /\ pc' = [pc EXCEPT ![p] = "write"]
      BY <1>4, <2>3 DEF OpenLock, Goto
    <3>2. new \in Lock /\ new # None
      <4>1. new \in Lock
        BY <2>1 DEF Lock
      <4>2. QED
        BY <4>1, ConstantsAssumption
    <3>3. TypeOK'
      BY <2>1, <3>1, <3>2 DEF TypeOK
    <3>4. LocksTruthful'
      BY <2>1, <3>1 DEF LocksTruthful, SavesDistinct
    <3>5. WriterOwnsLock' /\ HolderOwnsLock'
      BY <2>1, <2>3, <3>1, <3>2 DEF WriterOwnsLock, HolderOwnsLock, TypeOK
    <3>6. ReclaimersExclusive' /\ CheckedIsCurrent'
      BY <2>1, <2>3, <3>1 DEF ReclaimersExclusive, CheckedIsCurrent, TypeOK
    <3>7. QED
      BY <2>2, <3>3, <3>4, <3>5, <3>6
  <2>4. CASE lock # None
    <3>1. UNCHANGED lock /\ pc' = [pc EXCEPT ![p] = "inspect"]
      BY <1>4, <2>4 DEF OpenLock, Goto
    <3>2. TypeOK' /\ LocksTruthful' /\ WriterOwnsLock' /\ CheckedIsCurrent'
      BY <2>1, <3>1 DEF TypeOK, LocksTruthful, WriterOwnsLock, CheckedIsCurrent
    <3>3. ReclaimersExclusive' /\ HolderOwnsLock'
      BY <2>1, <3>1 DEF ReclaimersExclusive, HolderOwnsLock, TypeOK
    <3>4. QED
      BY <2>2, <3>2, <3>3
  <2>5. QED
    BY <2>3, <2>4
<1>5. ASSUME NEW p \in Procs, WriteLock(p)
      PROVE  Inductive'
  <2>1. /\ pc[p] = "write" /\ lock # None /\ lock \in Lock /\ lock.id = mine[p]
        /\ mine[p] \in Ids /\ lock.pid = pid[p]
        /\ UNCHANGED <<registry, reclaims, pid>>
    BY <1>5 DEF WriteLock, WriterOwnsLock, LocksTruthful, SavesDistinct, TypeOK
  <2>2. \A q \in Procs : /\ pc[q] \notin Holding
                         /\ pc[q] \in {"write"} => q = p
                         /\ pc[q] \notin {"reprobe", "unlink"}
    BY <2>1 DEF HolderOwnsLock, WriterOwnsLock, SavesDistinct, ReclaimersExclusive
  <2>3. CASE Goto(p, "check")
    <3>1. CASE lock' = [lock EXCEPT !.written = TRUE] /\ UNCHANGED <<base, mine, seen, reply, faults>>
      <4>1. /\ lock' \in Lock /\ lock' # None /\ lock'.written
            /\ lock'.id = lock.id /\ lock'.pid = lock.pid
        BY <2>1, <3>1 DEF Lock
      <4>2. pc' = [pc EXCEPT ![p] = "check"]
        BY <2>3 DEF Goto
      <4>3. TypeOK' /\ SavesDistinct' /\ CheckedIsCurrent'
        BY <2>1, <3>1, <4>1, <4>2 DEF TypeOK, SavesDistinct, CheckedIsCurrent
      <4>4. LocksTruthful' /\ WriterOwnsLock' /\ HolderOwnsLock'
        BY <2>1, <2>2, <3>1, <4>1, <4>2
           DEF LocksTruthful, WriterOwnsLock, HolderOwnsLock, TypeOK
      <4>5. ReclaimersExclusive'
        BY <2>1, <2>2, <3>1, <4>2 DEF ReclaimersExclusive, TypeOK
      <4>6. QED
        BY <4>3, <4>4, <4>5
    <3>2. CASE Finish(p, "LOCKED")
      BY <2>1, <2>3, <3>2, FinishStep, GotoStep
    <3>3. QED
      BY <1>5, <3>1, <3>2 DEF WriteLock
  <2>4. CASE Finish(p, "LOCKED") /\ Fault /\ lock' \in {None, lock, [lock EXCEPT !.written = TRUE]}
    <3>1. lock' # None => lock' \in Lock /\ lock'.id = lock.id /\ lock'.pid = lock.pid
      BY <2>1, <2>4 DEF Lock
    <3>2. TypeOK'
      <4>1. lock' \in Lock \union {None} /\ faults' \in Nat
        BY <2>4, <3>1 DEF Fault, TypeOK
      <4> QED BY <2>1, <2>4, <4>1, FinishStep DEF TypeOK
    <3>3. SavesDistinct' /\ CheckedIsCurrent'
      BY <2>1, <2>4, FinishStep DEF SavesDistinct, CheckedIsCurrent
    <3>4. WriterOwnsLock' /\ HolderOwnsLock'
      BY <2>2, <2>4, FinishStep DEF WriterOwnsLock, HolderOwnsLock
    <3>5. LocksTruthful'
      BY <2>1, <2>4, <3>1, FinishStep DEF LocksTruthful
    <3>6. ReclaimersExclusive'
      BY <2>1, <2>2, <2>4, FinishStep, LockFields DEF ReclaimersExclusive, TypeOK
    <3>7. QED
      BY <3>2, <3>3, <3>4, <3>5, <3>6
  <2>5. QED
    BY <1>5, <2>3, <2>4 DEF WriteLock
<1>6. ASSUME NEW p \in Procs, InspectLock(p)
      PROVE  Inductive'
  <2>1. TypeOK'
    BY <1>6, LockFields DEF TypeOK, InspectLock, Goto, files
  <2>2. SavesDistinct'
    BY <1>6, LockFields DEF SavesDistinct, TypeOK, InspectLock, Goto, files
  <2>3. LocksTruthful'
    BY <1>6, LockFields DEF LocksTruthful, TypeOK, InspectLock, Goto, files, SavesDistinct
  <2>4. WriterOwnsLock'
    BY <1>6, LockFields DEF WriterOwnsLock, TypeOK, InspectLock, Goto, files, SavesDistinct
  <2>5. ReclaimersExclusive'
    BY <1>6, LockFields DEF ReclaimersExclusive, TypeOK, InspectLock, Goto, files, SavesDistinct
  <2>6. CheckedIsCurrent'
    BY <1>6, LockFields DEF CheckedIsCurrent, TypeOK, InspectLock, Goto, files, SavesDistinct
  <2>7. HolderOwnsLock'
    BY <1>6, LockFields DEF HolderOwnsLock, TypeOK, InspectLock, Goto, files, SavesDistinct
  <2>8. QED
    BY <2>1, <2>2, <2>3, <2>4, <2>5, <2>6, <2>7
<1>7. ASSUME NEW p \in Procs, ProbeOwner(p)
      PROVE  Inductive'
  <2>1. TypeOK'
    BY <1>7, LockFields DEF TypeOK, ProbeOwner, Goto, files, Alive, LocksTruthful
  <2>2. SavesDistinct'
    BY <1>7, LockFields DEF SavesDistinct, TypeOK, ProbeOwner, Goto, files, Alive, LocksTruthful
  <2>3. LocksTruthful'
    BY <1>7, LockFields DEF LocksTruthful, TypeOK, ProbeOwner, Goto, files, Alive, SavesDistinct
  <2>4. WriterOwnsLock'
    BY <1>7, LockFields DEF WriterOwnsLock, TypeOK, ProbeOwner, Goto, files, Alive, LocksTruthful, SavesDistinct
  <2>5. ReclaimersExclusive'
    BY <1>7, LockFields DEF ReclaimersExclusive, TypeOK, ProbeOwner, Goto, files, Alive, LocksTruthful, SavesDistinct
  <2>6. CheckedIsCurrent'
    BY <1>7, LockFields DEF CheckedIsCurrent, TypeOK, ProbeOwner, Goto, files, Alive, LocksTruthful, SavesDistinct
  <2>7. HolderOwnsLock'
    BY <1>7, LockFields DEF HolderOwnsLock, TypeOK, ProbeOwner, Goto, files, Alive, LocksTruthful, SavesDistinct
  <2>8. QED
    BY <2>1, <2>2, <2>3, <2>4, <2>5, <2>6, <2>7
<1>8. ASSUME NEW p \in Procs, ClaimReclaim(p)
      PROVE  Inductive'
  <2> DEFINE stale == seen[p].id
  <2>1. /\ pc[p] = "claim" /\ stale \in Ids
        /\ \A q \in Procs : mine[q] # stale
        /\ UNCHANGED <<registry, lock, pid>>
    BY <1>8, LockFields DEF ClaimReclaim, ReclaimersExclusive, TypeOK
  <2>2. CASE Finish(p, "LOCKED")
    <3>1. reclaims' \in {reclaims, reclaims \union {stale}} /\ faults' \in Nat
      BY <1>8 DEF ClaimReclaim, Fault, TypeOK
    <3>2. TypeOK'
      BY <2>1, <2>2, <3>1, FinishStep DEF TypeOK
    <3>3. SavesDistinct' /\ LocksTruthful' /\ WriterOwnsLock' /\ CheckedIsCurrent' /\ HolderOwnsLock'
      BY <2>1, <2>2, FinishStep DEF SavesDistinct, LocksTruthful, WriterOwnsLock,
                                    CheckedIsCurrent, HolderOwnsLock
    <3>4. ReclaimersExclusive'
      BY <2>1, <2>2, <3>1, FinishStep, LockFields DEF ReclaimersExclusive, TypeOK
    <3>5. QED
      BY <3>2, <3>3, <3>4
  <2>3. CASE ~Finish(p, "LOCKED")
    <3>1. /\ \/ stale \notin reclaims /\ reclaims' = reclaims \union {stale} /\ Goto(p, "verify")
             \/ reclaims' = reclaims /\ Goto(p, "wait")
          /\ UNCHANGED <<base, mine, seen, reply, faults>>
      BY <1>8, <2>3 DEF ClaimReclaim
    <3>2. TypeOK' /\ SavesDistinct' /\ LocksTruthful' /\ WriterOwnsLock'
      BY <2>1, <3>1 DEF TypeOK, SavesDistinct, LocksTruthful, WriterOwnsLock, Goto
    <3>3. CheckedIsCurrent' /\ HolderOwnsLock'
      BY <2>1, <3>1 DEF CheckedIsCurrent, HolderOwnsLock, Goto, TypeOK
    <3>4. ReclaimersExclusive'
      BY <2>1, <3>1 DEF ReclaimersExclusive, Goto, TypeOK
    <3>5. QED
      BY <3>2, <3>3, <3>4
  <2>4. QED
    BY <2>2, <2>3
<1>9. ASSUME NEW p \in Procs, VerifyLock(p)
      PROVE  Inductive'
  <2>1. TypeOK'
    BY <1>9, LockFields DEF TypeOK, VerifyLock, Goto, files
  <2>2. SavesDistinct'
    BY <1>9, LockFields DEF SavesDistinct, TypeOK, VerifyLock, Goto, files
  <2>3. LocksTruthful'
    BY <1>9, LockFields DEF LocksTruthful, TypeOK, VerifyLock, Goto, files, SavesDistinct
  <2>4. WriterOwnsLock'
    BY <1>9, LockFields DEF WriterOwnsLock, TypeOK, VerifyLock, Goto, files, SavesDistinct
  <2>5. ReclaimersExclusive'
    BY <1>9, LockFields DEF ReclaimersExclusive, TypeOK, VerifyLock, Goto, files, SavesDistinct
  <2>6. CheckedIsCurrent'
    BY <1>9, LockFields DEF CheckedIsCurrent, TypeOK, VerifyLock, Goto, files, SavesDistinct
  <2>7. HolderOwnsLock'
    BY <1>9, LockFields DEF HolderOwnsLock, TypeOK, VerifyLock, Goto, files, SavesDistinct
  <2>8. QED
    BY <2>1, <2>2, <2>3, <2>4, <2>5, <2>6, <2>7
<1>10. ASSUME NEW p \in Procs, ReprobeOwner(p)
      PROVE  Inductive'
  <2>1. TypeOK'
    BY <1>10, LockFields DEF TypeOK, ReprobeOwner, Goto, files, Alive
  <2>2. SavesDistinct'
    BY <1>10, LockFields DEF SavesDistinct, TypeOK, ReprobeOwner, Goto, files, Alive
  <2>3. LocksTruthful'
    BY <1>10, LockFields DEF LocksTruthful, TypeOK, ReprobeOwner, Goto, files, Alive, SavesDistinct
  <2>4. WriterOwnsLock'
    BY <1>10, LockFields DEF WriterOwnsLock, TypeOK, ReprobeOwner, Goto, files, Alive, SavesDistinct
  <2>5. ReclaimersExclusive'
    BY <1>10, LockFields DEF ReclaimersExclusive, TypeOK, ReprobeOwner, Goto, files, Alive, SavesDistinct
  <2>6. CheckedIsCurrent'
    BY <1>10, LockFields DEF CheckedIsCurrent, TypeOK, ReprobeOwner, Goto, files, Alive, SavesDistinct
  <2>7. HolderOwnsLock'
    BY <1>10, LockFields DEF HolderOwnsLock, TypeOK, ReprobeOwner, Goto, files, Alive, SavesDistinct
  <2>8. QED
    BY <2>1, <2>2, <2>3, <2>4, <2>5, <2>6, <2>7
<1>11. ASSUME NEW p \in Procs, UnlinkStale(p)
      PROVE  Inductive'
  <2>1. /\ pc[p] = "unlink" /\ pc' = [pc EXCEPT ![p] = "unclaim"]
        /\ lock # None /\ lock.id = seen[p].id
        /\ \A q \in Procs : mine[q] # lock.id
        /\ UNCHANGED <<registry, reclaims, pid, base, mine, seen>>
    BY <1>11 DEF UnlinkStale, Goto, ReclaimersExclusive
  <2>2. lock' \in {None, lock}
    BY <1>11 DEF UnlinkStale
  <2>3. \A q \in Procs : pc[q] \notin Holding /\ pc[q] # "write"
    BY <2>1 DEF HolderOwnsLock, WriterOwnsLock
  <2>4. TypeOK'
    BY <1>11, <2>1, <2>2 DEF TypeOK, UnlinkStale, Fault
  <2>5. SavesDistinct' /\ LocksTruthful' /\ CheckedIsCurrent'
    BY <2>1, <2>2 DEF SavesDistinct, LocksTruthful, CheckedIsCurrent, TypeOK
  <2>6. WriterOwnsLock' /\ HolderOwnsLock'
    BY <2>1, <2>3 DEF WriterOwnsLock, HolderOwnsLock, TypeOK
  <2>7. ReclaimersExclusive'
    BY <2>1, <2>2 DEF ReclaimersExclusive, TypeOK
  <2>8. QED
    BY <2>4, <2>5, <2>6, <2>7
<1>12. ASSUME NEW p \in Procs, ReleaseReclaim(p)
      PROVE  Inductive'
  <2>1. TypeOK'
    BY <1>12, FinishStep, LockFields DEF TypeOK, ReleaseReclaim, Goto, Fault
  <2>2. SavesDistinct'
    BY <1>12, FinishStep, LockFields DEF SavesDistinct, TypeOK, ReleaseReclaim, Goto, Fault
  <2>3. LocksTruthful'
    BY <1>12, FinishStep, LockFields DEF LocksTruthful, TypeOK, ReleaseReclaim, Goto, Fault, SavesDistinct
  <2>4. WriterOwnsLock'
    BY <1>12, FinishStep, LockFields DEF WriterOwnsLock, TypeOK, ReleaseReclaim, Goto, Fault, SavesDistinct
  <2>5. ReclaimersExclusive'
    BY <1>12, FinishStep, LockFields DEF ReclaimersExclusive, TypeOK, ReleaseReclaim, Goto, Fault, SavesDistinct
  <2>6. CheckedIsCurrent'
    BY <1>12, FinishStep, LockFields DEF CheckedIsCurrent, TypeOK, ReleaseReclaim, Goto, Fault, SavesDistinct
  <2>7. HolderOwnsLock'
    BY <1>12, FinishStep, LockFields DEF HolderOwnsLock, TypeOK, ReleaseReclaim, Goto, Fault, SavesDistinct
  <2>8. QED
    BY <2>1, <2>2, <2>3, <2>4, <2>5, <2>6, <2>7
<1>13. ASSUME NEW p \in Procs, Retry(p)
      PROVE  Inductive'
  <2>1. TypeOK'
    BY <1>13, LockFields DEF TypeOK, Retry, Goto, files
  <2>2. SavesDistinct'
    BY <1>13, LockFields DEF SavesDistinct, TypeOK, Retry, Goto, files
  <2>3. LocksTruthful'
    BY <1>13, LockFields DEF LocksTruthful, TypeOK, Retry, Goto, files, SavesDistinct
  <2>4. WriterOwnsLock'
    BY <1>13, LockFields DEF WriterOwnsLock, TypeOK, Retry, Goto, files, SavesDistinct
  <2>5. ReclaimersExclusive'
    BY <1>13, LockFields DEF ReclaimersExclusive, TypeOK, Retry, Goto, files, SavesDistinct
  <2>6. CheckedIsCurrent'
    BY <1>13, LockFields DEF CheckedIsCurrent, TypeOK, Retry, Goto, files, SavesDistinct
  <2>7. HolderOwnsLock'
    BY <1>13, LockFields DEF HolderOwnsLock, TypeOK, Retry, Goto, files, SavesDistinct
  <2>8. QED
    BY <2>1, <2>2, <2>3, <2>4, <2>5, <2>6, <2>7
<1>14. ASSUME NEW p \in Procs, TimeOut(p)
      PROVE  Inductive'
  <2>1. TypeOK'
    BY <1>14, FinishStep, LockFields DEF TypeOK, TimeOut, files
  <2>2. SavesDistinct'
    BY <1>14, FinishStep, LockFields DEF SavesDistinct, TypeOK, TimeOut, files
  <2>3. LocksTruthful'
    BY <1>14, FinishStep, LockFields DEF LocksTruthful, TypeOK, TimeOut, files, SavesDistinct
  <2>4. WriterOwnsLock'
    BY <1>14, FinishStep, LockFields DEF WriterOwnsLock, TypeOK, TimeOut, files, SavesDistinct
  <2>5. ReclaimersExclusive'
    BY <1>14, FinishStep, LockFields DEF ReclaimersExclusive, TypeOK, TimeOut, files, SavesDistinct
  <2>6. CheckedIsCurrent'
    BY <1>14, FinishStep, LockFields DEF CheckedIsCurrent, TypeOK, TimeOut, files, SavesDistinct
  <2>7. HolderOwnsLock'
    BY <1>14, FinishStep, LockFields DEF HolderOwnsLock, TypeOK, TimeOut, files, SavesDistinct
  <2>8. QED
    BY <2>1, <2>2, <2>3, <2>4, <2>5, <2>6, <2>7
<1>15. ASSUME NEW p \in Procs, CheckFingerprint(p)
      PROVE  Inductive'
  <2>1. TypeOK'
    BY <1>15, LockFields DEF TypeOK, CheckFingerprint, Goto, files
  <2>2. SavesDistinct'
    BY <1>15, LockFields DEF SavesDistinct, TypeOK, CheckFingerprint, Goto, files
  <2>3. LocksTruthful'
    BY <1>15, LockFields DEF LocksTruthful, TypeOK, CheckFingerprint, Goto, files, SavesDistinct
  <2>4. WriterOwnsLock'
    BY <1>15, LockFields DEF WriterOwnsLock, TypeOK, CheckFingerprint, Goto, files, SavesDistinct
  <2>5. ReclaimersExclusive'
    BY <1>15, LockFields DEF ReclaimersExclusive, TypeOK, CheckFingerprint, Goto, files, SavesDistinct
  <2>6. CheckedIsCurrent'
    BY <1>15, LockFields DEF CheckedIsCurrent, TypeOK, CheckFingerprint, Goto, files, SavesDistinct
  <2>7. HolderOwnsLock'
    BY <1>15, LockFields DEF HolderOwnsLock, TypeOK, CheckFingerprint, Goto, files, SavesDistinct
  <2>8. QED
    BY <2>1, <2>2, <2>3, <2>4, <2>5, <2>6, <2>7
<1>16. ASSUME NEW p \in Procs, RenameRegistry(p)
      PROVE  Inductive'
  <2>1. /\ pc[p] = "rename" /\ pc' = [pc EXCEPT ![p] = "release"]
        /\ lock # None /\ lock.id = mine[p]
        /\ UNCHANGED <<lock, reclaims, pid, base, mine, seen>>
    BY <1>16 DEF RenameRegistry, Goto, HolderOwnsLock
  <2>2. \A q \in Procs : pc[q] \in Holding => q = p
    BY <2>1 DEF HolderOwnsLock, SavesDistinct
  <2>3. registry' \in Versions
    BY <1>16 DEF RenameRegistry, FreshVersions, TypeOK
  <2>4. TypeOK'
    BY <1>16, <2>1, <2>3 DEF TypeOK, RenameRegistry, Fault
  <2>5. SavesDistinct' /\ LocksTruthful' /\ WriterOwnsLock' /\ HolderOwnsLock'
    BY <2>1 DEF SavesDistinct, LocksTruthful, WriterOwnsLock, HolderOwnsLock, TypeOK
  <2>6. ReclaimersExclusive' /\ CheckedIsCurrent'
    BY <2>1, <2>2 DEF ReclaimersExclusive, CheckedIsCurrent, TypeOK
  <2>7. QED
    BY <2>4, <2>5, <2>6
<1>17. ASSUME NEW p \in Procs, ReleaseLock(p)
      PROVE  Inductive'
  <2>1. TypeOK'
    BY <1>17, FinishStep, LockFields DEF TypeOK, ReleaseLock, Goto, files
  <2>2. SavesDistinct'
    BY <1>17, FinishStep, LockFields DEF SavesDistinct, TypeOK, ReleaseLock, Goto, files
  <2>3. LocksTruthful'
    BY <1>17, FinishStep, LockFields DEF LocksTruthful, TypeOK, ReleaseLock, Goto, files, SavesDistinct
  <2>4. WriterOwnsLock'
    BY <1>17, FinishStep, LockFields DEF WriterOwnsLock, TypeOK, ReleaseLock, Goto, files, SavesDistinct
  <2>5. ReclaimersExclusive'
    BY <1>17, FinishStep, LockFields DEF ReclaimersExclusive, TypeOK, ReleaseLock, Goto, files, SavesDistinct
  <2>6. CheckedIsCurrent'
    BY <1>17, FinishStep, LockFields DEF CheckedIsCurrent, TypeOK, ReleaseLock, Goto, files, SavesDistinct
  <2>7. HolderOwnsLock'
    BY <1>17, FinishStep, LockFields DEF HolderOwnsLock, TypeOK, ReleaseLock, Goto, files, SavesDistinct
  <2>8. QED
    BY <2>1, <2>2, <2>3, <2>4, <2>5, <2>6, <2>7
<1>18. ASSUME NEW p \in Procs, UnlinkLock(p)
      PROVE  Inductive'
  <2>1. /\ pc[p] = "unlock" /\ lock # None /\ lock.id = mine[p] /\ mine[p] # None
        /\ lock' \in {None, lock}
        /\ UNCHANGED <<registry, reclaims, pid>>
    BY <1>18 DEF UnlinkLock, HolderOwnsLock, SavesDistinct
  <2>2. \A q \in Procs : /\ pc[q] \in {"write"} \union Holding => q = p
                         /\ pc[q] \notin {"reprobe", "unlink"}
    BY <2>1 DEF HolderOwnsLock, WriterOwnsLock, SavesDistinct, ReclaimersExclusive
  <2>3. PICK code \in Codes : Finish(p, code)
    BY <1>18 DEF UnlinkLock, TypeOK
  <2>4. TypeOK'
    BY <1>18, <2>1, <2>3, FinishStep DEF TypeOK, UnlinkLock, Fault
  <2>5. SavesDistinct' /\ LocksTruthful' /\ CheckedIsCurrent'
    BY <2>1, <2>3, FinishStep DEF SavesDistinct, LocksTruthful, CheckedIsCurrent
  <2>6. WriterOwnsLock' /\ HolderOwnsLock'
    BY <2>2, <2>3, FinishStep DEF WriterOwnsLock, HolderOwnsLock
  <2>7. ReclaimersExclusive'
    BY <2>1, <2>2, <2>3, FinishStep, LockFields DEF ReclaimersExclusive, TypeOK
  <2>8. QED
    BY <2>4, <2>5, <2>6, <2>7
<1>19. ASSUME NEW p \in Procs, Die(p)
      PROVE  Inductive'
  <2>1. TypeOK'
    BY <1>19, FinishStep, LockFields DEF TypeOK, Die, Fault, files
  <2>2. SavesDistinct'
    BY <1>19, FinishStep, LockFields DEF SavesDistinct, TypeOK, Die, Fault, files
  <2>3. LocksTruthful'
    BY <1>19, FinishStep, LockFields DEF LocksTruthful, TypeOK, Die, Fault, files, SavesDistinct
  <2>4. WriterOwnsLock'
    BY <1>19, FinishStep, LockFields DEF WriterOwnsLock, TypeOK, Die, Fault, files, SavesDistinct
  <2>5. ReclaimersExclusive'
    BY <1>19, FinishStep, LockFields DEF ReclaimersExclusive, TypeOK, Die, Fault, files, SavesDistinct
  <2>6. CheckedIsCurrent'
    BY <1>19, FinishStep, LockFields DEF CheckedIsCurrent, TypeOK, Die, Fault, files, SavesDistinct
  <2>7. HolderOwnsLock'
    BY <1>19, FinishStep, LockFields DEF HolderOwnsLock, TypeOK, Die, Fault, files, SavesDistinct
  <2>8. QED
    BY <2>1, <2>2, <2>3, <2>4, <2>5, <2>6, <2>7
<1>20. ASSUME NEW p \in Procs, Restart(p)
      PROVE  Inductive'
  <2>1. TypeOK'
    BY <1>20, LockFields DEF TypeOK, Restart, files, local, Alive
  <2>2. SavesDistinct'
    BY <1>20, LockFields DEF SavesDistinct, TypeOK, Restart, files, local, Alive
  <2>3. LocksTruthful'
    BY <1>20, LockFields DEF LocksTruthful, TypeOK, Restart, files, local, Alive, SavesDistinct
  <2>4. WriterOwnsLock'
    BY <1>20, LockFields DEF WriterOwnsLock, TypeOK, Restart, files, local, Alive, SavesDistinct
  <2>5. ReclaimersExclusive'
    BY <1>20, LockFields DEF ReclaimersExclusive, TypeOK, Restart, files, local, Alive, SavesDistinct
  <2>6. CheckedIsCurrent'
    BY <1>20, LockFields DEF CheckedIsCurrent, TypeOK, Restart, files, local, Alive, SavesDistinct
  <2>7. HolderOwnsLock'
    BY <1>20, LockFields DEF HolderOwnsLock, TypeOK, Restart, files, local, Alive, SavesDistinct
  <2>8. QED
    BY <2>1, <2>2, <2>3, <2>4, <2>5, <2>6, <2>7
<1>21. QED
  BY <1>1, <1>2, <1>3, <1>4, <1>5, <1>6, <1>7, <1>8, <1>9, <1>10, <1>11, <1>12, <1>13, <1>14, <1>15, <1>16, <1>17, <1>18, <1>19, <1>20 DEF Next, Acquire, Save

\* Initially nothing is executed and there is no lock.
LEMMA InductiveInit == Init => Inductive
<1> SUFFICES ASSUME Init PROVE Inductive
  OBVIOUS
<1>1. registry \in Versions /\ pid \in [Procs -> Pids]
  BY ConstantsAssumption DEF Init, Injective
<1>2. TypeOK
  BY <1>1 DEF Init, TypeOK, Steps, Codes
<1>3. QED
  BY <1>1, <1>2, ConstantsAssumption
     DEF Init, Inductive, HolderOwnsLock, SavesDistinct, LocksTruthful, WriterOwnsLock,
         ReclaimersExclusive, CheckedIsCurrent, Holding, Reclaiming

\* The variables of the lock keep their types.
THEOREM TypeCorrect == Spec => []TypeOK
<1>1. Inductive /\ [Next]_vars => Inductive'
  BY InductiveStep
<1>2. Inductive => TypeOK
  BY DEF Inductive
<1>3. QED
  BY InductiveInit, <1>1, <1>2, PTL DEF Spec

\* The holder of the write lock keeps it until it releases it, for any number of
\* processes, any deaths and failures, and whether or not process ids are reused.
THEOREM HolderKeepsLock == Spec => []HolderOwnsLock
<1>1. Inductive /\ [Next]_vars => Inductive'
  BY InductiveStep
<1>2. Inductive => HolderOwnsLock
  BY DEF Inductive
<1>3. QED
  BY InductiveInit, <1>1, <1>2, PTL DEF Spec

\* Replacing the registry is a compare-and-swap.
THEOREM SavesAreCompareAndSwap == Spec => SaveIsCompareAndSwap
<1>1. Inductive /\ [Next]_vars => Inductive'
  BY InductiveStep
<1>2. ASSUME Inductive, [Next]_vars, registry' # registry
      PROVE  \E p \in Procs : pc[p] = "rename" /\ base[p] = registry
  <2>1. PICK p \in Procs : RenameRegistry(p)
    BY <1>2 DEF Next, Acquire, Save, vars, files, LockAges, StartSave, OpenLock, WriteLock,
                InspectLock, ProbeOwner, ClaimReclaim, VerifyLock, ReprobeOwner, UnlinkStale,
                ReleaseReclaim, Retry, TimeOut, CheckFingerprint, ReleaseLock, UnlinkLock,
                Die, Restart
  <2>2. pc[p] = "rename" /\ base[p] = registry
    BY <1>2, <2>1 DEF RenameRegistry, Inductive, CheckedIsCurrent
  <2>3. QED
    BY <2>2
<1>3. QED
  BY InductiveInit, <1>1, <1>2, PTL DEF Spec, SaveIsCompareAndSwap
=============================================================================
