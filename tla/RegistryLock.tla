------------------------------ MODULE RegistryLock ------------------------------
(***************************************************************************)
(* saveApprovedRules: processes on one host replace the rule registry file *)
(* under a write lock, which is a file too (<registry>.lock, created with  *)
(* O_EXCL).  A lock whose process died is reclaimed by whoever wants it    *)
(* next: the reclaimers of one lock exclude each other with a claim file   *)
(* named after its lockId, look at the lock again and remove it.           *)
(*                                                                         *)
(* One action per file operation; a process may die between two of them.   *)
(***************************************************************************)
EXTENDS Integers, FiniteSets

CONSTANTS
    Procs,       \* processes that save the registry
    Pids,        \* process ids of the host
    Ids,         \* random lockIds
    Versions,    \* contents of the registry
    None,        \* no process id, no lock, no version
    PidReuse,    \* may a process get the id a dead process wrote into a lock?
    MaxFaults    \* bound: deaths and failed file operations

Lock == [id : Ids, pid : Pids, written : BOOLEAN, stale : BOOLEAN]

\* Live processes have different ids.
Injective(f) == \A p, q \in Procs : f[p] = f[q] => p = q

ASSUME ConstantsAssumption ==
    /\ None \notin Pids /\ None \notin Versions /\ None \notin Lock /\ None \notin Ids
    /\ Versions # {}
    /\ \E f \in [Procs -> Pids] : Injective(f)
    /\ PidReuse \in BOOLEAN /\ MaxFaults \in Nat

Reclaiming == {"verify", "reprobe", "unlink", "unclaim"}
Holding == {"check", "rename", "release", "unlock"}
Steps == {"idle", "open", "write", "inspect", "probe", "claim", "wait"}
           \union Reclaiming \union Holding

Codes == {"NONE", "SAVED", "CONFLICT", "LOCKED", "FAILED"}

VARIABLES
    registry,    \* owner-approved-rules.json
    lock,        \* <registry>.lock, or None; written: its JSON is complete
    reclaims,    \* lockIds with a claim file <registry>.lock.reclaim-<hash>
    pid,         \* the process id of a live process, None of a dead one
    pc,          \* the next file operation of the save a process executes
    base,        \* the registry the save was computed from (expectedFingerprint)
    mine,        \* the lockId the save has drawn
    seen,        \* the lock it has found in its way
    reply,       \* its answer
    faults

files == <<registry, lock, reclaims>>
local == <<pc, base, mine, seen, reply>>
vars == <<files, pid, local, faults>>

Init ==
    /\ registry = CHOOSE v \in Versions : TRUE
    /\ lock = None /\ reclaims = {}
    /\ pid = CHOOSE f \in [Procs -> Pids] : Injective(f)
    /\ pc = [p \in Procs |-> "idle"]
    /\ base = [p \in Procs |-> None]
    /\ mine = [p \in Procs |-> None]
    /\ seen = [p \in Procs |-> None]
    /\ reply = [p \in Procs |-> "NONE"]
    /\ faults = 0

-----------------------------------------------------------------------------
Fault == faults < MaxFaults /\ faults' = faults + 1

Goto(p, step) == pc' = [pc EXCEPT ![p] = step]

\* The save ends.
Finish(p, code) ==
    /\ Goto(p, "idle")
    /\ base' = [base EXCEPT ![p] = None]
    /\ mine' = [mine EXCEPT ![p] = None]
    /\ seen' = [seen EXCEPT ![p] = None]
    /\ reply' = [reply EXCEPT ![p] = code]

\* process.kill(n, 0) finds a process.
Alive(n) == \E q \in Procs : pid[q] = n

\* crypto.randomBytes: an id that is nowhere yet, which one does not matter.
FreshIds ==
    {i \in Ids \ reclaims :
       /\ lock # None => lock.id # i
       /\ \A q \in Procs : mine[q] # i /\ (seen[q] # None => seen[q].id # i)}

\* A registry that no save was computed from: updatedAt tells it from the others.
FreshVersions == Versions \ ({registry} \union {base[q] : q \in Procs})

\* The caller reads the registry and computes a new one.
StartSave(p) ==
    /\ pid[p] # None /\ pc[p] = "idle"
    /\ FreshIds # {}
    /\ mine' = [mine EXCEPT ![p] = CHOOSE i \in FreshIds : TRUE]
    /\ base' = [base EXCEPT ![p] = registry]
    /\ reply' = [reply EXCEPT ![p] = "NONE"]
    /\ Goto(p, "open")
    /\ UNCHANGED <<files, pid, seen, faults>>

-----------------------------------------------------------------------------
(* acquireRegistryWriteLock.                                                *)

\* open(2) with O_EXCL creates the lock file, still empty, or finds one.
OpenLock(p) ==
    /\ pc[p] = "open"
    /\ \/ /\ lock = None
          /\ lock' = [id |-> mine[p], pid |-> pid[p], written |-> FALSE, stale |-> FALSE]
          /\ Goto(p, "write")
       \/ /\ lock # None
          /\ Goto(p, "inspect")
          /\ UNCHANGED lock
    /\ UNCHANGED <<registry, reclaims, pid, base, mine, seen, reply, faults>>

\* The lock file gets its lockId and pid.  When that or its sync fails it is
\* removed again, if it can be.
WriteLock(p) ==
    LET complete == [lock EXCEPT !.written = TRUE] IN
    /\ pc[p] = "write"
    /\ \/ /\ lock' = complete
          /\ Goto(p, "check")
          /\ UNCHANGED <<base, mine, seen, reply, faults>>
       \/ /\ Fault
          /\ lock' \in {None, lock, complete}
          /\ Finish(p, "LOCKED")
    /\ UNCHANGED <<registry, reclaims, pid>>

\* Read the lock in the way.  One that has gone is tried again at once; one that
\* does not parse, or is young, is waited for.
InspectLock(p) ==
    /\ pc[p] = "inspect"
    /\ Goto(p, IF lock = None THEN "open"
               ELSE IF lock.written /\ lock.stale THEN "probe" ELSE "wait")
    /\ seen' = [seen EXCEPT ![p] = lock]
    /\ UNCHANGED <<files, pid, base, mine, reply, faults>>

\* Is the process that wrote the lock alive?
ProbeOwner(p) ==
    /\ pc[p] = "probe"
    /\ Goto(p, IF Alive(seen[p].pid) THEN "wait" ELSE "claim")
    /\ UNCHANGED <<files, pid, base, mine, seen, reply, faults>>

\* Create the claim file, or find another reclaimer's.  A claim that cannot be
\* written stays behind.
ClaimReclaim(p) ==
    LET stale == seen[p].id IN
    /\ pc[p] = "claim"
    /\ \/ /\ stale \notin reclaims
          /\ reclaims' = reclaims \union {stale}
          /\ Goto(p, "verify")
          /\ UNCHANGED <<base, mine, seen, reply, faults>>
       \/ /\ stale \in reclaims
          /\ Goto(p, "wait")
          /\ UNCHANGED <<reclaims, base, mine, seen, reply, faults>>
       \/ /\ Fault
          /\ stale \notin reclaims
          /\ reclaims' \in {reclaims, reclaims \union {stale}}
          /\ Finish(p, "LOCKED")
    /\ UNCHANGED <<registry, lock, pid>>

\* Holding the claim, read the lock again: is it the one found stale?
VerifyLock(p) ==
    /\ pc[p] = "verify"
    /\ Goto(p, IF lock # None /\ lock.id = seen[p].id /\ lock.stale
               THEN "reprobe" ELSE "unclaim")
    /\ UNCHANGED <<files, pid, base, mine, seen, reply, faults>>

\* A mistaken second probe: ESRCH is taken for a process that is alive.
ReprobeInverted(p) ==
    /\ pc[p] = "reprobe"
    /\ Goto(p, IF Alive(seen[p].pid) THEN "unlink" ELSE "unclaim")
    /\ UNCHANGED <<files, pid, base, mine, seen, reply, faults>>

\* And is its process still dead?
ReprobeOwner(p) ==
    /\ pc[p] = "reprobe"
    /\ Goto(p, IF Alive(seen[p].pid) THEN "unclaim" ELSE "unlink")
    /\ UNCHANGED <<files, pid, base, mine, seen, reply, faults>>

\* Remove the lock file, whichever it is by now.  When that fails, the claim is
\* still released and the error ends the save.
UnlinkStale(p) ==
    /\ pc[p] = "unlink"
    /\ \/ lock' = None /\ UNCHANGED <<reply, faults>>
       \/ Fault /\ reply' = [reply EXCEPT ![p] = "LOCKED"] /\ UNCHANGED lock
    /\ Goto(p, "unclaim")
    /\ UNCHANGED <<registry, reclaims, pid, base, mine, seen>>

\* Release the claim and try again; a claim that cannot be removed stays.
ReleaseReclaim(p) ==
    /\ pc[p] = "unclaim"
    /\ \/ /\ reclaims' = reclaims \ {seen[p].id}
          /\ IF reply[p] = "LOCKED" THEN Finish(p, "LOCKED")
             ELSE Goto(p, "open") /\ UNCHANGED <<base, mine, seen, reply>>
          /\ UNCHANGED faults
       \/ /\ Fault
          /\ Finish(p, "LOCKED")
          /\ UNCHANGED reclaims
    /\ UNCHANGED <<registry, lock, pid>>

\* Sleep for the retry interval.
Retry(p) ==
    /\ pc[p] = "wait"
    /\ Goto(p, "open")
    /\ seen' = [seen EXCEPT ![p] = None]
    /\ UNCHANGED <<files, pid, base, mine, reply, faults>>

\* RULE_REGISTRY_WRITE_LOCKED: the time for the lock is over.
TimeOut(p) ==
    /\ pc[p] = "wait"
    /\ Finish(p, "LOCKED")
    /\ UNCHANGED <<files, pid, faults>>

-----------------------------------------------------------------------------
(* saveApprovedRules, holding the lock.                                     *)

\* A mistaken check: the save goes on although the registry is another one.
CheckNothing(p) ==
    /\ pc[p] = "check"
    /\ Goto(p, "rename")
    /\ UNCHANGED <<files, pid, base, mine, seen, reply, faults>>

\* Compare the registry's fingerprint with the expected one.
CheckFingerprint(p) ==
    /\ pc[p] = "check"
    /\ \/ /\ registry = base[p]
          /\ Goto(p, "rename")
          /\ UNCHANGED reply
       \/ /\ registry # base[p]
          /\ Goto(p, "release")
          /\ reply' = [reply EXCEPT ![p] = "CONFLICT"]
    /\ UNCHANGED <<files, pid, base, mine, seen, faults>>

\* Rename the new registry into place.
RenameRegistry(p) ==
    /\ pc[p] = "rename"
    /\ \/ /\ FreshVersions # {}
          /\ registry' = CHOOSE v \in FreshVersions : TRUE
          /\ reply' = [reply EXCEPT ![p] = "SAVED"]
          /\ UNCHANGED faults
       \/ /\ Fault
          /\ reply' = [reply EXCEPT ![p] = "FAILED"]
          /\ UNCHANGED registry
    /\ Goto(p, "release")
    /\ UNCHANGED <<lock, reclaims, pid, base, mine, seen>>

\* releaseRegistryWriteLock: read the lock.  It is the save's own, or an error.
ReleaseLock(p) ==
    /\ pc[p] = "release"
    /\ \/ /\ lock # None /\ lock.id = mine[p]
          /\ Goto(p, "unlock")
          /\ UNCHANGED <<base, mine, seen, reply>>
       \/ lock = None /\ Finish(p, reply[p])
       \/ lock # None /\ lock.id # mine[p] /\ Finish(p, "LOCKED")
    /\ UNCHANGED <<files, pid, faults>>

\* Remove the lock file.
UnlinkLock(p) ==
    /\ pc[p] = "unlock"
    /\ \/ lock' = None /\ Finish(p, reply[p]) /\ UNCHANGED faults
       \/ Fault /\ Finish(p, "FAILED") /\ UNCHANGED lock
    /\ UNCHANGED <<registry, reclaims, pid>>

-----------------------------------------------------------------------------
(* The host.                                                                *)

\* The lock file becomes older than lockStaleMs.
LockAges ==
    /\ lock # None /\ ~lock.stale
    /\ lock' = [lock EXCEPT !.stale = TRUE]
    /\ UNCHANGED <<registry, reclaims, pid, local, faults>>

\* A process dies in the middle of a save.
Die(p) ==
    /\ pid[p] # None /\ pc[p] # "idle"
    /\ Fault
    /\ pid' = [pid EXCEPT ![p] = None]
    /\ Finish(p, "NONE")
    /\ UNCHANGED files

\* It is started again.  The new id is no live process's, and, unless ids are
\* reused, it is not in the lock file or a lock another process is looking at.
Restart(p) ==
    /\ pid[p] = None
    /\ \E n \in Pids :
         /\ ~Alive(n)
         /\ PidReuse \/ /\ lock # None => lock.pid # n
                        /\ \A q \in Procs : seen[q] # None => seen[q].pid # n
         /\ pid' = [pid EXCEPT ![p] = n]
    /\ UNCHANGED <<files, local, faults>>

Acquire(p) ==
    \/ OpenLock(p) \/ WriteLock(p) \/ InspectLock(p) \/ ProbeOwner(p)
    \/ ClaimReclaim(p) \/ VerifyLock(p) \/ ReprobeOwner(p) \/ UnlinkStale(p)
    \/ ReleaseReclaim(p) \/ Retry(p) \/ TimeOut(p)

Save(p) ==
    \/ CheckFingerprint(p) \/ RenameRegistry(p) \/ ReleaseLock(p) \/ UnlinkLock(p)

Next ==
    \/ LockAges
    \/ \E p \in Procs : StartSave(p) \/ Acquire(p) \/ Save(p) \/ Die(p) \/ Restart(p)

Spec == Init /\ [][Next]_vars

\* Saves go on and are asked for again, time passes, dead processes are restarted,
\* and whoever keeps waiting runs out of time.
FairSpec ==
    /\ Spec
    /\ WF_vars(LockAges)
    /\ \A p \in Procs : /\ WF_vars(Acquire(p) \/ Save(p))
                        /\ SF_vars(TimeOut(p))
                        /\ WF_vars(StartSave(p))
                        /\ WF_vars(Restart(p))

-----------------------------------------------------------------------------
(* Properties.                                                              *)

\* The types of the variables.
TypeOK ==
    /\ registry \in Versions
    /\ lock \in Lock \union {None}
    /\ reclaims \subseteq Ids
    /\ pid \in [Procs -> Pids \union {None}]
    /\ pc \in [Procs -> Steps]
    /\ base \in [Procs -> Versions \union {None}]
    /\ mine \in [Procs -> Ids \union {None}]
    /\ seen \in [Procs -> Lock \union {None}]
    /\ reply \in [Procs -> Codes]
    /\ faults \in Nat

\* A process between its check of the registry and the release of the lock owns
\* the lock file: however old the lock is, and whoever reclaims what, it is not
\* taken away, so no two processes replace the registry at once.
HolderOwnsLock ==
    \A p \in Procs : pc[p] \in Holding =>
      lock # None /\ lock.id = mine[p] /\ lock.written /\ lock.pid = pid[p]

\* Replacing the registry is a compare-and-swap, although the comparison and the
\* rename are two steps: what is replaced is what the save was computed from.
SaveIsCompareAndSwap ==
    [][registry' # registry =>
         \E p \in Procs : pc[p] = "rename" /\ base[p] = registry]_vars

\* The lock is a dead process's.
Abandoned == lock # None /\ ~Alive(lock.pid)

\* The lock's claim file belongs to no live reclaimer.
Orphaned ==
    /\ lock # None /\ lock.id \in reclaims
    /\ \A p \in Procs : pc[p] \in Reclaiming => seen[p].id # lock.id

\* A lock whose process died is removed in the end, provided it was written
\* completely and no reclaimer of it died or failed.
AbandonedLockReclaimed == Abandoned /\ lock.written ~> ~Abandoned \/ Orphaned

\* "stale registry lock is removed before a protected write": a lock whose
\* process died is removed in the end.
AbandonedLockRemoved == Abandoned ~> ~Abandoned

-----------------------------------------------------------------------------
(* Why HolderOwnsLock holds: the strengthening that every step preserves.    *)
(* RegistryLock_proofs proves it.                                            *)

\* A save that is executed is a live process's and has a lockId of its own.
SavesDistinct ==
    /\ \A p \in Procs : pc[p] # "idle" <=> mine[p] # None
    /\ \A p \in Procs : pc[p] # "idle" => pid[p] # None
    /\ \A p, q \in Procs : p # q /\ mine[p] # None => mine[p] # mine[q]

\* What a lock says of a save that is still executed is true.
LocksTruthful ==
    \A q \in Procs : mine[q] # None =>
      /\ lock # None /\ lock.id = mine[q] => lock.pid = pid[q]
      /\ \A p \in Procs : seen[p] # None /\ seen[p].id = mine[q] => seen[p].pid = pid[q]

\* Whoever created the lock file finds it as it left it.
WriterOwnsLock ==
    \A p \in Procs : pc[p] = "write" => lock # None /\ lock.id = mine[p]

\* The reclaimers: each holds the claim of the lock it has seen, no two of the
\* same lock, and no save that is still executed owns that lock.
ReclaimersExclusive ==
    /\ \A p \in Procs : pc[p] \in {"probe", "claim"} \union Reclaiming => seen[p] # None
    /\ \A p \in Procs : pc[p] \in Reclaiming => seen[p].id \in reclaims
    /\ \A p, q \in Procs : p # q /\ pc[p] \in Reclaiming /\ pc[q] \in Reclaiming =>
         seen[p].id # seen[q].id
    /\ \A p, q \in Procs : pc[p] \in {"claim"} \union Reclaiming => mine[q] # seen[p].id
    /\ \A p \in Procs : pc[p] \in {"reprobe", "unlink"} =>
         lock # None /\ lock.id = seen[p].id

\* What a save is about to replace is what it was computed from.
CheckedIsCurrent == \A p \in Procs : pc[p] = "rename" => registry = base[p]

\* The inductive invariant.
Inductive ==
    /\ TypeOK /\ HolderOwnsLock
    /\ SavesDistinct /\ LocksTruthful /\ WriterOwnsLock
    /\ ReclaimersExclusive /\ CheckedIsCurrent

=============================================================================
