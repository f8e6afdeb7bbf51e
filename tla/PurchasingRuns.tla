------------------------------ MODULE PurchasingRuns ------------------------------
(***************************************************************************)
(* The life of a purchasing run in the web backend: POST /runs uploads a   *)
(* workbook, calculates the order and publishes the result as a directory  *)
(* of files, run.json last; readers are served a run whose run.json says   *)
(* "completed".  The process may crash between two file operations; when   *)
(* it starts again it removes expired runs and abandoned uploads.          *)
(*                                                                         *)
(* Any file operation may fail.  A write renames a file into place and     *)
(* then syncs the directory, so a write that failed may have happened.     *)
(***************************************************************************)
EXTENDS Integers, FiniteSets, Absent

CONSTANTS
    Requests,      \* POST /runs requests
    Runs,          \* runIds
    MaxFaults      \* bound: crashes and failed file operations

ASSUME ConstantsAssumption == None \notin Runs /\ MaxFaults \in Nat

\* The payload in the order it is written: artifacts (each of them), their
\* manifest, PUBLISHED_JSON_FILES.  The review triage is added to a completed run.
PayloadOrder == <<"artifacts", "manifest", "summary", "items", "owner-review">>
Payload == {PayloadOrder[i] : i \in DOMAIN PayloadOrder}
Parts == Payload \union {"triage"}

\* A run directory is absent, lacks run.json, or has it with a status; "removed"
\* is an absent one whose runId has been used.
RunStatus == {"absent", "bare", "processing", "completed", "failed", "removed"}

Steps == {"new", "upload", "create", "orchestrate", "learn", "publish", "complete",
          "triage", "undo", "clear", "fail", "succeed", "finally", "done"}

VARIABLES
    \* files
    status,     \* run -> its run.json
    payload,    \* run -> its published parts
    learned,    \* runs in owner-learning-history.json
    staging,    \* requests with an upload directory
    \* the process
    server,     \* "down", "cleaning" or "up"
    sweep,      \* the runs startup cleanup has still to visit
    runLock,    \* RunExecutionLock.active
    pc,         \* request -> what it does next
    run,        \* request -> the run it has made
    \* bookkeeping of the specification
    published,  \* runs a client was told of with 201 Created
    expired,    \* runs older than the retention period
    faults

files == <<status, payload, learned, staging>>
process == <<server, sweep, runLock, pc, run>>
vars == <<files, process, published, expired, faults>>

Init ==
    /\ status = [r \in Runs |-> "absent"]
    /\ payload = [r \in Runs |-> {}]
    /\ learned = {} /\ staging = {}
    /\ server = "up" /\ sweep = {} /\ runLock = FALSE
    /\ pc = [q \in Requests |-> "new"]
    /\ run = [q \in Requests |-> None]
    /\ published = {} /\ expired = {}
    /\ faults = 0

Fault == faults < MaxFaults /\ faults' = faults + 1

Goto(q, step) == pc' = [pc EXCEPT ![q] = step]

Active(q) == pc[q] \notin {"new", "done"}

\* The request only moves on.
Continue(q, step) ==
    /\ Goto(q, step)
    /\ UNCHANGED <<files, server, sweep, runLock, run, published, expired, faults>>

\* The request writes a file and moves on, or fails and goes elsewhere.
WriteThen(q, Write, step, otherwise) ==
    /\ \/ Write /\ Goto(q, step) /\ UNCHANGED faults
       \/ Fault /\ (Write \/ UNCHANGED files) /\ Goto(q, otherwise)
    /\ UNCHANGED <<server, sweep, runLock, run, published, expired>>

SetStatus(r, s) ==
    status' = [status EXCEPT ![r] = s] /\ UNCHANGED <<payload, learned, staging>>

AddPart(r, part) ==
    payload' = [payload EXCEPT ![r] = @ \union {part}]
    /\ UNCHANGED <<status, learned, staging>>

\* The first of some parts, in the order of writing.
First(parts) ==
    CHOOSE p \in parts : \E i \in DOMAIN PayloadOrder :
        p = PayloadOrder[i] /\ \A j \in 1 .. i - 1 : PayloadOrder[j] \notin parts

-----------------------------------------------------------------------------
(* createRun, up to the calculation.                                        *)

\* The request gets the run lock (or is refused, RUN_ALREADY_IN_PROGRESS) and
\* starts to receive the workbook.
Accept(q) ==
    /\ server = "up" /\ pc[q] = "new"
    /\ ~runLock
    /\ runLock' = TRUE
    /\ staging' = staging \union {q}
    /\ Goto(q, "upload")
    /\ UNCHANGED <<status, payload, learned, server, sweep, run, published, expired, faults>>

\* parseExcelUpload: the workbook is on disk; or it is not one, is too large, or
\* the client aborts or takes too long.
Upload(q) == pc[q] = "upload" /\ (Continue(q, "create") \/ Continue(q, "finally"))

\* createProcessingRun makes the directory and writes run.json.  Until it
\* returns, createRun does not count the run as made and leaves it as it is.
CreateRun(q) ==
    /\ pc[q] = "create"
    /\ \E r \in Runs :
         /\ status[r] = "absent"
         /\ run' = [run EXCEPT ![q] = r]
         /\ \/ /\ status' = [status EXCEPT ![r] = "processing"]
               /\ Goto(q, "orchestrate")
               /\ UNCHANGED faults
            \/ /\ Fault
               /\ \E s \in {"absent", "bare", "processing"} :
                    status' = [status EXCEPT ![r] = s]
               /\ Goto(q, "finally")
    /\ UNCHANGED <<payload, learned, staging, server, sweep, runLock, published, expired>>

\* The purchasing pipeline returns a bundle or throws.
Orchestrate(q) ==
    pc[q] = "orchestrate" /\ (Continue(q, "learn") \/ Continue(q, "clear"))

-----------------------------------------------------------------------------
(* saveCompletedRun: one file after the other, run.json last; an error       *)
(* removes what was published.                                               *)

\* The bundle is mapped, which may throw, and the run enters the learning
\* history; a failure of that only makes the patterns unavailable.
Learn(q) ==
    /\ pc[q] = "learn"
    /\ \/ Continue(q, "undo")
       \/ WriteThen(q, learned' = learned \union {run[q]} /\ UNCHANGED <<status, payload, staging>>,
                    "publish", "publish")

\* Artifacts, their manifest and the JSON files; an error ends the publication.
WritePart(q) ==
    LET missing == Payload \ payload[run[q]] IN
    /\ pc[q] = "publish"
    /\ IF missing = {} THEN Continue(q, "complete")
       ELSE WriteThen(q, AddPart(run[q], First(missing)), "publish", "undo")

Complete(q) ==
    /\ pc[q] = "complete"
    /\ WriteThen(q, SetStatus(run[q], "completed"), "triage", "undo")

\* removePublishedPayload removes the JSON files in their order, then the
\* artifacts directory, in any.
Removable(r) ==
    LET json == payload[r] \ {"artifacts", "manifest", "triage"} IN
    IF json = {} THEN payload[r] ELSE {First(json)}

RemovePayload(q, step, otherwise) ==
    \/ payload[run[q]] = {} /\ Continue(q, step)
    \/ /\ \E part \in Removable(run[q]) :
            payload' = [payload EXCEPT ![run[q]] = @ \ {part}]
       /\ UNCHANGED <<status, learned, staging, process, published, expired, faults>>
    \/ /\ Fault /\ Goto(q, otherwise)
       /\ UNCHANGED <<files, server, sweep, runLock, run, published, expired>>

\* Errors of the removal are ignored.
Undo(q) == pc[q] = "undo" /\ RemovePayload(q, "clear", "clear")

\* buildAndSaveReviewTriage: its errors are ignored.
Triage(q) ==
    pc[q] = "triage" /\ WriteThen(q, AddPart(run[q], "triage"), "succeed", "succeed")

-----------------------------------------------------------------------------
(* saveFailedRun, and the end of createRun.                                 *)

\* An error of this removal is a STORAGE_ERROR, and run.json stays as it is.
Clear(q) == pc[q] = "clear" /\ RemovePayload(q, "fail", "finally")

SaveFailed(q) ==
    pc[q] = "fail" /\ WriteThen(q, SetStatus(run[q], "failed"), "finally", "finally")

\* A mistaken answer: every request is told 201.
AnsweredAnyway(q) == published \union {run[q]}

\* 201 Created tells the client of the run; an error tells of none.
Answered(q) == IF pc[q] = "succeed" THEN published \union {run[q]} ELSE published

\* A mistaken end: an upload that cannot be removed keeps the lock.
FinallyUnlessError(q) ==
    /\ pc[q] \in {"succeed", "finally"}
    /\ \/ /\ staging' = staging \ {q}
          /\ runLock' = FALSE
          /\ published' = Answered(q)
          /\ UNCHANGED faults
       \/ Fault /\ UNCHANGED <<staging, published, runLock>>
    /\ Goto(q, "done")
    /\ run' = [run EXCEPT ![q] = None]
    /\ UNCHANGED <<status, payload, learned, server, sweep, expired>>

\* The upload is removed and the lock released whether or not that works; an error
\* here replaces the answer, even that of a run that is completed.
Finally(q) ==
    /\ pc[q] \in {"succeed", "finally"}
    /\ \/ /\ staging' = staging \ {q}
          /\ published' = Answered(q)
          /\ UNCHANGED faults
       \/ Fault /\ UNCHANGED <<staging, published>>
    /\ runLock' = FALSE
    /\ Goto(q, "done")
    /\ run' = [run EXCEPT ![q] = None]
    /\ UNCHANGED <<status, payload, learned, server, sweep, expired>>

-----------------------------------------------------------------------------
(* The process and time.                                                    *)

\* The process dies, by itself or when the shutdown's patience ends.
Crash ==
    /\ server # "down"
    /\ Fault
    /\ server' = "down" /\ sweep' = {} /\ runLock' = FALSE
    /\ pc' = [q \in Requests |-> IF Active(q) THEN "done" ELSE pc[q]]
    /\ run' = [q \in Requests |-> None]
    /\ UNCHANGED <<files, published, expired>>

\* cleanupExpiredRuns lists the run directories, before the server listens.
Start ==
    /\ server = "down"
    /\ server' = "cleaning"
    /\ sweep' = {r \in Runs : status[r] \notin {"absent", "removed"}}
    /\ UNCHANGED <<files, runLock, pc, run, published, expired, faults>>

\* A mistaken visit: the age of a completed run is not looked at.
SweepCompleted(r) ==
    /\ server = "cleaning" /\ r \in sweep
    /\ sweep' = sweep \ {r}
    /\ IF status[r] = "completed"
       THEN /\ status' = [status EXCEPT ![r] = "removed"]
            /\ payload' = [payload EXCEPT ![r] = {}]
       ELSE UNCHANGED <<status, payload>>
    /\ UNCHANGED <<learned, staging, server, runLock, pc, run, published, expired, faults>>

\* An expired completed run is removed with its directory, or an error leaves
\* some of it behind; every other run is left alone.
SweepRun(r) ==
    /\ server = "cleaning" /\ r \in sweep
    /\ sweep' = sweep \ {r}
    /\ IF status[r] = "completed" /\ r \in expired
       THEN \/ /\ status' = [status EXCEPT ![r] = "removed"]
               /\ payload' = [payload EXCEPT ![r] = {}]
               /\ UNCHANGED faults
            \/ /\ Fault
               /\ \E s \in {"completed", "bare"}, rest \in SUBSET payload[r] :
                    /\ status' = [status EXCEPT ![r] = s]
                    /\ payload' = [payload EXCEPT ![r] = rest]
       ELSE UNCHANGED <<status, payload, faults>>
    /\ UNCHANGED <<learned, staging, server, runLock, pc, run, published, expired>>

\* cleanupStaleUploads, and the server listens.
Listen ==
    /\ server = "cleaning" /\ sweep = {}
    /\ server' = "up"
    /\ \/ staging' = {} /\ UNCHANGED faults
       \/ Fault /\ staging' \in SUBSET staging
    /\ UNCHANGED <<status, payload, learned, sweep, runLock, pc, run, published, expired>>

\* The retention period of a completed run passes.
Expire(r) ==
    /\ status[r] = "completed" /\ r \notin expired
    /\ expired' = expired \union {r}
    /\ UNCHANGED <<files, process, published, faults>>

Step(q) ==
    \/ Upload(q) \/ CreateRun(q) \/ Orchestrate(q)
    \/ Learn(q) \/ WritePart(q) \/ Complete(q) \/ Triage(q) \/ Undo(q)
    \/ Clear(q) \/ SaveFailed(q) \/ Finally(q)

Next ==
    \/ \E q \in Requests : Accept(q) \/ Step(q)
    \/ \E r \in Runs : SweepRun(r) \/ Expire(r)
    \/ Crash \/ Start \/ Listen

Spec == Init /\ [][Next]_vars

\* A request that has begun goes on: its upload has a timeout, the rest is
\* computation and file operations.
FairSpec == Spec /\ \A q \in Requests : WF_vars(Step(q))

-----------------------------------------------------------------------------
(* Properties.                                                              *)

\* The types of the variables.
TypeOK ==
    /\ status \in [Runs -> RunStatus]
    /\ payload \in [Runs -> SUBSET Parts]
    /\ learned \subseteq Runs /\ staging \subseteq Requests
    /\ server \in {"down", "cleaning", "up"}
    /\ sweep \subseteq Runs /\ runLock \in BOOLEAN
    /\ pc \in [Requests -> Steps]
    /\ run \in [Requests -> Runs \union {None}]
    /\ published \subseteq Runs /\ expired \subseteq Runs
    /\ faults \in Nat

\* One pipeline at a time: the lock is held exactly while one request executes,
\* so that it is neither shared nor left behind by an error or a crash.
LockMatchesRequest ==
    /\ \A q, s \in Requests : Active(q) /\ Active(s) => q = s
    /\ runLock <=> \E q \in Requests : Active(q)

\* A run that a client was told of stays completed, with all its files, until the
\* retention period is over: no later request, crash or cleanup touches it.
PublishedRunKept ==
    \A r \in published \ expired : status[r] = "completed" /\ Payload \subseteq payload[r]

\* A failed run shows nothing of a result, however far its publication had come
\* and whatever failed on the way back.
FailedRunIsEmpty == \A r \in Runs : status[r] = "failed" => payload[r] = {}

\* The lock becomes free again: no error path wedges the service.
LockFreed == runLock ~> ~runLock

\* "completed bundle is atomically published with all required files": between
\* requests, a run that run.json calls completed has its payload.
CompletedRunIsWhole ==
    server = "up" =>
      \A r \in Runs \ expired :
        status[r] = "completed" /\ (\A q \in Requests : run[q] # r)
          => Payload \subseteq payload[r]

-----------------------------------------------------------------------------
(* The strengthening every step preserves; PurchasingRuns_proofs proves it.  *)

\* Steps of a request that has made its run, up to and from the rename of run.json.
Publishing == {"orchestrate", "learn", "publish", "complete"}
Undoing == {"undo", "clear", "fail"}
Succeeding == {"triage", "succeed"}

\* How far the request q is with its run.
RequestInv(q) ==
    /\ Active(q) => server = "up"
    /\ pc[q] \in Publishing \union Undoing \union Succeeding =>
         run[q] \in Runs \ published
    /\ pc[q] \in Publishing => status[run[q]] = "processing"
    /\ pc[q] \in Undoing => status[run[q]] \in {"processing", "completed"}
    /\ pc[q] \in Succeeding => status[run[q]] = "completed"
    /\ pc[q] \in {"complete"} \union Succeeding => Payload \subseteq payload[run[q]]
    /\ pc[q] = "fail" => payload[run[q]] = {}

\* No new run gets the id of one that a client knows.
PublishedNotAbsent == \A r \in published : status[r] \in {"completed", "bare", "removed"}

Inductive ==
    /\ TypeOK /\ LockMatchesRequest /\ PublishedRunKept /\ FailedRunIsEmpty
    /\ PublishedNotAbsent
    /\ \A q \in Requests : RequestInv(q)
=============================================================================
