-------------------------- MODULE PurchasingRuns_proofs --------------------------
(***************************************************************************)
(* Proofs about PurchasingRuns and the page that submits the runs.         *)
(* For any number of requests and runs, and any number of crashes and      *)
(* failed file operations, the run lock is held exactly while one request  *)
(* is executed, what a client was told of stays whole, and a failed run    *)
(* shows nothing.  For any rows, and any number of requests, answers in    *)
(* any order and failures, the page stores a decision in the run whose     *)
(* row the owner decided on, and its tab of rows to decide, whenever it    *)
(* comes to rest, lists them all and nothing else.                         *)
(***************************************************************************)
EXTENDS PurchasingRuns, PurchasingPage, SequenceTheorems, FiniteSetTheorems, TLAPS

\* The parts of the payload by name.
LEMMA PayloadNames ==
  /\ Payload = {"artifacts", "manifest", "summary", "items", "owner-review"}
  /\ Payload \subseteq Parts
BY DEF Payload, Parts, PayloadOrder

\* There is a first of some missing parts, and it is one of them.
LEMMA FirstIsMissing ==
  ASSUME NEW parts \in SUBSET Payload, parts # {}
  PROVE  First(parts) \in parts
<1> DEFINE Before(i) == \A j \in 1 .. i - 1 : PayloadOrder[j] \notin parts
           Least(p) == \E i \in DOMAIN PayloadOrder : p = PayloadOrder[i] /\ Before(i)
<1>1. PICK p \in parts : Least(p)
  <2>1. DOMAIN PayloadOrder = 1 .. 5
    BY DEF PayloadOrder
  <2>2. PICK i \in 1 .. 5 : PayloadOrder[i] \in parts /\ Before(i)
    <3>1. CASE PayloadOrder[1] \in parts
      BY <3>1
    <3>2. CASE PayloadOrder[1] \notin parts /\ PayloadOrder[2] \in parts
      BY <3>2
    <3>3. CASE PayloadOrder[1] \notin parts /\ PayloadOrder[2] \notin parts
               /\ PayloadOrder[3] \in parts
      BY <3>3
    <3>4. CASE PayloadOrder[1] \notin parts /\ PayloadOrder[2] \notin parts
               /\ PayloadOrder[3] \notin parts /\ PayloadOrder[4] \in parts
      BY <3>4
    <3>5. CASE PayloadOrder[1] \notin parts /\ PayloadOrder[2] \notin parts
               /\ PayloadOrder[3] \notin parts /\ PayloadOrder[4] \notin parts
      <4>1. PayloadOrder[5] \in parts
        BY <2>1, <3>5 DEF Payload
      <4>2. QED
        BY <3>5, <4>1
    <3>6. QED
      BY <3>1, <3>2, <3>3, <3>4, <3>5
  <2>3. QED
    BY <2>1, <2>2
<1>2. QED
  BY <1>1 DEF First

-----------------------------------------------------------------------------
(* A step of the one request that is executed.                              *)

LEMMA FaultsTyped ==
  ASSUME Inductive, Fault \/ UNCHANGED faults
  PROVE  faults' \in Nat
BY DEF Inductive, TypeOK, Fault

\* The others have not begun or are over, and stay so.
LEMMA OthersRest ==
  ASSUME Inductive, NEW q \in Requests, Active(q), NEW step \in Steps, Goto(q, step)
  PROVE  /\ pc' \in [Requests -> Steps] /\ pc'[q] = step
         /\ \A s \in Requests \ {q} : pc'[s] = pc[s] /\ pc[s] \in {"new", "done"}
         /\ \A s \in Requests \ {q} : RequestInv(s)'
<1>1. /\ pc' \in [Requests -> Steps] /\ pc'[q] = step
      /\ \A s \in Requests \ {q} : pc'[s] = pc[s]
  BY DEF Inductive, TypeOK, Goto
<1>2. \A s \in Requests \ {q} : pc[s] \in {"new", "done"}
  BY DEF Inductive, LockMatchesRequest, Active
<1>3. QED
  BY <1>1, <1>2 DEF RequestInv, Active, Publishing, Undoing, Succeeding

\* What a request must show to have preserved the invariant.
LEMMA RequestStep ==
  ASSUME Inductive, NEW q \in Requests, Active(q),
         NEW step \in Steps \ {"new", "done"}, Goto(q, step),
         UNCHANGED <<staging, server, sweep, runLock, published, expired>>,
         Fault \/ UNCHANGED faults,
         learned' \subseteq Runs, run' \in [Requests -> Runs \union {None}],
         status' \in [Runs -> RunStatus], payload' \in [Runs -> SUBSET Parts],
         \A r \in published : status'[r] = status[r] /\ payload'[r] = payload[r],
         FailedRunIsEmpty',
         RequestInv(q)'
  PROVE  Inductive'
<1>1. /\ pc' \in [Requests -> Steps] /\ pc'[q] = step
      /\ \A s \in Requests \ {q} : pc'[s] = pc[s] /\ pc[s] \in {"new", "done"}
      /\ \A s \in Requests \ {q} : RequestInv(s)'
  BY OthersRest
<1>2. TypeOK'
  BY <1>1, FaultsTyped DEF Inductive, TypeOK
<1>3. LockMatchesRequest'
  BY <1>1 DEF Inductive, LockMatchesRequest, Active
<1>4. PublishedRunKept' /\ PublishedNotAbsent'
  BY DEF Inductive, PublishedRunKept, PublishedNotAbsent, TypeOK
<1>5. QED
  BY <1>1, <1>2, <1>3, <1>4 DEF Inductive

\* A request that has made its run changes only this run's files.
RunSteps == Publishing \union Undoing \union Succeeding

LEMMA RunStep ==
  ASSUME Inductive, NEW q \in Requests, pc[q] \in RunSteps,
         NEW step \in RunSteps \union {"finally"}, Goto(q, step),
         UNCHANGED <<staging, server, sweep, runLock, run, published, expired>>,
         Fault \/ UNCHANGED faults,
         learned' \subseteq Runs,
         NEW new \in RunStatus, status' = [status EXCEPT ![run[q]] = new],
         NEW parts \in SUBSET Parts, payload' = [payload EXCEPT ![run[q]] = parts],
         step \in Publishing => new = "processing",
         step \in Undoing => new \in {"processing", "completed"},
         step \in Succeeding => new = "completed",
         step \in {"complete"} \union Succeeding => Payload \subseteq parts,
         step = "fail" \/ new = "failed" => parts = {}
  PROVE  Inductive'
<1>1. run[q] \in Runs \ published /\ Active(q) /\ server = "up"
  BY DEF Inductive, RequestInv, RunSteps, Publishing, Undoing, Succeeding, Active
<1>2. /\ status \in [Runs -> RunStatus] /\ payload \in [Runs -> SUBSET Parts]
      /\ run \in [Requests -> Runs \union {None}] /\ published \subseteq Runs
      /\ pc' \in [Requests -> Steps] /\ pc'[q] = step
  BY <1>1, OthersRest DEF Inductive, TypeOK, RunSteps, Publishing, Undoing, Succeeding, Steps
<1>3. /\ status' \in [Runs -> RunStatus] /\ payload' \in [Runs -> SUBSET Parts]
      /\ status'[run[q]] = new /\ payload'[run[q]] = parts
      /\ \A r \in Runs \ {run[q]} : status'[r] = status[r] /\ payload'[r] = payload[r]
  BY <1>1, <1>2
<1>4. FailedRunIsEmpty'
  BY <1>3 DEF Inductive, FailedRunIsEmpty
<1>5. RequestInv(q)'
  BY <1>1, <1>2, <1>3 DEF RequestInv
<1>6. step \in Steps \ {"new", "done"}
  BY DEF RunSteps, Publishing, Undoing, Succeeding, Steps
<1>7. QED
  BY <1>1, <1>2, <1>3, <1>4, <1>5, <1>6, RequestStep

\* What a request that has made its run finds.
LEMMA RunFacts ==
  ASSUME Inductive, NEW q \in Requests, pc[q] \in RunSteps
  PROVE  /\ run[q] \in Runs /\ status[run[q]] \in RunStatus /\ payload[run[q]] \subseteq Parts
         /\ status = [status EXCEPT ![run[q]] = status[run[q]]]
         /\ payload = [payload EXCEPT ![run[q]] = payload[run[q]]]
         /\ learned \subseteq Runs /\ pc \in [Requests -> Steps]
         /\ status[run[q]] = "failed" => payload[run[q]] = {}
BY DEF Inductive, RequestInv, RunSteps, TypeOK, FailedRunIsEmpty

\* It moves on without touching a file, or a failed file operation moves it.
LEMMA MoveStep ==
  ASSUME Inductive, NEW q \in Requests, pc[q] \in RunSteps,
         NEW step \in RunSteps \union {"finally"}, Goto(q, step),
         UNCHANGED <<status, payload, staging, server, sweep, runLock, run, published, expired>>,
         learned' \subseteq Runs, Fault \/ UNCHANGED faults,
         step \in Publishing => status[run[q]] = "processing",
         step \in Undoing => status[run[q]] \in {"processing", "completed"},
         step \in Succeeding => status[run[q]] = "completed",
         step \in {"complete"} \union Succeeding => Payload \subseteq payload[run[q]],
         step = "fail" => payload[run[q]] = {}
  PROVE  Inductive'
<1>1. /\ status' = [status EXCEPT ![run[q]] = status[run[q]]]
      /\ payload' = [payload EXCEPT ![run[q]] = payload[run[q]]]
      /\ status[run[q]] \in RunStatus /\ payload[run[q]] \in SUBSET Parts
      /\ status[run[q]] = "failed" => payload[run[q]] = {}
  BY RunFacts
<1>2. QED
  BY <1>1, RunStep

\* removePublishedPayload: the request is undoing, and goes on to another such step
\* or to the end of its answer.
LEMMA RemoveStep ==
  ASSUME Inductive, NEW q \in Requests, pc[q] \in Undoing,
         NEW step \in Undoing, NEW otherwise \in Undoing \union {"finally"},
         pc[q] # "fail", otherwise # "fail",
         RemovePayload(q, step, otherwise)
  PROVE  Inductive'
<1> USE DEF RunSteps
<1>facts. /\ run[q] \in Runs /\ payload[run[q]] \subseteq Parts /\ pc \in [Requests -> Steps]
          /\ status[run[q]] \in {"processing", "completed"}
          /\ status = [status EXCEPT ![run[q]] = status[run[q]]]
          /\ learned \subseteq Runs
  BY RunFacts DEF Inductive, RequestInv
<1>1. CASE payload[run[q]] = {} /\ Continue(q, step)
  BY <1>1, <1>facts, MoveStep DEF Continue, files, Publishing, Undoing, Succeeding
<1>2. ASSUME NEW part \in Removable(run[q]),
             payload' = [payload EXCEPT ![run[q]] = @ \ {part}],
             UNCHANGED <<status, learned, staging, process, published, expired, faults>>
      PROVE  Inductive'
  <2> DEFINE rest == payload[run[q]] \ {part}
  <2>1. payload' = [payload EXCEPT ![run[q]] = rest] /\ rest \in SUBSET Parts
    BY <1>2, <1>facts
  <2>2. Goto(q, pc[q]) /\ UNCHANGED <<server, sweep, runLock, run>>
    BY <1>2, <1>facts DEF Goto, process
  <2>3. status' = [status EXCEPT ![run[q]] = status[run[q]]] /\ status[run[q]] \in RunStatus
    BY <1>2, <1>facts DEF RunStatus
  <2> HIDE DEF rest
  <2>4. QED
    BY <1>2, <1>facts, <2>1, <2>2, <2>3, RunStep DEF Publishing, Undoing, Succeeding
<1>3. CASE /\ Fault /\ Goto(q, otherwise)
           /\ UNCHANGED <<files, server, sweep, runLock, run, published, expired>>
  BY <1>3, <1>facts, MoveStep DEF files, Publishing, Undoing, Succeeding
<1>4. QED
  BY <1>1, <1>2, <1>3 DEF RemovePayload

-----------------------------------------------------------------------------
(* The steps of createRun.                                                  *)

\* saveCompletedRun up to run.json.
LEMMA PublishSteps ==
  ASSUME Inductive, NEW q \in Requests, Orchestrate(q) \/ Learn(q) \/ WritePart(q)
  PROVE  Inductive'
<1> USE DEF RunSteps
<1>1. pc[q] \in Publishing /\ pc[q] \in RunSteps
  BY DEF Orchestrate, Learn, WritePart, Publishing
<1>2. status[run[q]] = "processing" /\ run[q] \in Runs /\ learned \subseteq Runs
  BY <1>1, RunFacts DEF Inductive, RequestInv
<1>3. CASE Orchestrate(q)
  BY <1>1, <1>2, <1>3, MoveStep
     DEF Orchestrate, Continue, files, Publishing, Undoing, Succeeding
<1>4. CASE Learn(q)
  <2>1. CASE Continue(q, "undo")
    BY <1>1, <1>2, <2>1, MoveStep DEF Continue, files, Publishing, Undoing, Succeeding
  <2>2. CASE ~Continue(q, "undo")
    <3>1. /\ Goto(q, "publish") /\ learned' \subseteq Runs
          /\ Fault \/ UNCHANGED faults
          /\ UNCHANGED <<status, payload, staging, server, sweep, runLock, run, published, expired>>
      BY <1>2, <1>4, <2>2 DEF Learn, WriteThen, files
    <3>2. QED
      BY <1>1, <1>2, <3>1, MoveStep DEF Publishing, Undoing, Succeeding
  <2>3. QED
    BY <2>1, <2>2
<1>5. CASE WritePart(q)
  <2> DEFINE missing == Payload \ payload[run[q]]
             part == First(missing)
             more == payload[run[q]] \union {part}
  <2>1. CASE missing = {}
    BY <1>1, <1>2, <1>5, <2>1, MoveStep
       DEF WritePart, Continue, files, Publishing, Undoing, Succeeding
  <2>2. CASE missing # {}
    <3>1. more \in SUBSET Parts
      BY <1>1, <2>2, FirstIsMissing, PayloadNames, RunFacts
    <3>2. WriteThen(q, AddPart(run[q], part), "publish", "undo")
      BY <1>5, <2>2 DEF WritePart
    <3>3. /\ UNCHANGED <<server, sweep, runLock, run, published, expired>>
          /\ Fault \/ UNCHANGED faults
      BY <3>2 DEF WriteThen
    <3>4. PICK step \in {"publish", "undo"} : Goto(q, step)
      BY <3>2 DEF WriteThen
    <3>5. CASE UNCHANGED files
      BY <1>1, <1>2, <3>3, <3>4, <3>5, MoveStep DEF files, Publishing, Undoing, Succeeding
    <3>6. CASE AddPart(run[q], part)
      <4>1. /\ payload' = [payload EXCEPT ![run[q]] = more]
            /\ status' = [status EXCEPT ![run[q]] = "processing"]
            /\ UNCHANGED <<staging, learned>>
        BY <1>1, <1>2, <3>6, RunFacts DEF AddPart
      <4> HIDE DEF more
      <4>2. QED
        BY <1>1, <1>2, <3>1, <3>3, <3>4, <4>1, RunStep
           DEF Publishing, Undoing, Succeeding, RunStatus
    <3>7. QED
      BY <3>2, <3>5, <3>6 DEF WriteThen
  <2>3. QED
    BY <2>1, <2>2
<1>6. QED
  BY <1>3, <1>4, <1>5

\* run.json says "completed", and the review triage is added to the artifacts.
LEMMA SucceedSteps ==
  ASSUME Inductive, NEW q \in Requests, Complete(q) \/ Triage(q)
  PROVE  Inductive'
<1> USE DEF RunSteps
<1>1. pc[q] \in RunSteps /\ Payload \subseteq payload[run[q]]
  BY DEF Complete, Triage, Publishing, Succeeding, Inductive, RequestInv
<1>2. /\ run[q] \in Runs /\ payload[run[q]] \subseteq Parts /\ learned \subseteq Runs
      /\ payload = [payload EXCEPT ![run[q]] = payload[run[q]]]
      /\ status = [status EXCEPT ![run[q]] = status[run[q]]]
  BY <1>1, RunFacts
<1>3. /\ UNCHANGED <<server, sweep, runLock, run, published, expired>>
      /\ Fault \/ UNCHANGED faults
  BY DEF Complete, Triage, WriteThen
<1>4. CASE Complete(q)
  <2>1. status[run[q]] = "processing"
    BY <1>4 DEF Complete, Publishing, Inductive, RequestInv
  <2>2. ASSUME NEW step \in {"triage", "undo"}, Goto(q, step), SetStatus(run[q], "completed")
        PROVE  Inductive'
    <3> DEFINE parts == payload[run[q]]
               new == "completed"
    <3>1. /\ status' = [status EXCEPT ![run[q]] = new] /\ new \in RunStatus
          /\ payload' = [payload EXCEPT ![run[q]] = parts] /\ parts \in SUBSET Parts
          /\ UNCHANGED staging /\ learned' \subseteq Runs
      BY <1>2, <2>2 DEF SetStatus, RunStatus
    <3>2. /\ step \in RunSteps \union {"finally"} /\ step \notin Publishing /\ step # "fail"
          /\ new = "completed" /\ Payload \subseteq parts
      BY <1>1, <2>2 DEF Publishing, Undoing, Succeeding
    <3> HIDE DEF parts, new
    <3>3. QED
      BY <1>1, <1>3, <2>2, <3>1, <3>2, RunStep DEF Succeeding
  <2>3. CASE Goto(q, "undo") /\ UNCHANGED files
    BY <1>1, <1>2, <1>3, <2>1, <2>3, MoveStep DEF files, Publishing, Undoing, Succeeding
  <2>4. QED
    BY <1>4, <2>2, <2>3 DEF Complete, WriteThen
<1>5. CASE Triage(q)
  <2> DEFINE more == payload[run[q]] \union {"triage"}
  <2>1. status[run[q]] = "completed" /\ more \in SUBSET Parts /\ Payload \subseteq more
    BY <1>1, <1>2, <1>5 DEF Triage, Succeeding, Inductive, RequestInv, Parts
  <2>2. Goto(q, "succeed")
    BY <1>5 DEF Triage, WriteThen
  <2>3. CASE AddPart(run[q], "triage")
    <3>1. payload' = [payload EXCEPT ![run[q]] = more] /\ UNCHANGED <<status, learned, staging>>
      BY <2>3 DEF AddPart
    <3> HIDE DEF more
    <3>2. QED
      BY <1>1, <1>2, <1>3, <2>1, <2>2, <3>1, RunStep
         DEF Publishing, Undoing, Succeeding, RunStatus
  <2>4. CASE UNCHANGED files
    BY <1>1, <1>2, <1>3, <2>1, <2>2, <2>4, MoveStep DEF files, Publishing, Undoing, Succeeding
  <2>5. QED
    BY <1>5, <2>3, <2>4 DEF Triage, WriteThen
<1>6. QED
  BY <1>4, <1>5

\* The error paths of saveCompletedRun and saveFailedRun.
LEMMA FailSteps ==
  ASSUME Inductive, NEW q \in Requests, Undo(q) \/ Clear(q) \/ SaveFailed(q)
  PROVE  Inductive'
<1> USE DEF RunSteps
<1>1. CASE Undo(q)
  BY <1>1, RemoveStep DEF Undo, Undoing
<1>2. CASE Clear(q)
  BY <1>2, RemoveStep DEF Clear, Undoing
<1>3. CASE SaveFailed(q)
  <2>1. /\ pc[q] \in RunSteps /\ payload[run[q]] = {}
        /\ status[run[q]] \in {"processing", "completed"}
        /\ payload = [payload EXCEPT ![run[q]] = {}] /\ learned \subseteq Runs
    BY <1>3, RunFacts DEF SaveFailed, Undoing, Inductive, RequestInv
  <2>2. /\ UNCHANGED <<server, sweep, runLock, run, published, expired>>
        /\ Fault \/ UNCHANGED faults
        /\ Goto(q, "finally")
    BY <1>3 DEF SaveFailed, WriteThen
  <2>3. CASE SetStatus(run[q], "failed")
    <3> DEFINE parts == {}
               new == "failed"
    <3>1. /\ status' = [status EXCEPT ![run[q]] = new] /\ new \in RunStatus
          /\ payload' = [payload EXCEPT ![run[q]] = parts] /\ parts \in SUBSET Parts
          /\ parts = {} /\ UNCHANGED staging /\ learned' \subseteq Runs
      BY <2>1, <2>3 DEF SetStatus, RunStatus
    <3> DEFINE step == "finally"
    <3>2. /\ step \in RunSteps \union {"finally"} /\ Goto(q, step)
          /\ step \notin Publishing \union Undoing \union Succeeding \union {"complete", "fail"}
      BY <2>2 DEF Publishing, Undoing, Succeeding
    <3> HIDE DEF parts, new, step
    <3>3. QED
      BY <2>1, <2>2, <3>1, <3>2, RunStep
  <2>4. CASE UNCHANGED files
    BY <2>1, <2>2, <2>4, MoveStep DEF files, Publishing, Undoing, Succeeding
  <2>5. QED
    BY <1>3, <2>3, <2>4 DEF SaveFailed, WriteThen
<1>4. QED
  BY <1>1, <1>2, <1>3

\* The calculation of a new run: until its run is made, a request touches no file
\* but the new run.json.
LEMMA BeginSteps ==
  ASSUME ConstantsAssumption, Inductive, NEW q \in Requests, Upload(q) \/ CreateRun(q)
  PROVE  Inductive'
<1>1. /\ Active(q) /\ pc[q] \in {"upload", "create"} /\ server = "up" /\ learned \subseteq Runs
      /\ pc \in [Requests -> Steps] /\ run \in [Requests -> Runs \union {None}]
      /\ status \in [Runs -> RunStatus] /\ payload \in [Runs -> SUBSET Parts]
      /\ published \subseteq Runs
  BY DEF Upload, CreateRun, Active, Inductive, RequestInv, TypeOK
<1>2. CASE Upload(q)
  <2>1. PICK step \in {"create", "finally"} : Continue(q, step)
    BY <1>2 DEF Upload
  <2>2. /\ Goto(q, step) /\ pc'[q] = step /\ step \in Steps \ {"new", "done"}
        /\ UNCHANGED <<status, payload, learned, staging, server, sweep, runLock, run,
                       published, expired, faults>>
    BY <1>1, <2>1 DEF Continue, files, Goto, Steps
  <2>3. FailedRunIsEmpty'
    BY <2>2 DEF Inductive, FailedRunIsEmpty
  <2>4. RequestInv(q)'
    BY <1>1, <2>1, <2>2 DEF RequestInv, Publishing, Undoing, Succeeding
  <2>5. QED
    BY <1>1, <2>2, <2>3, <2>4, RequestStep
<1>3. CASE CreateRun(q)
  <2>1. PICK r \in Runs :
          /\ status[r] = "absent"
          /\ run' = [run EXCEPT ![q] = r]
          /\ \/ /\ status' = [status EXCEPT ![r] = "processing"]
                /\ Goto(q, "orchestrate")
                /\ UNCHANGED faults
             \/ /\ Fault
                /\ \E s \in {"absent", "bare", "processing"} :
                     status' = [status EXCEPT ![r] = s]
                /\ Goto(q, "finally")
    BY <1>3 DEF CreateRun
  <2>2. UNCHANGED <<payload, learned, staging, server, sweep, runLock, published, expired>>
    BY <1>3 DEF CreateRun
  <2>3. r \notin published
    BY <2>1 DEF Inductive, PublishedNotAbsent
  <2>4. PICK s \in {"absent", "bare", "processing"} : status' = [status EXCEPT ![r] = s]
    BY <2>1
  <2>5. /\ status' \in [Runs -> RunStatus] /\ status'[r] = s
        /\ \A t \in Runs \ {r} : status'[t] = status[t]
        /\ run' \in [Requests -> Runs \union {None}] /\ run'[q] = r
    BY <1>1, <2>1, <2>4 DEF RunStatus
  <2>6. PICK step \in {"orchestrate", "finally"} :
          /\ Goto(q, step)
          /\ Fault \/ UNCHANGED faults
          /\ step = "orchestrate" => status'[r] = "processing"
    BY <1>1, <2>1
  <2>7. FailedRunIsEmpty'
    BY <2>2, <2>4, <2>5 DEF Inductive, FailedRunIsEmpty
  <2>8. pc'[q] = step /\ step \in Steps \ {"new", "done"}
    <3>1. step \in Steps \ {"new", "done"}
      BY DEF Steps
    <3>2. QED
      BY <1>1, <2>6, <3>1 DEF Goto
  <2>9. RequestInv(q)'
    BY <1>1, <2>2, <2>3, <2>5, <2>6, <2>8 DEF RequestInv, Publishing, Undoing, Succeeding
  <2>10. \A t \in published : status'[t] = status[t] /\ payload'[t] = payload[t]
    BY <1>1, <2>2, <2>3, <2>5
  <2>11. QED
    BY <1>1, <2>2, <2>5, <2>6, <2>7, <2>8, <2>9, <2>10, RequestStep
<1>4. QED
  BY <1>2, <1>3

\* The request takes the free lock: no other is executed.
LEMMA AcceptStep ==
  ASSUME Inductive, NEW q \in Requests, Accept(q)
  PROVE  Inductive'
<1>1. /\ ~runLock /\ runLock' = TRUE /\ server = "up" /\ pc[q] = "new"
      /\ staging' = staging \union {q} /\ pc' = [pc EXCEPT ![q] = "upload"]
      /\ UNCHANGED <<status, payload, learned, server, sweep, run, published, expired, faults>>
  BY DEF Accept, Goto
<1>2. pc' \in [Requests -> Steps] /\ pc'[q] = "upload" /\ \A s \in Requests \ {q} : pc'[s] = pc[s]
  BY <1>1 DEF Inductive, TypeOK, Steps
<1>3. \A s \in Requests : ~Active(s)
  BY <1>1 DEF Inductive, LockMatchesRequest
<1>4. TypeOK'
  BY <1>1, <1>2 DEF Inductive, TypeOK
<1>5. LockMatchesRequest'
  BY <1>1, <1>2, <1>3 DEF LockMatchesRequest, Active
<1>6. PublishedRunKept' /\ FailedRunIsEmpty' /\ PublishedNotAbsent'
  BY <1>1 DEF Inductive, PublishedRunKept, FailedRunIsEmpty, PublishedNotAbsent
<1>7. \A s \in Requests : RequestInv(s)'
  BY <1>1, <1>2 DEF Inductive, RequestInv, Active, Publishing, Undoing, Succeeding
<1>8. QED
  BY <1>4, <1>5, <1>6, <1>7 DEF Inductive

\* The request is over and the lock is free; a run that its client is told of is
\* completed and whole.
LEMMA FinallyStep ==
  ASSUME ConstantsAssumption, Inductive, NEW q \in Requests, Finally(q)
  PROVE  Inductive'
<1>1. /\ pc[q] \in {"succeed", "finally"} /\ runLock' = FALSE
      /\ pc' = [pc EXCEPT ![q] = "done"] /\ run' = [run EXCEPT ![q] = None]
      /\ staging' \subseteq staging /\ published' \in {published, Answered(q)}
      /\ Fault \/ UNCHANGED faults
      /\ UNCHANGED <<status, payload, learned, server, sweep, expired>>
  BY DEF Finally, Goto
<1>2. /\ pc' \in [Requests -> Steps] /\ pc'[q] = "done"
      /\ \A s \in Requests \ {q} : pc'[s] = pc[s] /\ run'[s] = run[s]
      /\ run' \in [Requests -> Runs \union {None}]
  BY <1>1 DEF Inductive, TypeOK, Steps
<1>3. \A s \in Requests \ {q} : pc[s] \in {"new", "done"}
  BY <1>1 DEF Inductive, LockMatchesRequest, Active
<1>4. /\ published' \subseteq Runs
      /\ \A r \in published' \ published :
           r \in Runs /\ status[r] = "completed" /\ Payload \subseteq payload[r]
  BY <1>1 DEF Answered, Inductive, TypeOK, RequestInv, Succeeding
<1>5. TypeOK'
  BY <1>1, <1>2, <1>4, FaultsTyped DEF Inductive, TypeOK
<1>6. LockMatchesRequest'
  BY <1>1, <1>2, <1>3 DEF LockMatchesRequest, Active
<1>7. PublishedRunKept' /\ FailedRunIsEmpty' /\ PublishedNotAbsent'
  BY <1>1, <1>4 DEF Inductive, PublishedRunKept, FailedRunIsEmpty, PublishedNotAbsent
<1>8. \A s \in Requests : RequestInv(s)'
  BY <1>2, <1>3 DEF RequestInv, Active, Publishing, Undoing, Succeeding
<1>9. QED
  BY <1>5, <1>6, <1>7, <1>8 DEF Inductive

-----------------------------------------------------------------------------
(* The process and time.                                                    *)

\* A crash ends every request, and the lock with them.
LEMMA CrashStep == Inductive /\ Crash => Inductive'
<1> SUFFICES ASSUME Inductive, Crash PROVE Inductive'
  OBVIOUS
<1>1. /\ server' = "down" /\ sweep' = {} /\ runLock' = FALSE /\ Fault
      /\ run' = [q \in Requests |-> None]
      /\ UNCHANGED <<status, payload, learned, staging, published, expired>>
  BY DEF Crash, files
<1>2. pc' \in [Requests -> Steps] /\ \A q \in Requests : pc'[q] \in {"new", "done"}
  BY DEF Crash, Active, Inductive, TypeOK, Steps
<1>3. TypeOK'
  BY <1>1, <1>2, FaultsTyped DEF Inductive, TypeOK
<1>4. LockMatchesRequest' /\ \A q \in Requests : RequestInv(q)'
  BY <1>1, <1>2 DEF LockMatchesRequest, RequestInv, Active, Publishing, Undoing, Succeeding
<1>5. PublishedRunKept' /\ FailedRunIsEmpty' /\ PublishedNotAbsent'
  BY <1>1 DEF Inductive, PublishedRunKept, FailedRunIsEmpty, PublishedNotAbsent
<1>6. QED
  BY <1>3, <1>4, <1>5 DEF Inductive

\* While the server is down or cleaning no request is executed.
LEMMA NoneWhileStarting ==
  ASSUME Inductive, server # "up"
  PROVE  ~runLock /\ \A q \in Requests : pc[q] \in {"new", "done"}
BY DEF Inductive, RequestInv, LockMatchesRequest, Active

\* Startup cleanup removes nothing but expired runs, and touches no request.
LEMMA StartupSteps ==
  ASSUME Inductive, Start \/ Listen \/ \E r \in Runs : SweepRun(r)
  PROVE  Inductive'
<1>1. /\ server # "up" /\ server' \in {"cleaning", "up"}
      /\ UNCHANGED <<learned, runLock, pc, run, published, expired>>
      /\ staging' \subseteq staging /\ sweep' \subseteq Runs
      /\ Fault \/ UNCHANGED faults
  BY DEF Start, Listen, SweepRun, files, Inductive, TypeOK
<1>2. ~runLock /\ \A q \in Requests : pc[q] \in {"new", "done"}
  BY <1>1, NoneWhileStarting
<1>3. LockMatchesRequest' /\ \A q \in Requests : RequestInv(q)'
  BY <1>1, <1>2 DEF LockMatchesRequest, RequestInv, Active, Publishing, Undoing, Succeeding
<1>4. /\ status' \in [Runs -> RunStatus] /\ payload' \in [Runs -> SUBSET Parts]
      /\ \A r \in Runs :
           \/ status'[r] = status[r] /\ payload'[r] = payload[r]
           \/ r \in expired /\ status'[r] \in {"completed", "bare", "removed"}
  <2>1. CASE Start \/ Listen
    BY <2>1 DEF Start, Listen, files, Inductive, TypeOK
  <2>2. ASSUME NEW r \in Runs, SweepRun(r), UNCHANGED <<status, payload>>
        PROVE  <1>4!1
    BY <2>2 DEF Inductive, TypeOK
  <2>3. ASSUME NEW r \in Runs, r \in expired,
               NEW s \in {"completed", "bare", "removed"}, NEW rest \in SUBSET payload[r],
               status' = [status EXCEPT ![r] = s], payload' = [payload EXCEPT ![r] = rest]
        PROVE  /\ status' \in [Runs -> RunStatus] /\ payload' \in [Runs -> SUBSET Parts]
               /\ \A t \in Runs :
                    \/ status'[t] = status[t] /\ payload'[t] = payload[t]
                    \/ t \in expired /\ status'[t] \in {"completed", "bare", "removed"}
    BY <2>3 DEF Inductive, TypeOK, RunStatus
  <2>4. QED
    BY <2>1, <2>2, <2>3 DEF SweepRun
<1>5. TypeOK'
  BY <1>1, <1>4, FaultsTyped DEF Inductive, TypeOK
<1>6. PublishedRunKept' /\ FailedRunIsEmpty' /\ PublishedNotAbsent'
  BY <1>1, <1>4 DEF Inductive, TypeOK, PublishedRunKept, FailedRunIsEmpty, PublishedNotAbsent
<1>7. QED
  BY <1>3, <1>5, <1>6 DEF Inductive

\* Time passes.
LEMMA ExpireStep ==
  ASSUME Inductive, NEW r \in Runs, Expire(r)
  PROVE  Inductive'
<1>1. /\ expired' = expired \union {r}
      /\ UNCHANGED <<status, payload, learned, staging, server, sweep, runLock, pc, run,
                     published, faults>>
  BY DEF Expire, files, process
<1>2. TypeOK'
  BY <1>1 DEF Inductive, TypeOK
<1>3. LockMatchesRequest' /\ \A q \in Requests : RequestInv(q)'
  BY <1>1 DEF Inductive, LockMatchesRequest, RequestInv, Active
<1>4. PublishedRunKept' /\ FailedRunIsEmpty' /\ PublishedNotAbsent'
  BY <1>1 DEF Inductive, PublishedRunKept, FailedRunIsEmpty, PublishedNotAbsent
<1>5. QED
  BY <1>2, <1>3, <1>4 DEF Inductive

-----------------------------------------------------------------------------
(* The theorems.                                                            *)

LEMMA InductiveInit == ConstantsAssumption /\ Init => Inductive
<1> SUFFICES ASSUME ConstantsAssumption, Init PROVE Inductive
  OBVIOUS
<1>1. TypeOK
  BY DEF Init, TypeOK, RunStatus, Steps, ConstantsAssumption
<1>2. LockMatchesRequest /\ \A q \in Requests : RequestInv(q)
  BY DEF Init, LockMatchesRequest, RequestInv, Active, Publishing, Undoing, Succeeding
<1>3. PublishedRunKept /\ FailedRunIsEmpty /\ PublishedNotAbsent
  BY DEF Init, PublishedRunKept, FailedRunIsEmpty, PublishedNotAbsent
<1>4. QED
  BY <1>1, <1>2, <1>3 DEF Inductive

LEMMA InductiveStep == ConstantsAssumption /\ Inductive /\ [Next]_vars => Inductive'
<1> SUFFICES ASSUME ConstantsAssumption, Inductive, [Next]_vars PROVE Inductive'
  OBVIOUS
<1>1. ASSUME NEW q \in Requests, Accept(q) \/ Step(q)
      PROVE  Inductive'
  BY <1>1, AcceptStep, BeginSteps, PublishSteps, SucceedSteps, FailSteps, FinallyStep DEF Step
<1>2. ASSUME NEW r \in Runs, SweepRun(r) \/ Expire(r)
      PROVE  Inductive'
  BY <1>2, StartupSteps, ExpireStep
<1>3. CASE Crash \/ Start \/ Listen
  BY <1>3, CrashStep, StartupSteps
<1>4. CASE UNCHANGED vars
  BY <1>4 DEF vars, files, process, Inductive, TypeOK, LockMatchesRequest, PublishedRunKept,
              FailedRunIsEmpty, PublishedNotAbsent, RequestInv, Active
<1>5. QED
  BY <1>1, <1>2, <1>3, <1>4 DEF Next

\* How far each request is with its run, and that the four invariants below hold:
\* createRun, saveCompletedRun and saveFailedRun between any two file operations.
THEOREM RequestsOnTrack == Spec => []Inductive
BY ConstantsAssumption, InductiveInit, InductiveStep, PTL DEF Spec

\* The variables keep their types.
THEOREM TypeCorrect == Spec => []TypeOK
<1>1. Inductive => TypeOK
  BY DEF Inductive
<1>2. QED
  BY <1>1, RequestsOnTrack, PTL

\* RunExecutionLock admits one pipeline at a time, and no error path, failed removal
\* of an upload or crash leaves the lock behind.
THEOREM OnePipeline == Spec => []LockMatchesRequest
<1>1. Inductive => LockMatchesRequest
  BY DEF Inductive
<1>2. QED
  BY <1>1, RequestsOnTrack, PTL

\* A run announced with 201 Created stays completed and whole until it expires.
THEOREM PublishedStaysWhole == Spec => []PublishedRunKept
<1>1. Inductive => PublishedRunKept
  BY DEF Inductive
<1>2. QED
  BY <1>1, RequestsOnTrack, PTL

\* A run whose run.json says "failed" has no published part.
THEOREM FailedShowsNothing == Spec => []FailedRunIsEmpty
<1>1. Inductive => FailedRunIsEmpty
  BY DEF Inductive
<1>2. QED
  BY <1>1, RequestsOnTrack, PTL

-----------------------------------------------------------------------------
(* The page: what its requests, its table and its saves are.                *)

DecisionOrNone == Decisions \union {None}
RowPages == UNION {[D -> DecisionOrNone] : D \in SUBSET Rows}
ShownRows == UNION {[D -> [decision : DecisionOrNone, buttons : BOOLEAN, hidden : BOOLEAN]] :
                    D \in SUBSET Rows}
Counts == Int \union {None}
Fetched == UNION {[D -> RowPages \union {None}] : D \in SUBSET Nat}
TableRequests == [run : RunIds, filter : {"all", "needs"}, current : BOOLEAN, awaited : BOOLEAN,
                  counter : Counts, pages : Fetched]
SaveRequests == [run : RunIds, seen : RunIds, row : Rows, choice : Decisions,
                 stage : {"sent", "stored", "over"}, live : BOOLEAN, counter : Counts]

PageTyped ==
    /\ decided \in [RunIds -> [Rows -> DecisionOrNone]]
    /\ created \in 0 .. MaxRuns /\ runId \in RunIds \union {None}
    /\ active \in {"idle", "sent", "opening", "filling"}
    /\ base \in RunIds \union {None} /\ filter \in {"all", "needs"}
    /\ panel \in {"hidden", "loading", "ready", "error"}
    /\ table \in [run : RunIds \union {None}, rows : ShownRows]
    /\ loads \in SUBSET TableRequests
    /\ saves \in Seq(SaveRequests) /\ Len(saves) <= MaxSaves
    /\ missed \subseteq RunIds

\* The rows asked for are those of the run that was opened last; only the newest request
\* for them fills the table, and none while no run is open.
RunOfPage ==
    /\ base = None => panel = "hidden"
    /\ base # None => base = runId /\ active \notin {"sent", "opening"}
    /\ active = "opening" => runId # None
    /\ \A l \in loads : l.current => base # None /\ l.run = base
    /\ panel = "ready" => table.run = base
    /\ \A k \in DOMAIN saves : saves[k].run = saves[k].seen

PageInv == PageTyped /\ RunOfPage

LEMMA NoneNoRun == None \notin RunIds /\ RunIds \subseteq Nat
BY PageAssumption DEF RunIds

LEMMA NumberCounts == ASSUME NEW n \in Nat PROVE n \in Counts
BY DEF Counts

LEMMA HiddenTyped == ASSUME NEW d, NEW f PROVE (~Matches(d, f)) \in BOOLEAN
<1>1. CASE Matches(d, f)
  BY <1>1
<1>2. CASE ~Matches(d, f)
  BY <1>2
<1>3. QED
  BY <1>1, <1>2

LEMMA PagesNumbered == ASSUME NEW n \in Int PROVE 1 .. n \in SUBSET Nat
OBVIOUS

\* What a step leaves of the page is of its types.
LEMMA RunsTyped ==
  ASSUME NEW r \in RunIds, NEW f \in {"all", "needs"}, NEW awaited \in BOOLEAN
  PROVE  /\ TableRequest(r, f, awaited) \in TableRequests
         /\ TableRequest(r, f, awaited).run = r
<1>1. <<>> \in [{} -> RowPages \union {None}]
  OBVIOUS
<1>2. <<>> \in Fetched
  BY <1>1, Zenon DEF Fetched
<1>3. None \in Counts
  BY DEF Counts
<1>4. QED
  BY <1>2, <1>3 DEF TableRequest, TableRequests

LEMMA SupersededTyped ==
  ASSUME NEW ls \in SUBSET TableRequests
  PROVE  /\ Superseded(ls) \in SUBSET TableRequests
         /\ \A l \in Superseded(ls) : ~l.current
<1>1. ASSUME NEW l \in ls
      PROVE  /\ [l EXCEPT !.current = FALSE] \in TableRequests
             /\ ~([l EXCEPT !.current = FALSE]).current
  BY DEF TableRequests
<1>2. QED
  BY <1>1 DEF Superseded

LEMMA DetachedTyped ==
  ASSUME NEW ss \in Seq(SaveRequests)
  PROVE  /\ Detached(ss) \in Seq(SaveRequests) /\ Len(Detached(ss)) = Len(ss)
         /\ DOMAIN Detached(ss) = DOMAIN ss
         /\ \A k \in DOMAIN ss : /\ Detached(ss)[k].run = ss[k].run
                                 /\ Detached(ss)[k].seen = ss[k].seen
                                 /\ Detached(ss)[k].stage = ss[k].stage
<1>1. DOMAIN ss = 1 .. Len(ss) /\ Len(ss) \in Nat /\ \A k \in DOMAIN ss : ss[k] \in SaveRequests
  BY LenProperties, ElementOfSeq
<1>2. \A k \in DOMAIN ss : /\ [ss[k] EXCEPT !.live = FALSE] \in SaveRequests
                           /\ ([ss[k] EXCEPT !.live = FALSE]).run = ss[k].run
                           /\ ([ss[k] EXCEPT !.live = FALSE]).seen = ss[k].seen
                           /\ ([ss[k] EXCEPT !.live = FALSE]).stage = ss[k].stage
  BY <1>1 DEF SaveRequests
<1>3. Detached(ss) = [k \in 1 .. Len(ss) |-> [ss[k] EXCEPT !.live = FALSE]]
  BY <1>1 DEF Detached
<1>4. Detached(ss) \in Seq(SaveRequests) /\ Len(Detached(ss)) = Len(ss)
  BY <1>1, <1>2, <1>3, IsASeq, LenProperties
<1>5. QED
  BY <1>1, <1>2, <1>3, <1>4

\* One save changes in its stage, or in its stage and its counter.
Staged(k, stage) == [saves EXCEPT ![k].stage = stage]
Counted(k, stage, count) == [saves EXCEPT ![k].stage = stage, ![k].counter = count]
Moves(new) ==
  /\ new \in Seq(SaveRequests) /\ Len(new) = Len(saves) /\ DOMAIN new = DOMAIN saves
  /\ \A j \in DOMAIN saves : new[j].run = saves[j].run /\ new[j].seen = saves[j].seen

LEMMA SaveMoves ==
  ASSUME PageInv, NEW k \in DOMAIN saves, NEW stage \in {"sent", "stored", "over"},
         NEW count \in Counts
  PROVE  Moves(Staged(k, stage)) /\ Moves(Counted(k, stage, count))
<1>1. /\ DOMAIN saves = 1 .. Len(saves) /\ Len(saves) \in Nat
      /\ \A j \in DOMAIN saves : saves[j] \in SaveRequests
  BY LenProperties, ElementOfSeq DEF PageInv, PageTyped
<1>2. ASSUME NEW moved \in SaveRequests, moved.run = saves[k].run, moved.seen = saves[k].seen
      PROVE  Moves([saves EXCEPT ![k] = moved])
  <2> DEFINE new == [saves EXCEPT ![k] = moved]
  <2>1. new \in [1 .. Len(saves) -> SaveRequests]
    BY <1>1, <1>2
  <2>2. new \in Seq(SaveRequests) /\ Len(new) = Len(saves)
    BY <1>1, <2>1, IsASeq, LenProperties
  <2>3. QED
    BY <1>1, <1>2, <2>1, <2>2 DEF Moves
<1>3. Moves(Staged(k, stage))
  <2> DEFINE moved == [saves[k] EXCEPT !.stage = stage]
  <2>1. moved \in SaveRequests /\ moved.run = saves[k].run /\ moved.seen = saves[k].seen
    BY <1>1 DEF SaveRequests
  <2>2. Staged(k, stage) = [saves EXCEPT ![k] = moved]
    BY DEF Staged
  <2> HIDE DEF moved
  <2>3. QED
    BY <1>2, <2>1, <2>2
<1>4. Moves(Counted(k, stage, count))
  <2> DEFINE moved == [saves[k] EXCEPT !.stage = stage, !.counter = count]
  <2>1. moved \in SaveRequests /\ moved.run = saves[k].run /\ moved.seen = saves[k].seen
    BY <1>1 DEF SaveRequests
  <2>2. Counted(k, stage, count) = [saves EXCEPT ![k] = moved]
    BY <1>1 DEF Counted, SaveRequests
  <2> HIDE DEF moved
  <2>3. QED
    BY <1>2, <2>1, <2>2
<1>5. QED
  BY <1>3, <1>4

-----------------------------------------------------------------------------
(* The steps of the page.                                                   *)

\* The table is emptied, for a run or for none.
LEMMA ResetFacts ==
  ASSUME PageInv, NEW r \in RunIds \union {None}, ResetItems(r)
  PROVE  /\ base' = r /\ filter' = "all"
         /\ table' \in [run : RunIds \union {None}, rows : ShownRows]
         /\ loads' \in SUBSET TableRequests
         /\ \A l \in loads' : l.current => base' # None /\ l.run = base'
         /\ saves' \in Seq(SaveRequests) /\ Len(saves') <= MaxSaves
         /\ \A k \in DOMAIN saves' : saves'[k].run = saves'[k].seen
         /\ IF r = None THEN panel' = "hidden" ELSE panel' = "loading"
<1>1. /\ base' = r /\ filter' = "all" /\ table' = NoTable /\ saves' = Detached(saves)
      /\ \/ r = None /\ loads' = Superseded(loads) /\ panel' = "hidden"
         \/ /\ r # None /\ panel' = "loading"
            /\ loads' = Superseded(loads) \union {TableRequest(r, "all", TRUE)}
  BY DEF ResetItems
<1>2. NoTable \in [run : RunIds \union {None}, rows : ShownRows]
  <2>1. <<>> \in [{} -> [decision : DecisionOrNone, buttons : BOOLEAN, hidden : BOOLEAN]]
    OBVIOUS
  <2>2. <<>> \in ShownRows
    BY <2>1, Zenon DEF ShownRows
  <2>3. QED
    BY <2>2 DEF NoTable
<1>3. /\ Superseded(loads) \in SUBSET TableRequests
      /\ \A l \in Superseded(loads) : ~l.current
  BY SupersededTyped DEF PageInv, PageTyped
<1>4. r # None => /\ TableRequest(r, "all", TRUE) \in TableRequests
                  /\ TableRequest(r, "all", TRUE).run = r
  BY RunsTyped
<1>5. /\ saves \in Seq(SaveRequests) /\ Len(saves) <= MaxSaves
      /\ \A k \in DOMAIN saves : saves[k].run = saves[k].seen
  BY DEF PageInv, PageTyped, RunOfPage
<1>6. /\ saves' \in Seq(SaveRequests) /\ Len(saves') <= MaxSaves
      /\ \A k \in DOMAIN saves' : saves'[k].run = saves'[k].seen
  BY <1>1, <1>5, DetachedTyped
<1>7. QED
  BY <1>1, <1>2, <1>3, <1>4, <1>6

\* The rows are asked for, once more or under another filter.
LEMMA LoadFacts ==
  ASSUME PageInv, NEW silent \in BOOLEAN, NEW awaited \in BOOLEAN, LoadItems(silent, awaited),
         base' = base, filter' \in {"all", "needs"}
  PROVE  /\ loads' \in SUBSET TableRequests
         /\ \A l \in loads' : l.current => base # None /\ l.run = base
         /\ panel' \in {panel, "loading"}
         /\ base = None => panel' = panel
<1> USE DEF PageInv, PageTyped, RunOfPage
<1>1. CASE base = None
  BY <1>1 DEF LoadItems
<1>2. CASE base # None
  <2>1. /\ loads' = Superseded(loads) \union {TableRequest(base, filter', awaited)}
        /\ panel' = IF silent THEN panel ELSE "loading"
    BY <1>2 DEF LoadItems
  <2>2. /\ Superseded(loads) \in SUBSET TableRequests
        /\ \A l \in Superseded(loads) : ~l.current
    BY SupersededTyped
  <2>3. /\ TableRequest(base, filter', awaited) \in TableRequests
        /\ TableRequest(base, filter', awaited).run = base
    <3>1. PICK f \in {"all", "needs"} : f = filter'
      OBVIOUS
    <3>2. QED
      BY <1>2, <3>1, RunsTyped
  <2>4. QED
    BY <1>2, <2>1, <2>2, <2>3
<1>3. QED
  BY <1>1, <1>2

\* The rows of an answered request.
LEMMA RowsTyped ==
  ASSUME NEW l \in TableRequests, Served(l)
  PROVE  RowsOf(l) \in ShownRows
<1> DEFINE P == DOMAIN l.pages
           Page(i) == CHOOSE n \in P : i \in DOMAIN l.pages[n]
           all == UNION {DOMAIN l.pages[n] : n \in P}
<1>1. \A n \in P : l.pages[n] \in RowPages
  <2>1. PICK D \in SUBSET Nat : l.pages \in [D -> RowPages \union {None}]
    BY DEF TableRequests, Fetched
  <2>2. QED
    BY <2>1 DEF Served
<1>2. \A n \in P : DOMAIN l.pages[n] \subseteq Rows
  BY <1>1 DEF RowPages
<1>3. ASSUME NEW n \in P, NEW i \in DOMAIN l.pages[n]
      PROVE  l.pages[n][i] \in DecisionOrNone
  BY <1>1 DEF RowPages
<1>4. all \in SUBSET Rows
  BY <1>2
<1>5. ASSUME NEW i \in all
      PROVE  Page(i) \in P /\ i \in DOMAIN l.pages[Page(i)]
  <2>1. \E n \in P : i \in DOMAIN l.pages[n]
    OBVIOUS
  <2>2. QED
    BY <2>1, Zenon
<1> DEFINE Cell(i) == [decision |-> l.pages[Page(i)][i],
                       buttons |-> l.pages[Page(i)][i] = None, hidden |-> FALSE]
           Cells == [decision : DecisionOrNone, buttons : BOOLEAN, hidden : BOOLEAN]
<1>6. ASSUME NEW i \in all PROVE Cell(i) \in Cells
  <2>1. l.pages[Page(i)][i] \in DecisionOrNone
    BY <1>3, <1>5
  <2> HIDE DEF Page
  <2>2. (l.pages[Page(i)][i] = None) \in BOOLEAN
    OBVIOUS
  <2>3. QED
    BY <2>1, <2>2
<1>7. RowsOf(l) = [i \in all |-> Cell(i)]
  BY DEF RowsOf
<1> HIDE DEF all, Cell, Cells
<1>8. RowsOf(l) \in [all -> Cells]
  BY <1>6, <1>7
<1>9. QED
  BY <1>4, <1>8, Zenon DEF ShownRows, Cells

\* A decision is shown on its row, or the row is not in the table.
LEMMA CellTyped ==
  ASSUME NEW rows \in ShownRows, NEW i, NEW d \in Decisions, NEW f,
         NEW new, new = [rows EXCEPT ![i].decision = d, ![i].hidden = ~Matches(d, f)]
  PROVE  new \in ShownRows
<1> DEFINE Cells == [decision : DecisionOrNone, buttons : BOOLEAN, hidden : BOOLEAN]
<1>1. PICK D \in SUBSET Rows : rows \in [D -> Cells]
  BY DEF ShownRows
<1> DEFINE h == ~Matches(d, f)
<1>2. h \in BOOLEAN
  BY HiddenTyped
<1>3. new = [rows EXCEPT ![i].decision = d, ![i].hidden = h]
  OBVIOUS
<1> HIDE DEF h
<1>4. new \in [D -> Cells]
  <2>1. CASE i \in D
    <3> DEFINE cell == [rows[i] EXCEPT !.decision = d, !.hidden = h]
    <3>1. cell \in Cells
      <4>1. rows[i] \in Cells /\ d \in DecisionOrNone
        BY <1>1, <2>1 DEF DecisionOrNone
      <4>2. QED
        BY <1>2, <4>1
    <3>2. new = [rows EXCEPT ![i] = cell]
      BY <1>1, <1>3, <2>1
    <3> HIDE DEF cell, Cells
    <3>3. QED
      BY <1>1, <3>1, <3>2
  <2>2. CASE i \notin D
    BY <1>1, <1>3, <2>2
  <2>3. QED
    BY <2>1, <2>2
<1> HIDE DEF Cells
<1>5. QED
  BY <1>1, <1>4, Zenon DEF ShownRows, Cells

\* What the backend answers.
LEMMA AnswersTyped ==
  ASSUME PageInv, NEW r \in RunIds, NEW f, NEW n
  PROVE  /\ Answer(r, f, n) \in RowPages
         /\ Cardinality(Undecided(r)) \in Nat /\ TotalPages(r) \in Int
<1>1. Undecided(r) \subseteq Rows /\ decided[r] \in [Rows -> DecisionOrNone]
  BY DEF Undecided, PageInv, PageTyped
<1>2. IsFiniteSet(Undecided(r))
  BY <1>1, FS_Subset, PageAssumption
<1>3. Cardinality(Undecided(r)) \in Nat
  BY <1>2, FS_CardinalityType
<1>4. TotalPages(r) \in Int
  BY <1>3, PageAssumption DEF TotalPages
<1>5. Answer(r, f, n) \in RowPages
  <2>1. CASE f = "needs"
    <3> DEFINE D == FetchPage(r, n)
    <3>1. D \in SUBSET Rows
      BY <1>1 DEF FetchPage
    <3>2. Answer(r, f, n) = [i \in D |-> None] /\ None \in DecisionOrNone
      BY <2>1 DEF Answer, DecisionOrNone
    <3> HIDE DEF D
    <3>3. Answer(r, f, n) \in [D -> DecisionOrNone]
      BY <3>2
    <3>4. QED
      BY <3>1, <3>3, Zenon DEF RowPages
  <2>2. CASE f # "needs"
    <3>1. Answer(r, f, n) \in [Rows -> DecisionOrNone] /\ Rows \in SUBSET Rows
      BY <1>1, <2>2 DEF Answer
    <3>2. QED
      BY <3>1, Zenon DEF RowPages
  <2>3. QED
    BY <2>1, <2>2
<1>6. QED
  BY <1>3, <1>4, <1>5

\* A request under way gets its pages.
LEMMA FetchedTyped ==
  ASSUME PageInv, NEW l \in loads, NEW new,
         \/ l.pages = <<>> /\ \E total \in Int : new = [l EXCEPT
              !.counter = Cardinality(Undecided(l.run)),
              !.pages = [n \in 1 .. total |-> IF n = 1 THEN Answer(l.run, l.filter, 1) ELSE None]]
         \/ \E n \in DOMAIN l.pages : new = [l EXCEPT !.pages[n] = Answer(l.run, l.filter, n)]
  PROVE  new \in TableRequests /\ new.run = l.run /\ new.current = l.current
<1> DEFINE Replies == RowPages \union {None}
<1>1. l \in TableRequests
  BY DEF PageInv, PageTyped
<1>2. \A n : Answer(l.run, l.filter, n) \in Replies
  BY <1>1, AnswersTyped DEF TableRequests
<1>3. Cardinality(Undecided(l.run)) \in Counts
  <2>1. l.run \in RunIds
    BY <1>1 DEF TableRequests
  <2>2. Cardinality(Undecided(l.run)) \in Nat
    BY <2>1, AnswersTyped
  <2>3. QED
    BY <2>2, NumberCounts
<1>4. ASSUME NEW total \in Int,
             new = [l EXCEPT
               !.counter = Cardinality(Undecided(l.run)),
               !.pages = [n \in 1 .. total |->
                             IF n = 1 THEN Answer(l.run, l.filter, 1) ELSE None]]
      PROVE  new \in TableRequests /\ new.run = l.run /\ new.current = l.current
  <2> DEFINE D == 1 .. total
             got == [n \in D |-> IF n = 1 THEN Answer(l.run, l.filter, 1) ELSE None]
  <2>1. D \in SUBSET Nat
    BY PagesNumbered
  <2>2. new = [l EXCEPT !.counter = Cardinality(Undecided(l.run)), !.pages = got]
    BY <1>4
  <2> HIDE DEF D
  <2>3. got \in [D -> Replies]
    BY <1>2
  <2>4. got \in Fetched
    BY <2>1, <2>3, Zenon DEF Fetched
  <2> HIDE DEF got
  <2>5. QED
    BY <1>1, <1>3, <2>2, <2>4 DEF TableRequests
<1>5. ASSUME NEW n \in DOMAIN l.pages, new = [l EXCEPT !.pages[n] = Answer(l.run, l.filter, n)]
      PROVE  new \in TableRequests /\ new.run = l.run /\ new.current = l.current
  <2> DEFINE got == [l.pages EXCEPT ![n] = Answer(l.run, l.filter, n)]
  <2>1. PICK D \in SUBSET Nat : l.pages \in [D -> Replies]
    BY <1>1 DEF TableRequests, Fetched
  <2>2. got \in [D -> Replies]
    <3> HIDE DEF Replies
    <3>1. QED
      BY <1>2, <2>1
  <2>3. got \in Fetched
    BY <2>2, Zenon DEF Fetched
  <2>4. new = [l EXCEPT !.pages = got]
    BY <1>5
  <2> HIDE DEF got
  <2>5. QED
    BY <1>1, <2>3, <2>4 DEF TableRequests
<1>6. QED
  BY <1>4, <1>5

-----------------------------------------------------------------------------
\* Another report is selected or submitted: no run is open.
LEMMA ReportStep ==
  ASSUME PageInv, (\E ok \in BOOLEAN : SelectFile(ok)) \/ SubmitRun
  PROVE  PageInv'
<1>1. ResetItems(None) /\ UNCHANGED <<created, runId, decided, missed>>
  BY DEF SelectFile, SubmitRun, serverVars
<1>2. active' \in {active, "sent"}
  BY DEF SelectFile, SubmitRun
<1>3. PageTyped'
  BY <1>1, <1>2, ResetFacts DEF PageInv, PageTyped
<1>4. RunOfPage'
  BY <1>1, <1>2, ResetFacts DEF PageInv, PageTyped, RunOfPage
<1>5. QED
  BY <1>3, <1>4 DEF PageInv

\* A run is calculated, or its submission fails.
LEMMA SubmissionStep ==
  ASSUME PageInv, RunAnswered \/ RunFails
  PROVE  PageInv'
<1> USE DEF PageInv, PageTyped, RunOfPage
<1>1. UNCHANGED <<base, filter, panel, table, loads, saves, decided, missed>> /\ base = None
  BY DEF RunAnswered, RunFails, tableVars, serverVars
<1>2. CASE RunAnswered
  <2>1. created' \in 0 .. MaxRuns /\ runId' \in RunIds /\ active' = "opening"
    BY <1>2, PageAssumption DEF RunAnswered, RunIds
  <2>2. QED
    BY <1>1, <2>1, NoneNoRun
<1>3. CASE RunFails
  BY <1>1, <1>3 DEF RunFails
<1>4. QED
  BY <1>2, <1>3

\* The run that was calculated is opened.
LEMMA ShownStep ==
  ASSUME PageInv, RunShown
  PROVE  PageInv'
<1> USE DEF PageInv, PageTyped, RunOfPage
<1>1. /\ ResetItems(runId) /\ runId # None /\ active' = "filling"
      /\ UNCHANGED <<created, runId, decided, missed>>
  BY DEF RunShown, serverVars
<1>2. QED
  BY <1>1, ResetFacts

\* The rows are asked for again.
LEMMA AskedStep ==
  ASSUME PageInv, (\E f \in {"all", "needs"} : SelectFilter(f)) \/ Reload
  PROVE  PageInv'
<1> USE DEF PageInv, PageTyped, RunOfPage
<1>1. /\ UNCHANGED <<created, runId, active, table, saves, decided, missed, base>>
      /\ filter' \in {"all", "needs"}
      /\ LoadItems(FALSE, FALSE) \/ LoadItems(TRUE, FALSE)
  BY DEF SelectFilter, Reload, runVars, serverVars
<1>2. /\ loads' \in SUBSET TableRequests
      /\ \A l \in loads' : l.current => base # None /\ l.run = base
      /\ panel' \in {panel, "loading"}
      /\ base = None => panel' = panel
  BY <1>1, LoadFacts
<1>3. QED
  BY <1>1, <1>2

\* The backend answers for a request under way.
LEMMA ServedStep ==
  ASSUME PageInv, NEW l \in loads, ServeFirst(l) \/ \E n \in DOMAIN l.pages : ServePage(l, n)
  PROVE  PageInv'
<1> USE DEF PageInv, PageTyped, RunOfPage
<1>1. UNCHANGED <<created, runId, active, base, filter, panel, table, saves, decided, missed>>
  BY DEF ServeFirst, ServePage, runVars, serverVars
<1>2. PICK new : /\ Replace(l, new)
                 /\ new \in TableRequests /\ new.run = l.run /\ new.current = l.current
  <2>1. CASE ServeFirst(l)
    <3> DEFINE total == IF l.filter = "needs" /\ Undecided(l.run) # {} THEN TotalPages(l.run) ELSE 1
               new == [l EXCEPT
                 !.counter = Cardinality(Undecided(l.run)),
                 !.pages = [n \in 1 .. total |->
                               IF n = 1 THEN Answer(l.run, l.filter, 1) ELSE None]]
    <3>1. l.pages = <<>> /\ Replace(l, new)
      BY <2>1 DEF ServeFirst
    <3>2. total \in Int
      <4>1. l.run \in RunIds
        BY DEF TableRequests
      <4>2. TotalPages(l.run) \in Int
        BY <4>1, AnswersTyped
      <4>3. QED
        BY <4>2
    <3> HIDE DEF total
    <3>3. new \in TableRequests /\ new.run = l.run /\ new.current = l.current
      BY <3>1, <3>2, FetchedTyped
    <3>4. QED
      BY <3>1, <3>3
  <2>2. CASE \E n \in DOMAIN l.pages : ServePage(l, n)
    <3>1. PICK n \in DOMAIN l.pages :
              Replace(l, [l EXCEPT !.pages[n] = Answer(l.run, l.filter, n)])
      BY <2>2 DEF ServePage
    <3> DEFINE new == [l EXCEPT !.pages[n] = Answer(l.run, l.filter, n)]
    <3>2. new \in TableRequests /\ new.run = l.run /\ new.current = l.current
      BY FetchedTyped
    <3>3. QED
      BY <3>1, <3>2
  <2>3. QED
    BY <2>1, <2>2
<1>3. QED
  BY <1>1, <1>2 DEF Replace

\* The rows come, or fail to come.
LEMMA FilledStep ==
  ASSUME PageInv, NEW l \in loads, LoadAnswered(l) \/ LoadFails(l)
  PROVE  PageInv'
<1> USE DEF PageInv, PageTyped, RunOfPage
<1>1. UNCHANGED <<created, runId, decided, missed, base>> /\ active' \in {active, "idle"}
  BY DEF LoadAnswered, LoadFails, serverVars, Awaited
<1>2. CASE LoadFails(l)
  <2>1. /\ UNCHANGED <<filter, table, saves>> /\ loads' = loads \ {l}
        /\ panel' = IF l.current THEN "error" ELSE panel
    BY <1>2 DEF LoadFails
  <2>2. QED
    BY <1>1, <2>1
<1>3. CASE Served(l) /\ ~l.current /\ loads' = loads \ {l}
           /\ UNCHANGED <<filter, panel, table, saves>>
  BY <1>1, <1>3
<1>4. CASE /\ l.current /\ filter' = Default(l)
           /\ loads' = (loads \ {l}) \union
                {TableRequest(r, Default(l), l.awaited) : r \in {base} \ {None}}
           /\ panel' = (IF base = None THEN panel ELSE "loading")
           /\ UNCHANGED <<table, saves>>
  <2>1. PICK f \in {"all", "needs"} : f = Default(l)
    BY DEF Default
  <2>2. l.awaited \in BOOLEAN /\ base # None
    BY <1>4 DEF TableRequests
  <2>3. loads' = (loads \ {l}) \union {TableRequest(base, f, l.awaited)}
    BY <1>4, <2>1, <2>2
  <2>4. /\ TableRequest(base, f, l.awaited) \in TableRequests
        /\ TableRequest(base, f, l.awaited).run = base
    BY <2>2, RunsTyped
  <2>5. filter' \in {"all", "needs"} /\ panel' = "loading"
    BY <1>4, <2>1, <2>2
  <2>6. QED
    BY <1>1, <1>4, <2>2, <2>3, <2>4, <2>5
<1>5. CASE /\ Served(l) /\ l.current /\ loads' = loads \ {l}
           /\ table' = [run |-> l.run, rows |-> RowsOf(l)] /\ panel' = "ready"
           /\ saves' = Detached(saves) /\ UNCHANGED filter
  <2>1. RowsOf(l) \in ShownRows /\ l.run = base /\ base # None
    BY <1>5, RowsTyped
  <2>2. table' \in [run : RunIds \union {None}, rows : ShownRows] /\ table'.run = base
    BY <1>5, <2>1
  <2>3. /\ saves' \in Seq(SaveRequests) /\ Len(saves') <= MaxSaves
        /\ \A k \in DOMAIN saves' : saves'[k].run = saves'[k].seen
    BY <1>5, DetachedTyped
  <2>4. QED
    BY <1>1, <1>5, <2>1, <2>2, <2>3
<1>6. QED
  BY <1>2, <1>3, <1>4, <1>5 DEF LoadAnswered

\* The owner decides on a row of the table.
LEMMA ConfirmStep ==
  ASSUME PageInv, NEW i \in Rows, NEW choice \in Decisions, Confirm(i, choice)
  PROVE  PageInv'
<1> USE DEF PageInv, PageTyped, RunOfPage
<1> DEFINE new == [run |-> base, seen |-> table.run, row |-> i, choice |-> choice,
                   stage |-> "sent", live |-> TRUE, counter |-> None]
<1>1. /\ UNCHANGED <<created, runId, active, base, filter, panel, table, loads, decided, missed>>
      /\ saves' = Append(saves, new) /\ Len(saves) < MaxSaves
      /\ base \in RunIds /\ table.run = base
  BY DEF Confirm, runVars, tableVars, serverVars
<1>2. new \in SaveRequests /\ new.run = new.seen
  BY <1>1 DEF SaveRequests, Counts
<1> HIDE DEF new
<1>3. /\ saves' \in Seq(SaveRequests) /\ Len(saves') = Len(saves) + 1 /\ Len(saves) \in Nat
      /\ DOMAIN saves' = 1 .. Len(saves) + 1 /\ DOMAIN saves = 1 .. Len(saves)
      /\ saves'[Len(saves) + 1] = new
      /\ \A k \in DOMAIN saves : saves'[k] = saves[k]
  BY <1>1, <1>2, AppendProperties, LenProperties
<1>4. \A k \in DOMAIN saves' : saves'[k].run = saves'[k].seen
  BY <1>2, <1>3
<1>5. QED
  BY <1>1, <1>3, <1>4, PageAssumption

\* A decision is stored, answered or fails.
LEMMA SaveStep ==
  ASSUME PageInv, NEW k \in DOMAIN saves, Store(k) \/ SaveAnswered(k) \/ SaveFails(k)
  PROVE  PageInv'
<1> USE DEF PageInv, PageTyped, RunOfPage
<1>1. /\ UNCHANGED <<created, runId, active, base, filter, panel, loads>>
      /\ saves[k] \in SaveRequests
  BY ElementOfSeq, LenProperties DEF Store, SaveAnswered, SaveFails, runVars, tableVars
<1>2. /\ saves[k].run \in RunIds /\ saves[k].row \in Rows /\ saves[k].choice \in Decisions
  BY <1>1 DEF SaveRequests
<1>3. CASE Store(k)
  <2>1. /\ decided' = [decided EXCEPT ![saves[k].run][saves[k].row] = saves[k].choice]
        /\ saves' = [saves EXCEPT ![k].stage = "stored",
                       ![k].counter = Cardinality(Undecided(saves[k].run) \ {saves[k].row})]
        /\ UNCHANGED <<table, missed>>
    BY <1>3 DEF Store, tableVars
  <2>2. decided' \in [RunIds -> [Rows -> DecisionOrNone]]
    BY <1>2, <2>1 DEF DecisionOrNone
  <2>3. Cardinality(Undecided(saves[k].run) \ {saves[k].row}) \in Counts
    <3> DEFINE rest == Undecided(saves[k].run) \ {saves[k].row}
    <3>1. IsFiniteSet(rest)
      <4>1. rest \subseteq Rows
        BY <1>2 DEF Undecided
      <4>2. QED
        BY <4>1, FS_Subset, PageAssumption
    <3>2. QED
      BY <3>1, FS_CardinalityType DEF Counts
  <2>4. Moves(saves')
    <3>1. saves' = Counted(k, "stored", Cardinality(Undecided(saves[k].run) \ {saves[k].row}))
      BY <2>1 DEF Counted
    <3>2. PICK count \in Counts : saves' = Counted(k, "stored", count)
      BY <2>3, <3>1
    <3>3. QED
      BY <3>2, SaveMoves
  <2>5. QED
    BY <1>1, <2>1, <2>2, <2>4 DEF Moves
<1>4. CASE SaveAnswered(k)
  <2>1. /\ saves' = [saves EXCEPT ![k].stage = "over"]
        /\ table' = (IF saves[k].live
                     THEN [table EXCEPT !.rows[saves[k].row].decision = saves[k].choice,
                             !.rows[saves[k].row].hidden = ~Matches(saves[k].choice, filter)]
                     ELSE table)
        /\ UNCHANGED <<decided, missed>>
    BY <1>4 DEF SaveAnswered, serverVars
  <2>2. table' \in [run : RunIds \union {None}, rows : ShownRows] /\ table'.run = table.run
    <3> DEFINE shown == [table.rows EXCEPT ![saves[k].row].decision = saves[k].choice,
                           ![saves[k].row].hidden = ~Matches(saves[k].choice, filter)]
    <3>1. shown \in ShownRows
      BY <1>2, CellTyped
    <3>2. table' = table \/ table' = [table EXCEPT !.rows = shown]
      <4>1. CASE saves[k].live
        BY <2>1, <4>1
      <4>2. CASE ~saves[k].live
        BY <2>1, <4>2
      <4>3. QED
        BY <4>1, <4>2
    <3> HIDE DEF shown
    <3>3. QED
      BY <3>1, <3>2
  <2>3. Moves(saves')
    <3>1. saves' = Staged(k, "over") /\ None \in Counts
      BY <2>1 DEF Staged, Counts
    <3>2. QED
      BY <3>1, SaveMoves
  <2>4. QED
    BY <1>1, <2>1, <2>2, <2>3 DEF Moves
<1>5. CASE SaveFails(k)
  <2>1. /\ saves' = [saves EXCEPT ![k].stage = "over"]
        /\ missed' \in {missed, missed \union {saves[k].run}}
        /\ UNCHANGED <<decided, table>>
    BY <1>5 DEF SaveFails, tableVars
  <2>2. Moves(saves')
    <3>1. saves' = Staged(k, "over") /\ None \in Counts
      BY <2>1 DEF Staged, Counts
    <3>2. QED
      BY <3>1, SaveMoves
  <2>3. QED
    BY <1>1, <1>2, <2>1, <2>2 DEF Moves
<1>6. QED
  BY <1>3, <1>4, <1>5

\* The cards and the simulated budget leave the table alone.
LEMMA UnseenStep ==
  ASSUME PageInv,
         UNCHANGED <<decided, created, runId, active, base, filter, panel, table, loads, saves,
                     missed>>
  PROVE  PageInv'
BY DEF PageInv, PageTyped, RunOfPage

LEMMA PageStep ==
  ASSUME PageInv, [PageNext]_pageVars
  PROVE  PageInv'
<1>1. CASE (\E ok \in BOOLEAN : SelectFile(ok)) \/ SubmitRun
  BY <1>1, ReportStep
<1>2. CASE RunAnswered \/ RunFails
  BY <1>2, SubmissionStep
<1>3. CASE RunShown
  BY <1>3, ShownStep
<1>4. CASE (\E f \in {"all", "needs"} : SelectFilter(f)) \/ Reload
  BY <1>4, AskedStep
<1>5. CASE \E l \in loads : ServeFirst(l) \/ \E n \in DOMAIN l.pages : ServePage(l, n)
  BY <1>5, ServedStep
<1>6. CASE \E l \in loads : LoadAnswered(l) \/ LoadFails(l)
  BY <1>6, FilledStep
<1>7. CASE \E i \in Rows, choice \in Decisions : Confirm(i, choice)
  BY <1>7, ConfirmStep
<1>8. CASE \E k \in DOMAIN saves : Store(k) \/ SaveAnswered(k) \/ SaveFails(k)
  BY <1>8, SaveStep
<1>9. CASE \/ \E k \in DOMAIN refreshes : ServeCard(k) \/ CardAnswered(k) \/ CardFails(k)
           \/ Simulate
           \/ \E k \in DOMAIN simulations :
                  ServeSimulation(k) \/ SimulationAnswered(k) \/ SimulationFails(k)
  BY <1>9, UnseenStep DEF ServeCard, CardAnswered, CardFails, Simulate, ServeSimulation,
     SimulationAnswered, SimulationFails, runVars, tableVars, serverVars
<1>10. CASE UNCHANGED pageVars
  BY <1>10, UnseenStep DEF pageVars
<1>11. QED
  BY <1>1, <1>2, <1>3, <1>4, <1>5, <1>6, <1>7, <1>8, <1>9, <1>10 DEF PageNext

LEMMA PageInitially == PageInit => PageInv
<1> SUFFICES ASSUME PageInit PROVE PageInv
  OBVIOUS
<1>1. NoTable \in [run : RunIds \union {None}, rows : ShownRows]
  <2>1. <<>> \in [{} -> [decision : DecisionOrNone, buttons : BOOLEAN, hidden : BOOLEAN]]
    OBVIOUS
  <2>2. <<>> \in ShownRows
    BY <2>1, Zenon DEF ShownRows
  <2>3. QED
    BY <2>2 DEF NoTable
<1>2. saves \in Seq(SaveRequests) /\ Len(saves) = 0 /\ DOMAIN saves = {}
  BY EmptySeq DEF PageInit
<1>3. created \in 0 .. MaxRuns /\ Len(saves) <= MaxSaves
  BY <1>2, PageAssumption DEF PageInit
<1>4. decided \in [RunIds -> [Rows -> DecisionOrNone]]
  BY DEF PageInit, DecisionOrNone
<1>5. PageTyped
  BY <1>1, <1>2, <1>3, <1>4 DEF PageInit, PageTyped
<1>6. RunOfPage
  BY <1>2 DEF PageInit, RunOfPage
<1>7. QED
  BY <1>5, <1>6 DEF PageInv

\* The page's variables keep their types, for any rows, decisions and runs, and any
\* number of requests, answers and failures.
THEOREM PageTypeCorrect == PageSpec => []PageTypeOK
<1>1. PageInv => PageTypeOK
  <2> SUFFICES ASSUME PageInv PROVE PageTypeOK
    OBVIOUS
  <2>1. DOMAIN table.rows \subseteq Rows /\ table.run \in RunIds \union {None}
    BY DEF PageInv, PageTyped, ShownRows
  <2>2. QED
    BY <2>1 DEF PageInv, PageTyped, PageTypeOK, DecisionOrNone
<1>2. QED
  BY <1>1, PageInitially, PageStep, PTL DEF PageSpec

\* Whatever overtakes what, a decision goes to the run of the row on which the owner took
\* it, and the table never shows the rows of a run that is no longer open.
THEOREM DecisionsReachShownRun == PageSpec => []DecisionForShownRun
<1>1. PageInv => DecisionForShownRun
  BY DEF PageInv, PageTyped, RunOfPage, DecisionForShownRun
<1>2. QED
  BY <1>1, PageInitially, PageStep, PTL DEF PageSpec

-----------------------------------------------------------------------------
(* The pages of an answer.                                                  *)

\* Quotients by a page size.
LEMMA QuotientsGrow ==
  ASSUME NEW a \in Nat, NEW b \in Nat, NEW size \in Nat \ {0}, a <= b
  PROVE  a \div size <= b \div size /\ a \div size \in Nat
<1>1. PICK p \in Int : p = a \div size
  OBVIOUS
<1>2. PICK q \in Int : q = b \div size
  OBVIOUS
<1>3. size * p <= a /\ a < size * p + size
  BY <1>1
<1>4. size * q <= b /\ b < size * q + size
  BY <1>2
<1>5. p <= q
  <2> SUFFICES ASSUME q < p PROVE FALSE
    OBVIOUS
  <2>1. size * (q + 1) <= size * p
    OBVIOUS
  <2>2. QED
    BY <1>3, <1>4, <2>1
<1>6. p >= 0
  <2> SUFFICES ASSUME p <= -1 PROVE FALSE
    OBVIOUS
  <2>1. size * (p + 1) <= size * 0
    OBVIOUS
  <2>2. QED
    BY <1>3, <2>1
<1>7. QED
  BY <1>1, <1>2, <1>5, <1>6

LEMMA QuotientNext ==
  ASSUME NEW b \in Nat, NEW size \in Nat \ {0}
  PROVE  (b + size) \div size = 1 + b \div size
<1>1. PICK p \in Int : p = b \div size
  OBVIOUS
<1>2. size * p <= b /\ b < size * p + size
  BY <1>1
<1>3. size * (p + 1) = size * p + size
  OBVIOUS
<1>4. size * (p + 1) <= b + size /\ b + size < size * (p + 1) + size
  BY <1>2, <1>3
<1>5. QED
  BY <1>1, <1>4

\* Pages of the rows to decide.
PageCount(r) == IF Undecided(r) # {} THEN TotalPages(r) ELSE 1

LEMMA UndecidedRows ==
  ASSUME PageTyped, NEW r \in RunIds
  PROVE  /\ Undecided(r) \subseteq Rows /\ Undecided(r) \subseteq Nat
         /\ IsFiniteSet(Undecided(r)) /\ Cardinality(Undecided(r)) \in Nat
<1>1. Undecided(r) \subseteq Rows
  BY DEF PageTyped, Undecided
<1>2. QED
  BY <1>1, FS_Subset, FS_CardinalityType, PageAssumption

LEMMA PagesHoldAll ==
  ASSUME PageTyped, NEW r \in RunIds
  PROVE  /\ PageCount(r) \in Nat
         /\ UNION {FetchPage(r, n) : n \in 1 .. PageCount(r)} = Undecided(r)
<1> DEFINE U == Undecided(r)
           Before(i) == {j \in U : j < i}
           At(i) == 1 + Cardinality(Before(i)) \div FetchSize
<1>1. U \subseteq Nat /\ IsFiniteSet(U) /\ Cardinality(U) \in Nat
  BY UndecidedRows
<1>2. \A n : FetchPage(r, n) = {i \in U : At(i) = n}
  BY DEF FetchPage
<1>3. PageCount(r) = IF U # {} THEN (Cardinality(U) + FetchSize - 1) \div FetchSize ELSE 1
  BY DEF PageCount, TotalPages
<1>4. FetchSize \in Nat \ {0}
  BY PageAssumption
<1> HIDE DEF U
<1>5. CASE U = {}
  <2> HIDE DEF At
  <2>1. PageCount(r) = 1 /\ \A n : FetchPage(r, n) = {}
    BY <1>2, <1>3, <1>5
  <2>2. QED
    BY <1>5, <2>1 DEF U
<1>6. CASE U # {}
  <2>1. PICK last \in Nat : Cardinality(U) = last + 1
    <3>1. Cardinality(U) # 0
      BY <1>1, <1>6, FS_EmptySet
    <3>2. QED
      BY <1>1, <3>1
  <2>2. PICK most \in Nat : most = last \div FetchSize /\ PageCount(r) = 1 + most
    <3>1. PageCount(r) = (last + FetchSize) \div FetchSize
      BY <1>3, <1>4, <1>6, <2>1
    <3>2. (last + FetchSize) \div FetchSize = 1 + last \div FetchSize
      BY <1>4, QuotientNext
    <3>3. last \div FetchSize \in Nat
      BY <1>4, QuotientsGrow
    <3>4. QED
      BY <3>1, <3>2, <3>3
  <2>3. \A i \in U : At(i) \in 1 .. PageCount(r)
    <3> TAKE i \in U
    <3>1. Before(i) \subseteq U \ {i}
      BY <1>1
    <3> HIDE DEF Before
    <3>2. /\ IsFiniteSet(U \ {i}) /\ Cardinality(U \ {i}) = last
          /\ IsFiniteSet(Before(i)) /\ Cardinality(Before(i)) \in Nat
      BY <1>1, <2>1, <3>1, FS_RemoveElement, FS_Subset, FS_CardinalityType
    <3>3. Cardinality(Before(i)) <= last
      BY <3>1, <3>2, FS_Subset
    <3>4. PICK before \in Nat : before = Cardinality(Before(i)) /\ before <= last
      BY <3>2, <3>3
    <3>5. before \div FetchSize <= most /\ before \div FetchSize \in Nat
      BY <1>4, <2>2, <3>4, QuotientsGrow
    <3>6. PICK q \in Nat : q = before \div FetchSize /\ q <= most
      BY <3>5
    <3>7. At(i) = 1 + q
      BY <3>4, <3>6
    <3>8. QED
      BY <2>2, <3>6, <3>7
  <2> HIDE DEF At
  <2>4. ASSUME NEW i \in U
        PROVE  \E n \in 1 .. PageCount(r) : i \in FetchPage(r, n)
    BY <1>2, <2>3, Zenon
  <2>5. \A n : FetchPage(r, n) \subseteq U
    BY <1>2
  <2>6. QED
    BY <2>2, <2>4, <2>5 DEF U
<1>7. QED
  BY <1>5, <1>6

-----------------------------------------------------------------------------
(* The tab of rows to decide.                                               *)

\* No stored decision on the run is about to change the table or the counter, and none
\* will make the page ask again.
Undisturbed ==
    /\ timers = 0 /\ base \notin missed
    /\ \A k \in DOMAIN saves : saves[k].stage = "stored" => saves[k].run # base

\* What has come for a request is what the backend would answer now, ...
Faithful(l) ==
    /\ l.counter = Cardinality(Undecided(base))
    /\ DOMAIN l.pages = 1 .. PageCount(base)
    /\ \A n \in DOMAIN l.pages : l.pages[n] \in {None, Answer(base, "needs", n)}

\* ... and so is what the table shows.
Listed ==
    /\ {i \in DOMAIN table.rows : ~table.rows[i].hidden} = Undecided(base)
    /\ counter = Cardinality(Undecided(base))

NothingCurrent == \A l \in loads : ~l.current

CurrentLoad ==
    /\ \A l, m \in loads : l.current /\ m.current => l = m
    /\ \A l \in loads : l.current => l.filter = filter

LoadsTrue ==
    Undisturbed =>
        \A l \in loads : l.current /\ l.filter = "needs" /\ l.pages # <<>> => Faithful(l)

TableTrue ==
    Undisturbed /\ filter = "needs" /\ panel = "ready" /\ NothingCurrent => Listed

TabInv == timers \in Nat /\ CurrentLoad /\ LoadsTrue /\ TableTrue

\* The same decisions on the run give the same answers.
LEMMA SameAnswers ==
  ASSUME base' = base, decided'[base] = decided[base]
  PROVE  /\ Undecided(base)' = Undecided(base) /\ PageCount(base)' = PageCount(base)
         /\ \A n : Answer(base, "needs", n)' = Answer(base, "needs", n)
<1>1. Undecided(base)' = Undecided(base)
  BY DEF Undecided
<1>2. \A n : FetchPage(base, n)' = FetchPage(base, n)
  BY <1>1 DEF FetchPage
<1>3. QED
  BY <1>1, <1>2 DEF Answer, PageCount, TotalPages

LEMMA SameFaith ==
  ASSUME base' = base, decided'[base] = decided[base], NEW l, Faithful(l)
  PROVE  Faithful(l)'
BY SameAnswers DEF Faithful

\* A step that leaves the requests and the table alone, or happens while the other tab
\* is shown.
LEMMA TabKept ==
  ASSUME PageInv, TabInv, UNCHANGED <<base, filter, panel, loads>>, timers' \in Nat,
         filter = "needs" /\ base # None /\ Undisturbed' =>
             Undisturbed /\ UNCHANGED <<table, counter>> /\ decided'[base] = decided[base]
  PROVE  TabInv'
<1>1. CurrentLoad'
  BY DEF TabInv, CurrentLoad
<1>2. LoadsTrue'
  <2> SUFFICES ASSUME Undisturbed', NEW l \in loads, l.current, l.filter = "needs",
                      l.pages # <<>>
               PROVE  Faithful(l)'
    BY DEF LoadsTrue
  <2>1. filter = "needs" /\ base # None
    BY DEF TabInv, CurrentLoad, PageInv, RunOfPage
  <2>2. Faithful(l)
    BY <2>1 DEF TabInv, LoadsTrue
  <2>3. QED
    BY <2>1, <2>2, SameFaith
<1>3. TableTrue'
  <2> SUFFICES ASSUME Undisturbed', filter = "needs", panel = "ready", NothingCurrent
               PROVE  Listed'
    BY DEF TableTrue, NothingCurrent
  <2>1. base # None
    BY DEF PageInv, RunOfPage
  <2>2. Listed
    BY <2>1 DEF TabInv, TableTrue
  <2>3. QED
    BY <2>1, <2>2, SameAnswers DEF Listed
<1>4. QED
  BY <1>1, <1>2, <1>3 DEF TabInv

\* A step that asks for the rows anew, or for none.
LEMMA TabAsked ==
  ASSUME PageInv, TabInv, timers' \in Nat,
         NEW new, loads' = new,
         \A l \in new : l.current => l.filter = filter' /\ l.pages = <<>>,
         \A l, m \in new : l.current /\ m.current => l = m,
         panel' # "ready" \/ filter' = "all" \/ \E l \in new : l.current
  PROVE  TabInv'
<1>1. CurrentLoad'
  BY DEF CurrentLoad
<1>2. LoadsTrue'
  BY DEF LoadsTrue
<1>3. TableTrue'
  BY DEF TableTrue, NothingCurrent
<1>4. QED
  BY <1>1, <1>2, <1>3 DEF TabInv

\* The newest request is the only current one.
LEMMA NewestOnly ==
  ASSUME NEW ls \in SUBSET TableRequests, NEW r, NEW f, NEW awaited
  PROVE  LET new == Superseded(ls) \union {TableRequest(r, f, awaited)} IN
         /\ \A l \in new : l.current => l.filter = f /\ l.pages = <<>>
         /\ \A l, m \in new : l.current /\ m.current => l = m
         /\ \E l \in new : l.current
<1>1. \A l \in Superseded(ls) : ~l.current
  BY SupersededTyped
<1>2. /\ TableRequest(r, f, awaited).current /\ TableRequest(r, f, awaited).filter = f
      /\ TableRequest(r, f, awaited).pages = <<>>
  BY DEF TableRequest
<1>3. QED
  BY <1>1, <1>2

LEMMA TabReset ==
  ASSUME PageInv, TabInv, NEW r \in RunIds \union {None}, ResetItems(r), UNCHANGED timers
  PROVE  TabInv'
<1>1. loads \in SUBSET TableRequests /\ timers' \in Nat
  BY DEF PageInv, PageTyped, TabInv
<1>2. filter' = "all"
  BY DEF ResetItems
<1>3. CASE r = None
  <2>1. loads' = Superseded(loads)
    BY <1>3 DEF ResetItems
  <2>2. \A l \in Superseded(loads) : ~l.current
    BY <1>1, SupersededTyped
  <2>3. QED
    BY <1>1, <1>2, <2>1, <2>2, TabAsked
<1>4. CASE r # None
  <2> DEFINE new == Superseded(loads) \union {TableRequest(r, "all", TRUE)}
  <2>1. loads' = new
    BY <1>4 DEF ResetItems
  <2>2. /\ \A l \in new : l.current => l.filter = "all" /\ l.pages = <<>>
        /\ \A l, m \in new : l.current /\ m.current => l = m
    BY <1>1, NewestOnly
  <2> HIDE DEF new
  <2>3. QED
    BY <1>1, <1>2, <2>1, <2>2, TabAsked
<1>5. QED
  BY <1>3, <1>4

LEMMA TabAgain ==
  ASSUME PageInv, TabInv, (\E f \in {"all", "needs"} : SelectFilter(f)) \/ Reload
  PROVE  TabInv'
<1>1. /\ timers' \in Nat /\ base' = base /\ loads \in SUBSET TableRequests
      /\ base = None => panel = "hidden" /\ loads' = loads /\ panel' = panel
      /\ base # None => \E r, f, awaited :
             f = filter' /\ loads' = Superseded(loads) \union {TableRequest(r, f, awaited)}
  <2> DEFINE Asked == \E r, f, awaited :
             f = filter' /\ loads' = Superseded(loads) \union {TableRequest(r, f, awaited)}
  <2>1. timers' \in Nat /\ base' = base /\ loads \in SUBSET TableRequests
    <3>1. timers \in Nat /\ loads \in SUBSET TableRequests
      BY DEF PageInv, PageTyped, TabInv
    <3>2. base' = base /\ (timers' = timers \/ (timers > 0 /\ timers' = timers - 1))
      <4>1. ASSUME NEW f, SelectFilter(f) PROVE base' = base /\ timers' = timers
        BY <4>1 DEF SelectFilter
      <4>2. CASE Reload
        BY <4>2 DEF Reload
      <4>3. QED
        BY <4>1, <4>2
    <3>3. QED
      BY <3>1, <3>2
  <2>2. base = None => panel = "hidden"
    BY DEF PageInv, RunOfPage
  <2>3. ASSUME LoadItems(FALSE, FALSE) \/ LoadItems(TRUE, FALSE)
        PROVE  (base = None => loads' = loads /\ panel' = panel) /\ (base # None => Asked)
    BY <2>1, <2>3 DEF LoadItems
  <2>4. LoadItems(FALSE, FALSE) \/ LoadItems(TRUE, FALSE)
    BY DEF SelectFilter, Reload
  <2>5. QED
    BY <2>1, <2>2, <2>3, <2>4
<1>2. CASE base = None
  <2>1. \A l \in loads : ~l.current
    BY <1>2 DEF PageInv, RunOfPage
  <2>2. QED
    BY <1>1, <1>2, <2>1, TabAsked
<1>3. CASE base # None
  <2>1. PICK r, f, awaited :
           f = filter' /\ loads' = Superseded(loads) \union {TableRequest(r, f, awaited)}
    BY <1>1, <1>3
  <2> DEFINE new == Superseded(loads) \union {TableRequest(r, f, awaited)}
  <2>2. /\ \A l \in new : l.current => l.filter = f /\ l.pages = <<>>
        /\ \A l, m \in new : l.current /\ m.current => l = m
        /\ \E l \in new : l.current
    BY <1>1, NewestOnly
  <2> HIDE DEF new
  <2>3. QED
    BY <1>1, <2>1, <2>2, TabAsked DEF new
<1>4. QED
  BY <1>2, <1>3

\* The backend answers for one request.
LEMMA TabReplaced ==
  ASSUME PageInv, TabInv, UNCHANGED <<base, filter, panel, table, counter, timers, saves, missed,
                                      decided>>,
         NEW l \in loads, NEW new, Replace(l, new),
         new.current = l.current, new.filter = l.filter,
         Undisturbed /\ l.current /\ l.filter = "needs" => Faithful(new)
  PROVE  TabInv'
<1>1. loads' = (loads \ {l}) \union {new}
  BY DEF Replace
<1>2. CurrentLoad'
  BY <1>1 DEF TabInv, CurrentLoad
<1>3. Undisturbed' = Undisturbed /\ NothingCurrent' = NothingCurrent
  BY <1>1 DEF Undisturbed, NothingCurrent
<1>4. LoadsTrue'
  <2> SUFFICES ASSUME Undisturbed, NEW m \in loads', m.current, m.filter = "needs",
                      m.pages # <<>>
               PROVE  Faithful(m)'
    BY <1>3 DEF LoadsTrue
  <2>1. Faithful(m)
    BY <1>1 DEF TabInv, LoadsTrue
  <2>2. QED
    BY <2>1, SameFaith
<1>5. TableTrue'
  <2> SUFFICES ASSUME Undisturbed, filter = "needs", panel = "ready", NothingCurrent
               PROVE  Listed'
    BY <1>3 DEF TableTrue
  <2>1. Listed
    BY DEF TabInv, TableTrue
  <2>2. QED
    BY <2>1, SameAnswers DEF Listed
<1>6. QED
  BY <1>2, <1>4, <1>5 DEF TabInv

LEMMA TabServed ==
  ASSUME PageInv, TabInv, NEW l \in loads,
         ServeFirst(l) \/ \E n \in DOMAIN l.pages : ServePage(l, n)
  PROVE  TabInv'
<1>1. UNCHANGED <<base, filter, panel, table, counter, timers, saves, missed, decided>>
  BY DEF ServeFirst, ServePage, serverVars
<1>2. l \in TableRequests /\ (l.current => l.run = base /\ base \in RunIds)
  BY DEF PageInv, PageTyped, RunOfPage
<1>3. CASE ServeFirst(l)
  <2> DEFINE total == IF l.filter = "needs" /\ Undecided(l.run) # {} THEN TotalPages(l.run) ELSE 1
             got == [n \in 1 .. total |-> IF n = 1 THEN Answer(l.run, l.filter, 1) ELSE None]
             new == [l EXCEPT !.counter = Cardinality(Undecided(l.run)), !.pages = got]
  <2>1. Replace(l, new)
    BY <1>3 DEF ServeFirst
  <2>2. l.current /\ l.filter = "needs" => total = PageCount(base)
    BY <1>2 DEF PageCount
  <2> HIDE DEF total
  <2>3. /\ DOMAIN got = 1 .. total
        /\ l.current /\ l.filter = "needs" =>
              \A n \in DOMAIN got : got[n] \in {None, Answer(base, "needs", n)}
    BY <1>2
  <2> HIDE DEF got
  <2>4. /\ new.current = l.current /\ new.filter = l.filter
        /\ new.counter = Cardinality(Undecided(l.run)) /\ new.pages = got
    BY <1>2 DEF TableRequests
  <2> HIDE DEF new
  <2>5. l.current /\ l.filter = "needs" => Faithful(new)
    BY <1>2, <2>2, <2>3, <2>4 DEF Faithful
  <2>6. QED
    BY <1>1, <2>1, <2>4, <2>5, TabReplaced
<1>4. CASE \E n \in DOMAIN l.pages : ServePage(l, n)
  <2>1. PICK n \in DOMAIN l.pages : ServePage(l, n)
    BY <1>4
  <2> DEFINE got == [l.pages EXCEPT ![n] = Answer(l.run, l.filter, n)]
             new == [l EXCEPT !.pages[n] = Answer(l.run, l.filter, n)]
  <2>2. Replace(l, new)
    BY <2>1 DEF ServePage
  <2>3. /\ new.current = l.current /\ new.filter = l.filter
        /\ new.counter = l.counter /\ new.pages = got
    BY <1>2 DEF TableRequests
  <2>4. Undisturbed /\ l.current /\ l.filter = "needs" => Faithful(l)
    BY DEF TabInv, LoadsTrue
  <2>5. DOMAIN got = DOMAIN l.pages /\ got[n] = Answer(l.run, l.filter, n)
        /\ \A k \in DOMAIN l.pages : k # n => got[k] = l.pages[k]
    OBVIOUS
  <2> HIDE DEF new, got
  <2>6. Undisturbed /\ l.current /\ l.filter = "needs" => Faithful(new)
    BY <1>2, <2>3, <2>4, <2>5 DEF Faithful
  <2>7. QED
    BY <1>1, <2>2, <2>3, <2>6, TabReplaced
<1>5. QED
  BY <1>3, <1>4

\* The rows of a request that was answered faithfully are those to decide.
LEMMA RowsComplete ==
  ASSUME PageTyped, base \in RunIds, NEW l \in loads, Served(l), Faithful(l)
  PROVE  {i \in DOMAIN RowsOf(l) : ~RowsOf(l)[i].hidden} = Undecided(base)
<1> DEFINE D == UNION {DOMAIN l.pages[n] : n \in DOMAIN l.pages}
<1>1. DOMAIN RowsOf(l) = D /\ \A i \in D : ~RowsOf(l)[i].hidden
  BY DEF RowsOf
<1>2. DOMAIN l.pages = 1 .. PageCount(base)
      /\ \A n \in DOMAIN l.pages : l.pages[n] = Answer(base, "needs", n)
  BY DEF Served, Faithful
<1>3. \A n : DOMAIN Answer(base, "needs", n) = FetchPage(base, n)
  BY DEF Answer
<1>4. UNION {FetchPage(base, n) : n \in 1 .. PageCount(base)} = Undecided(base)
  BY PagesHoldAll
<1>5. D = UNION {FetchPage(base, n) : n \in 1 .. PageCount(base)}
  BY <1>2, <1>3
<1> HIDE DEF D
<1>6. QED
  BY <1>1, <1>4, <1>5

LEMMA TabFilled ==
  ASSUME PageInv, TabInv, NEW l \in loads, LoadAnswered(l)
  PROVE  TabInv'
<1>1. /\ UNCHANGED <<base, timers, missed, decided>> /\ timers \in Nat
      /\ loads \in SUBSET TableRequests
  BY DEF LoadAnswered, serverVars, TabInv, PageInv, PageTyped
<1>2. CASE ~l.current /\ loads' = loads \ {l} /\ UNCHANGED <<filter, panel, table, counter, saves>>
  <2>1. Undisturbed' = Undisturbed /\ NothingCurrent' = NothingCurrent
    BY <1>1, <1>2 DEF Undisturbed, NothingCurrent
  <2>2. CurrentLoad'
    BY <1>2 DEF TabInv, CurrentLoad
  <2>3. LoadsTrue'
    <3> SUFFICES ASSUME Undisturbed, NEW m \in loads', m.current, m.filter = "needs",
                        m.pages # <<>>
                 PROVE  Faithful(m)'
      BY <2>1 DEF LoadsTrue
    <3>1. Faithful(m)
      BY <1>2 DEF TabInv, LoadsTrue
    <3>2. QED
      BY <1>1, <3>1, SameFaith
  <2>4. TableTrue'
    <3> SUFFICES ASSUME Undisturbed, filter = "needs", panel = "ready", NothingCurrent
                 PROVE  Listed'
      BY <1>2, <2>1 DEF TableTrue
    <3>1. Listed
      BY DEF TabInv, TableTrue
    <3>2. QED
      BY <1>1, <1>2, <3>1, SameAnswers DEF Listed
  <2>5. QED
    BY <1>1, <2>2, <2>3, <2>4 DEF TabInv
<1>3. CASE /\ l.current /\ filter' = Default(l)
           /\ loads' = (loads \ {l}) \union
                {TableRequest(r, Default(l), l.awaited) : r \in {base} \ {None}}
           /\ panel' = (IF base = None THEN panel ELSE "loading")
  <2>1. base # None
    BY <1>3 DEF PageInv, RunOfPage
  <2> DEFINE new == (loads \ {l}) \union {TableRequest(base, Default(l), l.awaited)}
  <2>2. loads' = new /\ panel' = "loading"
    BY <1>3, <2>1
  <2>3. \A m \in loads \ {l} : ~m.current
    BY <1>3 DEF TabInv, CurrentLoad
  <2>4. /\ TableRequest(base, Default(l), l.awaited).filter = filter'
        /\ TableRequest(base, Default(l), l.awaited).pages = <<>>
    BY <1>3 DEF TableRequest
  <2>5. /\ \A m \in new : m.current => m.filter = filter' /\ m.pages = <<>>
        /\ \A m, k \in new : m.current /\ k.current => m = k
    BY <2>3, <2>4
  <2> HIDE DEF new
  <2>6. QED
    BY <1>1, <2>2, <2>5, TabAsked
<1>4. CASE /\ Served(l) /\ l.current /\ counter' = l.counter /\ loads' = loads \ {l}
           /\ table' = [run |-> l.run, rows |-> RowsOf(l)] /\ panel' = "ready"
           /\ saves' = Detached(saves) /\ UNCHANGED filter
  <2>1. \A m \in loads' : ~m.current
    BY <1>4 DEF TabInv, CurrentLoad
  <2>2. CurrentLoad' /\ LoadsTrue'
    BY <2>1 DEF CurrentLoad, LoadsTrue
  <2>3. TableTrue'
    <3> SUFFICES ASSUME Undisturbed', filter = "needs"
                 PROVE  Listed'
      BY <1>4 DEF TableTrue
    <3>1. Undisturbed
      <4>1. /\ DOMAIN saves' = DOMAIN saves
            /\ \A k \in DOMAIN saves : /\ saves'[k].run = saves[k].run
                                       /\ saves'[k].stage = saves[k].stage
        BY <1>4, DetachedTyped DEF PageInv, PageTyped
      <4>2. QED
        BY <1>1, <4>1 DEF Undisturbed
    <3>2. l.filter = "needs" /\ base \in RunIds
      BY <1>4 DEF TabInv, CurrentLoad, PageInv, PageTyped, RunOfPage
    <3>3. l.pages # <<>>
      BY <1>4 DEF Served
    <3>4. Faithful(l)
      BY <1>4, <3>1, <3>2, <3>3 DEF TabInv, LoadsTrue
    <3>5. {i \in DOMAIN RowsOf(l) : ~RowsOf(l)[i].hidden} = Undecided(base)
      BY <1>4, <3>2, <3>4, RowsComplete DEF PageInv
    <3>6. table'.rows = RowsOf(l) /\ counter' = Cardinality(Undecided(base))
      BY <1>4, <3>4 DEF Faithful
    <3>7. QED
      BY <1>1, <3>5, <3>6, SameAnswers DEF Listed
  <2>4. QED
    BY <1>1, <2>2, <2>3 DEF TabInv
<1>5. QED
  BY <1>2, <1>3, <1>4 DEF LoadAnswered

LEMMA TabFails ==
  ASSUME PageInv, TabInv, NEW l \in loads, LoadFails(l)
  PROVE  TabInv'
<1>1. /\ UNCHANGED <<base, filter, table, counter, timers, saves, missed, decided>>
      /\ loads' = loads \ {l} /\ panel' = IF l.current THEN "error" ELSE panel
  BY DEF LoadFails
<1>2. CurrentLoad' /\ timers' \in Nat /\ Undisturbed' = Undisturbed
  BY <1>1 DEF TabInv, CurrentLoad, Undisturbed
<1>3. LoadsTrue'
  <2> SUFFICES ASSUME Undisturbed, NEW m \in loads', m.current, m.filter = "needs",
                      m.pages # <<>>
               PROVE  Faithful(m)'
    BY <1>2 DEF LoadsTrue
  <2>1. Faithful(m)
    BY <1>1 DEF TabInv, LoadsTrue
  <2>2. QED
    BY <1>1, <2>1, SameFaith
<1>4. TableTrue'
  <2> SUFFICES ASSUME Undisturbed, filter = "needs", panel' = "ready", NothingCurrent'
               PROVE  Listed'
    BY <1>1, <1>2 DEF TableTrue
  <2>1. panel = "ready" /\ NothingCurrent
    BY <1>1 DEF NothingCurrent
  <2>2. Listed
    BY <2>1 DEF TabInv, TableTrue
  <2>3. QED
    BY <1>1, <2>2, SameAnswers DEF Listed
<1>5. QED
  BY <1>2, <1>3, <1>4 DEF TabInv

\* A decision is taken, stored, answered or lost.
LEMMA TabDecided ==
  ASSUME PageInv, TabInv, NEW i, NEW choice, Confirm(i, choice)
  PROVE  TabInv'
<1> DEFINE new == [run |-> base, seen |-> table.run, row |-> i, choice |-> choice,
                   stage |-> "sent", live |-> TRUE, counter |-> None]
<1>1. /\ UNCHANGED <<base, filter, panel, loads, table, counter, decided, timers, missed>>
      /\ saves' = Append(saves, new) /\ timers \in Nat /\ saves \in Seq(SaveRequests)
  BY DEF Confirm, tableVars, serverVars, TabInv, PageInv, PageTyped
<1> HIDE DEF new
<1>2. DOMAIN saves \subseteq DOMAIN saves' /\ \A k \in DOMAIN saves : saves'[k] = saves[k]
  BY <1>1, AppendProperties, LenProperties
<1>3. Undisturbed' => Undisturbed
  BY <1>1, <1>2 DEF Undisturbed
<1>4. QED
  BY <1>1, <1>3, TabKept

LEMMA TabSaved ==
  ASSUME PageInv, TabInv, NEW k \in DOMAIN saves, Store(k) \/ SaveAnswered(k) \/ SaveFails(k)
  PROVE  TabInv'
<1> DEFINE s == saves[k]
<1>1. /\ s.run \in RunIds /\ s.row \in Rows /\ s.choice # None /\ timers \in Nat
      /\ \A j \in DOMAIN saves : saves[j] \in SaveRequests
  <2>1. \A j \in DOMAIN saves : saves[j] \in SaveRequests
    BY ElementOfSeq, LenProperties DEF PageInv, PageTyped
  <2>2. QED
    BY <2>1, PageAssumption DEF SaveRequests, TabInv
<1>2. UNCHANGED <<base, filter, panel, loads>>
  BY DEF Store, SaveAnswered, SaveFails, tableVars
<1>3. CASE Store(k)
  <2>1. /\ UNCHANGED <<table, counter, timers, missed>>
        /\ decided' = [decided EXCEPT ![s.run][s.row] = s.choice]
        /\ saves' = [saves EXCEPT ![k].stage = "stored",
                                  ![k].counter = Cardinality(Undecided(s.run) \ {s.row})]
        /\ s.stage = "sent"
    BY <1>3 DEF Store, tableVars
  <2>2. /\ DOMAIN saves' = DOMAIN saves /\ saves'[k].stage = "stored"
        /\ saves'[k].run = s.run /\ \A j \in DOMAIN saves : j # k => saves'[j] = saves[j]
    BY <1>1, <2>1 DEF SaveRequests
  <2>3. Undisturbed' => Undisturbed /\ s.run # base
    BY <1>2, <2>1, <2>2 DEF Undisturbed
  <2>4. base # None /\ s.run # base => decided'[base] = decided[base]
    <3>1. base # None => base \in RunIds
      BY DEF PageInv, PageTyped
    <3>2. decided \in [RunIds -> [Rows -> DecisionOrNone]]
      BY DEF PageInv, PageTyped
    <3>3. QED
      BY <2>1, <3>1, <3>2
  <2>5. QED
    BY <1>1, <1>2, <2>1, <2>3, <2>4, TabKept
<1>4. CASE SaveAnswered(k)
  <2>1. timers' = IF Matches(s.choice, filter) THEN timers ELSE timers + 1
    BY <1>4 DEF SaveAnswered
  <2>2. filter = "needs" => timers' > 0
    BY <1>1, <2>1 DEF Matches
  <2>3. timers' \in Nat
    BY <1>1, <2>1
  <2>4. QED
    BY <1>2, <2>2, <2>3, TabKept DEF Undisturbed
<1>5. CASE SaveFails(k)
  <2>1. /\ UNCHANGED <<table, counter, timers, decided>>
        /\ saves' = [saves EXCEPT ![k].stage = "over"]
        /\ missed' = IF s.stage = "stored" THEN missed \union {s.run} ELSE missed
    BY <1>5 DEF SaveFails, tableVars
  <2>2. DOMAIN saves' = DOMAIN saves /\ \A j \in DOMAIN saves : j # k => saves'[j] = saves[j]
    BY <2>1
  <2>3. Undisturbed' => Undisturbed
    BY <1>2, <2>1, <2>2 DEF Undisturbed
  <2>4. QED
    BY <1>1, <1>2, <2>1, <2>3, TabKept
<1>6. QED
  BY <1>3, <1>4, <1>5

LEMMA TabUnseen ==
  ASSUME PageInv, TabInv,
         UNCHANGED <<base, filter, panel, loads, table, counter, timers, saves, missed, decided>>
  PROVE  TabInv'
<1>1. Undisturbed' = Undisturbed /\ timers' \in Nat
  BY DEF Undisturbed, TabInv
<1>2. QED
  BY <1>1, TabKept

LEMMA TabStep ==
  ASSUME PageInv, TabInv, [PageNext]_pageVars
  PROVE  TabInv'
<1>1. ASSUME NEW ok \in BOOLEAN, SelectFile(ok) PROVE TabInv'
  BY <1>1, TabReset DEF SelectFile
<1>2. CASE SubmitRun
  BY <1>2, TabReset DEF SubmitRun
<1>3. CASE RunShown
  <2>1. ResetItems(runId) /\ UNCHANGED timers /\ runId \in RunIds \union {None}
    BY <1>3 DEF RunShown, PageInv, PageTyped
  <2>2. QED
    BY <2>1, TabReset
<1>4. CASE RunAnswered \/ RunFails
  BY <1>4, TabUnseen DEF RunAnswered, RunFails, tableVars, serverVars
<1>5. CASE (\E f \in {"all", "needs"} : SelectFilter(f)) \/ Reload
  BY <1>5, TabAgain
<1>6. CASE \E l \in loads : ServeFirst(l) \/ \E n \in DOMAIN l.pages : ServePage(l, n)
  BY <1>6, TabServed
<1>7. CASE \E l \in loads : LoadAnswered(l) \/ LoadFails(l)
  BY <1>7, TabFilled, TabFails
<1>8. CASE \E i \in Rows, choice \in Decisions : Confirm(i, choice)
  BY <1>8, TabDecided
<1>9. CASE \E k \in DOMAIN saves : Store(k) \/ SaveAnswered(k) \/ SaveFails(k)
  BY <1>9, TabSaved
<1>10. CASE \/ \E k \in DOMAIN refreshes : ServeCard(k) \/ CardAnswered(k) \/ CardFails(k)
            \/ Simulate
            \/ \E k \in DOMAIN simulations :
                   ServeSimulation(k) \/ SimulationAnswered(k) \/ SimulationFails(k)
  BY <1>10, TabUnseen DEF ServeCard, CardAnswered, CardFails, Simulate, ServeSimulation,
     SimulationAnswered, SimulationFails, runVars, tableVars, serverVars
<1>11. CASE UNCHANGED pageVars
  BY <1>11, TabUnseen DEF pageVars
<1>12. QED
  BY <1>1, <1>2, <1>3, <1>4, <1>5, <1>6, <1>7, <1>8, <1>9, <1>10, <1>11 DEF PageNext

\* The tab of rows to decide lists them all and nothing else whenever it comes to rest,
\* for any number of rows, of rows in an answer, of requests, decisions and failures:
\* loadItems, fetchAllItems, onSaved and the reload it schedules.
THEOREM TabIsTrue == PageSpec => []NeedsTabTrue
<1>1. PageInit => TabInv
  BY DEF PageInit, TabInv, CurrentLoad, LoadsTrue, TableTrue
<1>2. PageInv /\ TabInv => NeedsTabTrue
  <2> SUFFICES ASSUME TabInv, filter = "needs", panel = "ready", AtRest, base \notin missed
               PROVE  Listed
    BY DEF NeedsTabTrue, Listed
  <2>1. Undisturbed /\ NothingCurrent
    BY DEF AtRest, Undisturbed, NothingCurrent
  <2>2. QED
    BY <2>1 DEF TabInv, TableTrue
<1>3. QED
  BY <1>1, <1>2, PageInitially, PageStep, TabStep, PTL DEF PageSpec
=============================================================================
