----------------------------- MODULE BusinessKpi_proofs -----------------------------
(***************************************************************************)
(* Proofs about the Business KPI service.  KpiShifts: for any number of    *)
(* requests, shifts, workbooks and failures, the audit log shows what      *)
(* became of each shift, and an import brings all the rows of its workbook *)
(* or none.  SellerTasks: for any number of requests, tasks and proposals, *)
(* a seller is assigned a library task once.  KpiAlerts: for any alerts,   *)
(* figures and failures, the owner is told of every change of an alert,    *)
(* and told once, unless a message was lost.                               *)
(***************************************************************************)
EXTENDS KpiShifts, SellerTasks, KpiAlerts, SequenceTheorems, TLAPS

-----------------------------------------------------------------------------
(* KpiShifts.                                                               *)

\* Every imported shift is of a run there is.
OfRuns == \A i \in ShiftIds : shifts[i] # None /\ shifts[i].run # None => runs[shifts[i].run] # None

\* What a request will write: to a shift there is, of which it keeps where it came from, or
\* to a run there is.
Sound(op) ==
    /\ op.kind \in {"update", "archive"} => shifts[op.id] # None
    /\ op.kind = "update" =>
          op.patch.run = shifts[op.id].run /\ op.patch.origin = shifts[op.id].origin
    /\ op.kind \in {"preview", "importing", "import", "failed"} => runs[op.run] # None

Inductive ==
    /\ KpiTypeOK
    /\ AuditShowsShift
    /\ ImportsWhole
    /\ OfRuns
    /\ \A q \in Requests : request[q] # None => Sound(request[q])

-----------------------------------------------------------------------------
\* What a request can be about to do, by kind.
LEMMA UnderwayKinds ==
  ASSUME NEW op \in Underway
  PROVE  /\ op.kind \in {"update", "archive", "preview", "importing", "import", "failed"}
         /\ op.kind = "update" => op.id \in ShiftIds /\ op.patch \in Rows
         /\ op.kind = "archive" => op.id \in ShiftIds
         /\ op.kind \in {"preview", "importing", "import", "failed"} => op.run \in RunIds
BY DEF Underway

LEMMA InitialState == KpiInit => Inductive
<1> SUFFICES ASSUME KpiInit PROVE Inductive
  OBVIOUS
<1>1. KpiTypeOK
  BY KpiAssumption DEF KpiInit, KpiTypeOK
<1>2. ImportsWhole
  BY DEF KpiInit, ImportsWhole
<1>3. AuditShowsShift /\ OfRuns
  BY DEF KpiInit, AuditShowsShift, OfRuns
<1>4. QED
  BY <1>1, <1>2, <1>3 DEF Inductive, KpiInit

LEMMA FaultsTyped ==
  ASSUME Inductive, KpiFault \/ UNCHANGED kpiFaults
  PROVE  kpiFaults' \in 0 .. MaxFaults
BY KpiAssumption DEF Inductive, KpiTypeOK, KpiFault

-----------------------------------------------------------------------------
(* What the shifts have to be after a step, and what the runs.              *)

\* Shifts and audit change alike, and every shift keeps where it came from.
LEMMA ShiftsKept ==
  ASSUME Inductive,
         shifts' \in [ShiftIds -> Rows \union {None}], shown' = shifts',
         \A i \in ShiftIds :
            \/ shifts[i] # None /\ shifts'[i] # None
               /\ shifts'[i].run = shifts[i].run /\ shifts'[i].origin = shifts[i].origin
            \/ shifts[i] = None /\ (shifts'[i] # None => shifts'[i].run = None),
         NEW r \in RunIds
  PROVE  Came(r)' = Came(r)
BY KpiAssumption DEF Came

\* A run changes its status or its outcome, and COMPLETED only when its rows have come.
LEMMA RunsKept ==
  ASSUME Inductive, UNCHANGED <<shifts, shown>>, NEW r \in RunIds, runs[r] # None,
         NEW job \in Runs, job.book = runs[r].book,
         job.status = "COMPLETED" => runs[r].status = "COMPLETED",
         runs' = [runs EXCEPT ![r] = job]
  PROVE  /\ runs' \in [RunIds -> Runs \union {None}]
         /\ ImportsWhole' /\ AuditShowsShift' /\ OfRuns'
         /\ \A s \in RunIds : (runs'[s] = None <=> runs[s] = None)
<1>1. runs' \in [RunIds -> Runs \union {None}]
  BY DEF Inductive, KpiTypeOK
<1>2. \A s \in RunIds : (runs'[s] = None <=> runs[s] = None)
  BY KpiAssumption DEF Inductive, KpiTypeOK
<1>3. ASSUME NEW s \in RunIds, runs'[s] # None
      PROVE  /\ Came(s)' \in {{}, runs'[s].book.slots}
             /\ runs'[s].status = "COMPLETED" => Came(s)' = runs'[s].book.slots
  <2>1. Came(s)' = Came(s) /\ runs[s] # None
    BY <1>2, <1>3 DEF Came
  <2>2. Came(s) \in {{}, runs[s].book.slots}
        /\ (runs[s].status = "COMPLETED" => Came(s) = runs[s].book.slots)
    BY <2>1 DEF Inductive, ImportsWhole
  <2>3. runs'[s].book = runs[s].book
        /\ (runs'[s].status = "COMPLETED" => runs[s].status = "COMPLETED")
    BY DEF Inductive, KpiTypeOK
  <2>4. QED
    BY <2>1, <2>2, <2>3
<1>4. ImportsWhole'
  BY <1>3 DEF ImportsWhole
<1>5. AuditShowsShift' /\ OfRuns'
  <2>1. ASSUME NEW i \in ShiftIds, shifts[i] # None, shifts[i].run # None
        PROVE  runs'[shifts[i].run] # None
    <3>1. shifts[i].run \in RunIds
      BY <2>1 DEF Inductive, KpiTypeOK, Rows
    <3>2. QED
      BY <1>2, <2>1, <3>1 DEF Inductive, OfRuns
  <2>2. QED
    BY <2>1 DEF Inductive, AuditShowsShift, OfRuns
<1>6. QED
  BY <1>1, <1>2, <1>4, <1>5

\* Nothing makes an operation unsound: no shift goes, and none changes where it came from.
LEMMA SoundKept ==
  ASSUME NEW op \in Underway, Sound(op),
         \A i \in ShiftIds : shifts[i] # None =>
            /\ shifts'[i] # None
            /\ shifts'[i].run = shifts[i].run /\ shifts'[i].origin = shifts[i].origin,
         \A r \in RunIds : runs[r] # None => runs'[r] # None
  PROVE  Sound(op)'
BY UnderwayKinds DEF Sound

\* The other requests stay as sound as they were.
LEMMA RequestsSound ==
  ASSUME Inductive, NEW q \in Requests, NEW op \in Underway \union {None}, Then(q, op),
         op # None => Sound(op)',
         \A i \in ShiftIds : shifts[i] # None =>
            /\ shifts'[i] # None
            /\ shifts'[i].run = shifts[i].run /\ shifts'[i].origin = shifts[i].origin,
         \A r \in RunIds : runs[r] # None => runs'[r] # None
  PROVE  /\ request' \in [Requests -> Underway \union {None}]
         /\ \A p \in Requests : (request[p] # None => Sound(request[p]))'
<1>1. request' = [request EXCEPT ![q] = op]
      /\ request \in [Requests -> Underway \union {None}]
  BY DEF Inductive, KpiTypeOK, Then
<1>2. ASSUME NEW p \in Requests, p # q, request'[p] # None PROVE Sound(request[p])'
  <2>1. request'[p] = request[p] /\ request[p] \in Underway
    BY <1>1, <1>2
  <2>2. Sound(request[p])
    BY <1>2, <2>1 DEF Inductive
  <2>3. QED
    BY <2>1, <2>2, SoundKept DEF Sound
<1>3. ASSUME request'[q] # None PROVE Sound(request[q])'
  BY <1>1, <1>3 DEF Sound
<1>4. QED
  BY <1>1, <1>2, <1>3

-----------------------------------------------------------------------------
(* The steps, by what they change.                                          *)

\* A step that changes shifts only, and enters none that was imported.
LEMMA ShiftsStep ==
  ASSUME Inductive, NEW q \in Requests, NEW op \in Underway \union {None}, Then(q, op),
         op # None => Sound(op)', UNCHANGED runs, KpiFault \/ UNCHANGED kpiFaults,
         shifts' \in [ShiftIds -> Rows \union {None}], shown' = shifts',
         \A i \in ShiftIds :
            \/ shifts[i] # None /\ shifts'[i] # None
               /\ shifts'[i].run = shifts[i].run /\ shifts'[i].origin = shifts[i].origin
            \/ shifts[i] = None /\ (shifts'[i] # None => shifts'[i].run = None)
  PROVE  Inductive'
<1>1. \A r \in RunIds : Came(r)' = Came(r)
  BY ShiftsKept
<1>2. ImportsWhole'
  BY <1>1 DEF Inductive, ImportsWhole
<1>3. OfRuns'
  BY DEF Inductive, OfRuns
<1>4. /\ request' \in [Requests -> Underway \union {None}]
      /\ \A p \in Requests : (request[p] # None => Sound(request[p]))'
  BY RequestsSound
<1>5. KpiTypeOK' /\ AuditShowsShift'
  BY <1>4, FaultsTyped DEF Inductive, KpiTypeOK, AuditShowsShift
<1>6. QED
  BY <1>2, <1>3, <1>4, <1>5 DEF Inductive

\* A step that changes one run only.
LEMMA RunStep ==
  ASSUME Inductive, NEW q \in Requests, NEW op \in Underway \union {None}, Then(q, op),
         op # None => Sound(op)', UNCHANGED <<shifts, shown>>, KpiFault \/ UNCHANGED kpiFaults,
         NEW r \in RunIds, runs[r] # None,
         NEW job \in Runs, job.book = runs[r].book,
         job.status = "COMPLETED" => runs[r].status = "COMPLETED",
         runs' = [runs EXCEPT ![r] = job]
  PROVE  Inductive'
<1>1. /\ runs' \in [RunIds -> Runs \union {None}]
      /\ ImportsWhole' /\ AuditShowsShift' /\ OfRuns'
      /\ \A t \in RunIds : (runs'[t] = None <=> runs[t] = None)
  BY RunsKept
<1>2. /\ request' \in [Requests -> Underway \union {None}]
      /\ \A p \in Requests : (request[p] # None => Sound(request[p]))'
  BY <1>1, RequestsSound
<1>3. KpiTypeOK'
  BY <1>1, <1>2, FaultsTyped DEF Inductive, KpiTypeOK
<1>4. QED
  BY <1>1, <1>2, <1>3 DEF Inductive

\* A step that changes neither.
LEMMA RequestStep ==
  ASSUME Inductive, NEW q \in Requests, NEW op \in Underway \union {None}, Then(q, op),
         op # None => Sound(op), UNCHANGED <<shifts, shown, runs>>, KpiFault \/ UNCHANGED kpiFaults
  PROVE  Inductive'
<1>1. op # None => Sound(op)'
  BY DEF Sound
<1>2. shifts' \in [ShiftIds -> Rows \union {None}] /\ shown' = shifts'
  BY DEF Inductive, KpiTypeOK, AuditShowsShift
<1>3. QED
  BY <1>1, <1>2, ShiftsStep

-----------------------------------------------------------------------------
(* Shifts entered by hand.                                                  *)

LEMMA CreateStep ==
  ASSUME Inductive, NEW q \in Requests, NEW slot \in Slots, NEW value \in Values,
         CreateShift(q, slot, value)
  PROVE  Inductive'
<1> DEFINE Row == [slot |-> slot, value |-> value, archived |-> FALSE, run |-> None, origin |-> None]
<1>1. PICK i \in Fresh(1) : shifts' = [shifts EXCEPT ![i] = Row] /\ shown' = [shown EXCEPT ![i] = Row]
  BY DEF CreateShift
<1>2. i \in ShiftIds /\ shifts[i] = None /\ Row \in Rows /\ Row.run = None
  BY DEF Fresh, Rows
<1>3. shifts' \in [ShiftIds -> Rows \union {None}] /\ shown' = shifts'
  BY <1>1, <1>2 DEF Inductive, KpiTypeOK, AuditShowsShift
<1>4. \A j \in ShiftIds :
        \/ shifts[j] # None /\ shifts'[j] # None
           /\ shifts'[j].run = shifts[j].run /\ shifts'[j].origin = shifts[j].origin
        \/ shifts[j] = None /\ (shifts'[j] # None => shifts'[j].run = None)
  <2> HIDE DEF Row
  <2>1. QED
    BY <1>1, <1>2 DEF Inductive, KpiTypeOK
<1>5. Then(q, None)
  BY DEF CreateShift, Then, Inductive, KpiTypeOK
<1>6. QED
  BY <1>3, <1>4, <1>5, ShiftsStep DEF CreateShift

LEMMA ReadStep ==
  ASSUME Inductive, NEW q \in Requests, NEW i \in ShiftIds,
         \/ \E slot \in Slots, value \in Values : ReadForUpdate(q, i, slot, value)
         \/ ReadForArchive(q, i)
  PROVE  Inductive'
<1>1. shifts[i] # None /\ shifts[i] \in Rows
  BY DEF ReadForUpdate, ReadForArchive, Active, Inductive, KpiTypeOK
<1>2. CASE \E slot \in Slots, value \in Values : ReadForUpdate(q, i, slot, value)
  <2>1. PICK slot \in Slots, value \in Values : ReadForUpdate(q, i, slot, value)
    BY <1>2
  <2> DEFINE patch == [shifts[i] EXCEPT !.slot = slot, !.value = value]
             op == [kind |-> "update", id |-> i, patch |-> patch]
  <2>2. patch \in Rows /\ patch.run = shifts[i].run /\ patch.origin = shifts[i].origin
    BY <1>1 DEF Rows
  <2> HIDE DEF patch
  <2>3. op \in Underway /\ Sound(op)
    BY <1>1, <2>2 DEF Underway, Sound
  <2>4. Then(q, op)
    BY <2>1 DEF ReadForUpdate, patch
  <2> HIDE DEF op
  <2>5. QED
    BY <2>1, <2>3, <2>4, RequestStep DEF ReadForUpdate
<1>3. CASE ReadForArchive(q, i)
  <2> DEFINE op == [kind |-> "archive", id |-> i]
  <2>1. op \in Underway /\ Sound(op)
    BY <1>1 DEF Underway, Sound
  <2>2. Then(q, op)
    BY <1>3 DEF ReadForArchive
  <2> HIDE DEF op
  <2>3. QED
    BY <1>3, <2>1, <2>2, RequestStep DEF ReadForArchive
<1>4. QED
  BY <1>2, <1>3

\* One shift is replaced by a row that came from where it came from.
LEMMA WriteStep ==
  ASSUME Inductive, NEW q \in Requests, WriteUpdate(q) \/ WriteArchive(q)
  PROVE  Inductive'
<1> DEFINE op == request[q]
<1>1. op \in Underway /\ op.kind \in {"update", "archive"} /\ Sound(op)
  BY DEF WriteUpdate, WriteArchive, Inductive, KpiTypeOK
<1>2. op.id \in ShiftIds /\ shifts[op.id] # None /\ shifts[op.id] \in Rows
  BY <1>1, UnderwayKinds DEF Sound, Inductive, KpiTypeOK
<1>3. Then(q, None) /\ UNCHANGED runs
  BY DEF WriteUpdate, WriteArchive
<1>4. CASE UNCHANGED <<shifts, shown>> /\ (KpiFault \/ UNCHANGED kpiFaults)
  BY <1>3, <1>4, RequestStep
<1>5. ASSUME NEW entry \in Rows, entry.run = shifts[op.id].run, entry.origin = shifts[op.id].origin,
             shifts' = [shifts EXCEPT ![op.id] = entry], shown' = [shown EXCEPT ![op.id] = entry],
             UNCHANGED kpiFaults
      PROVE  Inductive'
  <2>1. shifts' \in [ShiftIds -> Rows \union {None}] /\ shown' = shifts'
    BY <1>2, <1>5 DEF Inductive, KpiTypeOK, AuditShowsShift
  <2>2. \A j \in ShiftIds :
          \/ shifts[j] # None /\ shifts'[j] # None
             /\ shifts'[j].run = shifts[j].run /\ shifts'[j].origin = shifts[j].origin
          \/ shifts[j] = None /\ (shifts'[j] # None => shifts'[j].run = None)
    BY <1>2, <1>5, KpiAssumption DEF Inductive, KpiTypeOK
  <2>3. QED
    BY <1>3, <1>5, <2>1, <2>2, ShiftsStep
<1>6. CASE WriteUpdate(q)
  <2>1. op.kind = "update"
    BY <1>6 DEF WriteUpdate
  <2>2. op.patch \in Rows /\ op.patch.run = shifts[op.id].run
        /\ op.patch.origin = shifts[op.id].origin
    BY <1>1, <2>1, UnderwayKinds DEF Sound
  <2>3. \/ /\ shifts' = [shifts EXCEPT ![op.id] = op.patch]
           /\ shown' = [shown EXCEPT ![op.id] = op.patch]
           /\ UNCHANGED kpiFaults
        \/ UNCHANGED <<shifts, shown>> /\ (KpiFault \/ UNCHANGED kpiFaults)
    BY <1>6 DEF WriteUpdate
  <2>4. QED
    BY <1>4, <1>5, <2>2, <2>3
<1>7. CASE WriteArchive(q)
  <2> DEFINE entry == [shifts[op.id] EXCEPT !.archived = TRUE]
  <2>1. entry \in Rows /\ entry.run = shifts[op.id].run /\ entry.origin = shifts[op.id].origin
    BY <1>2 DEF Rows
  <2>2. \/ /\ shifts' = [shifts EXCEPT ![op.id] = entry]
           /\ shown' = [shown EXCEPT ![op.id] = entry]
           /\ UNCHANGED kpiFaults
        \/ UNCHANGED <<shifts, shown>> /\ (KpiFault \/ UNCHANGED kpiFaults)
    BY <1>7 DEF WriteArchive
  <2> HIDE DEF entry
  <2>3. QED
    BY <1>4, <1>5, <2>1, <2>2
<1>8. QED
  BY <1>6, <1>7

-----------------------------------------------------------------------------
(* The import of a workbook.                                                *)

LEMMA DryRunStep ==
  ASSUME Inductive, NEW q \in Requests, NEW book \in Workbooks, DryRun(q, book)
  PROVE  Inductive'
<1> DEFINE job == [book |-> book, pass |-> FALSE, status |-> "VALIDATING"]
<1>1. PICK r \in RunIds :
        /\ runs[r] = None /\ runs' = [runs EXCEPT ![r] = job]
        /\ Then(q, [kind |-> "preview", run |-> r])
  BY DEF DryRun
<1> DEFINE op == [kind |-> "preview", run |-> r]
<1>2. UNCHANGED <<shifts, shown, kpiFaults>>
  BY DEF DryRun
<1>3. job \in Runs /\ job.status = "VALIDATING"
  BY DEF Runs
<1> HIDE DEF job
<1>4. /\ runs' \in [RunIds -> Runs \union {None}] /\ runs'[r] = job
      /\ \A s \in RunIds : runs[s] # None => runs'[s] = runs[s]
      /\ \A s \in RunIds \ {r} : runs'[s] = runs[s]
  BY <1>1, <1>3 DEF Inductive, KpiTypeOK
<1>5. op \in Underway /\ Sound(op)'
  BY <1>3, <1>4, KpiAssumption DEF Underway, Sound
<1>6. /\ request' \in [Requests -> Underway \union {None}]
      /\ \A p \in Requests : (request[p] # None => Sound(request[p]))'
  <2> HIDE DEF op
  <2>1. QED
    BY <1>1, <1>2, <1>4, <1>5, RequestsSound DEF op
<1>7. \A s \in RunIds : Came(s)' = Came(s)
  BY <1>2 DEF Came
<1>8. Came(r) = {}
  BY <1>1, KpiAssumption DEF Inductive, OfRuns, Came
<1>9. ImportsWhole'
  BY <1>3, <1>4, <1>7, <1>8 DEF Inductive, ImportsWhole
<1>10. OfRuns'
  <2>1. ASSUME NEW i \in ShiftIds, shifts[i] # None, shifts[i].run # None
        PROVE  runs'[shifts[i].run] # None
    <3>1. shifts[i].run \in RunIds
      BY <2>1 DEF Inductive, KpiTypeOK, Rows
    <3>2. QED
      BY <1>4, <2>1, <3>1 DEF Inductive, OfRuns
  <2>2. QED
    BY <1>2, <2>1 DEF OfRuns
<1>11. KpiTypeOK' /\ AuditShowsShift'
  BY <1>2, <1>4, <1>6 DEF Inductive, KpiTypeOK, AuditShowsShift
<1>12. QED
  BY <1>6, <1>9, <1>10, <1>11 DEF Inductive

\* The outcome of the dry run, the marks before and after the import: one run's status.
LEMMA MarkStep ==
  ASSUME Inductive, NEW q \in Requests, Preview(q) \/ MarkImporting(q) \/ MarkFailed(q)
  PROVE  Inductive'
<1> DEFINE op == request[q]
           r == op.run
<1>1. op \in Underway /\ op.kind \in {"preview", "importing", "failed"} /\ Sound(op)
  BY DEF Preview, MarkImporting, MarkFailed, Inductive, KpiTypeOK
<1>2. r \in RunIds /\ runs[r] # None /\ runs[r] \in Runs
  BY <1>1, UnderwayKinds DEF Sound, Inductive, KpiTypeOK
<1>3. UNCHANGED <<shifts, shown>> /\ (KpiFault \/ UNCHANGED kpiFaults)
  BY DEF Preview, MarkImporting, MarkFailed
<1>4. PICK next \in Underway \union {None} :
        Then(q, next) /\ (next # None => next.kind = "import" /\ next.run = r)
  <2>1. CASE op.kind = "importing"
    <3>1. [op EXCEPT !.kind = "import"] \in Underway
          /\ [op EXCEPT !.kind = "import"].kind = "import" /\ [op EXCEPT !.kind = "import"].run = r
      BY <1>1, <2>1 DEF Underway
    <3>2. QED
      BY <2>1, <3>1 DEF Preview, MarkImporting, MarkFailed
  <2>2. CASE op.kind # "importing"
    BY <2>2 DEF Preview, MarkImporting, MarkFailed
  <2>3. QED
    BY <2>1, <2>2
<1>5. CASE UNCHANGED runs
  <2>1. next # None => Sound(next)
    BY <1>2, <1>4 DEF Sound
  <2>2. QED
    BY <1>3, <1>4, <1>5, <2>1, RequestStep
<1>6. ASSUME NEW job \in Runs, job.book = runs[r].book,
             job.status = "COMPLETED" => runs[r].status = "COMPLETED",
             runs' = [runs EXCEPT ![r] = job]
      PROVE  Inductive'
  <2>1. runs'[r] # None
    BY <1>2, <1>6, KpiAssumption DEF Inductive, KpiTypeOK
  <2>2. next # None => Sound(next)'
    BY <1>4, <2>1 DEF Sound
  <2>3. QED
    BY <1>2, <1>3, <1>4, <1>6, <2>2, RunStep
<1>7. ASSUME NEW status \in {"IMPORTING", "FAILED"}, SetStatus(r, status)
      PROVE  Inductive'
  <2> DEFINE job == [runs[r] EXCEPT !.status = status]
  <2>1. job \in Runs /\ job.book = runs[r].book /\ job.status # "COMPLETED"
    BY <1>2, <1>7 DEF Runs
  <2>2. runs' = [runs EXCEPT ![r] = job]
    BY <1>7 DEF SetStatus
  <2> HIDE DEF job
  <2>3. QED
    BY <1>6, <2>1, <2>2
<1>8. ASSUME NEW pass \in BOOLEAN, runs' = [runs EXCEPT ![r].pass = pass]
      PROVE  Inductive'
  <2> DEFINE job == [runs[r] EXCEPT !.pass = pass]
  <2>1. job \in Runs /\ job.book = runs[r].book /\ job.status = runs[r].status
    BY <1>2, <1>8 DEF Runs
  <2>2. runs' = [runs EXCEPT ![r] = job]
    BY <1>8
  <2> HIDE DEF job
  <2>3. QED
    BY <1>6, <2>1, <2>2
<1>9. CASE Preview(q)
  <2>1. CASE \E clean \in BOOLEAN :
               runs' = [runs EXCEPT ![r].pass = clean /\ \A s \in runs[r].book.slots : Free(s, {})]
    <3>1. PICK clean \in BOOLEAN :
            runs' = [runs EXCEPT ![r].pass = clean /\ \A s \in runs[r].book.slots : Free(s, {})]
      BY <2>1
    <3> DEFINE pass == clean /\ \A s \in runs[r].book.slots : Free(s, {})
    <3>2. pass \in BOOLEAN
      OBVIOUS
    <3> HIDE DEF pass
    <3>3. runs' = [runs EXCEPT ![r].pass = pass]
      BY <3>1 DEF pass
    <3>4. QED
      BY <1>8, <3>2, <3>3
  <2>2. QED
    BY <1>5, <1>7, <1>9, <2>1 DEF Preview
<1>10. QED
  BY <1>5, <1>7, <1>9 DEF MarkImporting, MarkFailed

LEMMA CommitStep ==
  ASSUME Inductive, NEW q \in Requests, NEW r \in RunIds, Commit(q, r)
  PROVE  Inductive'
<1> DEFINE op == [kind |-> "importing", run |-> r]
<1>1. op \in Underway /\ Sound(op)
  BY DEF Commit, Underway, Sound
<1>2. Then(q, op)
  BY DEF Commit
<1> HIDE DEF op
<1>3. QED
  BY <1>1, <1>2, RequestStep DEF Commit

\* What an import enters: the rows of its workbook, all of them, and nothing else changes.
LEMMA InsertedRows ==
  ASSUME Inductive, NEW r \in RunIds, runs[r] # None, runs[r] \in Runs,
         Inserted(r, runs[r].book.slots)
  PROVE  /\ shifts' \in [ShiftIds -> Rows \union {None}] /\ shown' = shifts'
         /\ \A i \in ShiftIds : shifts[i] # None => shifts'[i] = shifts[i]
         /\ \A i \in ShiftIds : shifts[i] = None /\ shifts'[i] # None => shifts'[i].run = r
         /\ Came(r)' = runs[r].book.slots
         /\ \A s \in RunIds \ {r} : Came(s)' = Came(s)
<1> DEFINE slots == runs[r].book.slots
           ids == Fresh(Cardinality(slots))
           value == runs[r].book.value
<1>1. slots \subseteq Slots /\ value \in Values /\ ids \subseteq ShiftIds
      /\ \A i \in ids : shifts[i] = None
  BY DEF Runs, Workbooks, Fresh
<1> DEFINE Row(at, i) == [slot |-> at[i], value |-> value, archived |-> FALSE, run |-> r, origin |-> at[i]]
<1>2. PICK at \in [ids -> slots] :
        /\ {at[i] : i \in DOMAIN at} = slots
        /\ shifts' = [i \in ShiftIds |-> IF i \in DOMAIN at THEN Row(at, i) ELSE shifts[i]]
        /\ shown' = [i \in ShiftIds |-> IF i \in DOMAIN at THEN Row(at, i) ELSE shown[i]]
  BY DEF Inserted
<1> DEFINE entry == [i \in ids |-> Row(at, i)]
<1> HIDE DEF slots, ids, value
<1>3. DOMAIN at = ids /\ \A i \in ids : at[i] \in slots
  BY <1>2
<1>4. ASSUME NEW i \in ids
      PROVE  entry[i] \in Rows /\ entry[i] # None /\ entry[i].run = r /\ entry[i].origin = at[i]
  <2>1. at[i] \in Slots /\ entry[i] = Row(at, i)
    BY <1>1, <1>3
  <2>2. Row(at, i) \in Rows /\ Row(at, i).run = r /\ Row(at, i).origin = at[i]
    BY <1>1, <2>1 DEF Rows
  <2>3. QED
    BY <2>1, <2>2, KpiAssumption
<1>5. /\ shifts' = [i \in ShiftIds |-> IF i \in ids THEN entry[i] ELSE shifts[i]]
      /\ shown' = [i \in ShiftIds |-> IF i \in ids THEN entry[i] ELSE shown[i]]
  BY <1>2, <1>3
<1> HIDE DEF entry, Row
<1>6. shifts' \in [ShiftIds -> Rows \union {None}] /\ shown' = shifts'
  BY <1>4, <1>5 DEF Inductive, KpiTypeOK, AuditShowsShift
<1>7. /\ \A i \in ShiftIds : shifts[i] # None => shifts'[i] = shifts[i]
      /\ \A i \in ShiftIds : shifts[i] = None /\ shifts'[i] # None => i \in ids /\ shifts'[i].run = r
  BY <1>1, <1>4, <1>5
<1>8. Came(r)' = slots
  <2>1. ASSUME NEW s \in slots PROVE s \in Came(r)'
    <3>1. PICK i \in ids : at[i] = s
      BY <1>2, <1>3, <2>1
    <3>2. shifts'[i] = entry[i] /\ i \in ShiftIds
      BY <1>1, <1>5, <3>1
    <3>3. QED
      BY <1>4, <3>1, <3>2 DEF Came
  <2>2. ASSUME NEW s \in Came(r)' PROVE s \in slots
    <3>1. PICK i \in ShiftIds : shifts'[i] # None /\ shifts'[i].run = r /\ s = shifts'[i].origin
      BY <2>2 DEF Came
    <3>2. CASE i \in ids
      BY <1>3, <1>4, <1>5, <3>1, <3>2
    <3>3. CASE i \notin ids
      <4>1. s \in Came(r)
        BY <1>5, <3>1, <3>3 DEF Came
      <4>2. Came(r) \subseteq slots
        BY DEF Inductive, ImportsWhole, slots
      <4>3. QED
        BY <4>1, <4>2
    <3>4. QED
      BY <3>2, <3>3
  <2>3. QED
    BY <2>1, <2>2
<1>9. ASSUME NEW s \in RunIds \ {r} PROVE Came(s)' = Came(s)
  BY <1>7, <1>9 DEF Came
<1>10. QED
  BY <1>6, <1>7, <1>8, <1>9 DEF slots

LEMMA ImportStep ==
  ASSUME Inductive, NEW q \in Requests, Import(q)
  PROVE  Inductive'
<1> DEFINE op == request[q]
           failed == [op EXCEPT !.kind = "failed"]
<1>1. op \in Underway /\ op.kind = "import" /\ Sound(op)
  BY DEF Import, Inductive, KpiTypeOK
<1>2. PICK r \in RunIds : r = op.run /\ runs[r] # None /\ runs[r] \in Runs
  BY <1>1, UnderwayKinds DEF Sound, Inductive, KpiTypeOK
<1>3. failed \in Underway /\ failed.kind = "failed" /\ failed.run = r
  BY <1>1, <1>2 DEF Underway
<1>4. CASE /\ Inserted(r, runs[r].book.slots) /\ SetStatus(r, "COMPLETED")
           /\ Then(q, None) \/ Then(q, failed)
           /\ KpiFault \/ UNCHANGED kpiFaults
  <2> DEFINE job == [runs[r] EXCEPT !.status = "COMPLETED"]
  <2>1. job \in Runs /\ job.book = runs[r].book
    BY <1>2 DEF Runs
  <2>2. runs' = [runs EXCEPT ![r] = job]
    BY <1>4 DEF SetStatus
  <2> HIDE DEF job, failed
  <2>3. /\ runs' \in [RunIds -> Runs \union {None}] /\ runs'[r] = job /\ job # None
        /\ \A s \in RunIds \ {r} : runs'[s] = runs[s]
    BY <1>2, <2>1, <2>2, KpiAssumption DEF Inductive, KpiTypeOK
  <2>4. /\ shifts' \in [ShiftIds -> Rows \union {None}] /\ shown' = shifts'
        /\ \A i \in ShiftIds : shifts[i] # None => shifts'[i] = shifts[i]
        /\ \A i \in ShiftIds : shifts[i] = None /\ shifts'[i] # None => shifts'[i].run = r
        /\ Came(r)' = runs[r].book.slots
        /\ \A s \in RunIds \ {r} : Came(s)' = Came(s)
    BY <1>2, <1>4, InsertedRows
  <2>5. ImportsWhole'
    BY <2>1, <2>3, <2>4 DEF Inductive, ImportsWhole
  <2>6. OfRuns'
    <3>1. ASSUME NEW i \in ShiftIds, shifts'[i] # None, shifts'[i].run # None
          PROVE  runs'[shifts'[i].run] # None
      <4>1. CASE shifts[i] = None
        BY <2>3, <2>4, <3>1, <4>1
      <4>2. CASE shifts[i] # None
        <5>1. shifts'[i] = shifts[i] /\ runs[shifts[i].run] # None /\ shifts[i].run \in RunIds
          BY <2>4, <3>1, <4>2 DEF Inductive, OfRuns, KpiTypeOK, Rows
        <5>2. QED
          BY <2>3, <5>1
      <4>3. QED
        BY <4>1, <4>2
    <3>2. QED
      BY <3>1 DEF OfRuns
  <2>7. PICK next \in {None, failed} : Then(q, next)
    BY <1>4
  <2>8. next \in Underway \union {None} /\ (next # None => Sound(next)')
    BY <1>2, <1>3, <2>3, <2>7 DEF Sound
  <2>9. /\ request' \in [Requests -> Underway \union {None}]
        /\ \A p \in Requests : (request[p] # None => Sound(request[p]))'
    BY <2>3, <2>4, <2>7, <2>8, RequestsSound
  <2>10. KpiTypeOK' /\ AuditShowsShift'
    BY <1>4, <2>3, <2>4, <2>9, FaultsTyped DEF Inductive, KpiTypeOK, AuditShowsShift
  <2>11. QED
    BY <2>5, <2>6, <2>9, <2>10 DEF Inductive
<1>5. CASE Then(q, failed) /\ UNCHANGED <<shifts, shown, runs, kpiFaults>>
  <2>1. Sound(failed)
    BY <1>2, <1>3 DEF Sound
  <2> HIDE DEF failed
  <2>2. QED
    BY <1>3, <1>5, <2>1, RequestStep
<1>6. QED
  BY <1>2, <1>4, <1>5 DEF Import

\* The requests go with the process.
LEMMA DeathStep ==
  ASSUME Inductive, KpiDies
  PROVE  Inductive'
<1>1. KpiTypeOK'
  BY FaultsTyped DEF KpiDies, Inductive, KpiTypeOK
<1>2. \A r \in RunIds : Came(r)' = Came(r)
  BY DEF KpiDies, Came
<1>3. ImportsWhole' /\ AuditShowsShift' /\ OfRuns'
  BY <1>2 DEF KpiDies, Inductive, ImportsWhole, AuditShowsShift, OfRuns
<1>4. \A q \in Requests : request'[q] = None
  BY DEF KpiDies
<1>5. QED
  BY <1>1, <1>3, <1>4 DEF Inductive

LEMMA Step ==
  ASSUME Inductive, [KpiNext]_kpiVars
  PROVE  Inductive'
<1>1. CASE UNCHANGED kpiVars
  <2>1. UNCHANGED <<shifts, shown, runs, request, kpiFaults>>
    BY <1>1 DEF kpiVars
  <2>2. \A r \in RunIds : Came(r)' = Came(r)
    BY <2>1 DEF Came
  <2>3. ImportsWhole' /\ AuditShowsShift' /\ OfRuns' /\ KpiTypeOK'
    BY <2>1, <2>2 DEF Inductive, KpiTypeOK, ImportsWhole, AuditShowsShift, OfRuns
  <2>4. ASSUME NEW q \in Requests, request'[q] # None PROVE Sound(request[q])'
    BY <2>1, <2>4 DEF Inductive, Sound
  <2>5. QED
    BY <2>3, <2>4 DEF Inductive
<1>2. CASE KpiDies
  BY <1>2, DeathStep
<1>3. CASE KpiNext /\ ~KpiDies
  BY <1>3, CreateStep, ReadStep, WriteStep, DryRunStep, MarkStep, CommitStep, ImportStep DEF KpiNext
<1>4. QED
  BY <1>1, <1>2, <1>3

LEMMA InductiveHolds == KpiSpec => []Inductive
BY InitialState, Step, PTL DEF KpiSpec

-----------------------------------------------------------------------------
\* Shifts, import runs and requests keep their types (KpiShifts).
THEOREM TypeCorrect == KpiSpec => []KpiTypeOK
<1>1. Inductive => KpiTypeOK
  BY DEF Inductive
<1>2. QED
  BY <1>1, InductiveHolds, PTL

\* The audit log shows what became of each shift, also when it was corrected or archived
\* between a request's reading and its writing (updateShift, archiveShift).
THEOREM AuditTrue == KpiSpec => []AuditShowsShift
<1>1. Inductive => AuditShowsShift
  BY DEF Inductive
<1>2. QED
  BY <1>1, InductiveHolds, PTL

\* An import brings the rows of its workbook all or none, and a COMPLETED one all
\* (importExcelShiftsBulk): a run that has brought its rows once brings the same again.
THEOREM ImportAllOrNothing == KpiSpec => []ImportsWhole
<1>1. Inductive => ImportsWhole
  BY DEF Inductive
<1>2. QED
  BY <1>1, InductiveHolds, PTL

-----------------------------------------------------------------------------
(* SellerTasks: requests read a proposal and update it by its id alone.     *)

\* A request that has read a proposal will update a row there is: rows are never deleted.
Addressed(op) ==
    op.kind \in {"text", "approve", "reject", "mark"} => proposals[op.id] # None

TasksInductive ==
    /\ TasksTypeOK
    /\ OneAssignment
    /\ \A q \in Owners : intention[q] # None => Addressed(intention[q])

\* The kinds of intentions and what they are made of.
LEMMA IntentionFields ==
  ASSUME NEW op \in Intentions
  PROVE  /\ op.kind \in {"create", "text", "approve", "reject", "mark"}
         /\ op.kind = "create" => op \in [kind : {"create"}, todo : SUBSET Tasks]
         /\ op.kind # "create" => op.id \in ProposalIds
BY DEF Intentions

\* What a request is about to do has its type and addresses a row there is.
LEMMA TypedIntention ==
  ASSUME TasksInductive, NEW q \in Owners, intention[q] # None
  PROVE  intention[q] \in Intentions /\ Addressed(intention[q])
BY DEF TasksInductive, TasksTypeOK

\* A step that changes no proposal and gives one request a sound intention, or none.
LEMMA IntentionReplaced ==
  ASSUME TasksInductive, NEW q \in Owners, NEW op, TaskGoes(q, op),
         op = None \/ (op \in Intentions /\ Addressed(op)),
         UNCHANGED <<recent, proposals>>, deaths' \in 0 .. MaxDeaths
  PROVE  TasksInductive'
<1>1. intention' \in [Owners -> Intentions \union {None}]
  BY DEF TaskGoes, TasksInductive, TasksTypeOK
<1>2. \A p \in Owners : intention'[p] = IF p = q THEN op ELSE intention[p]
  BY DEF TaskGoes, TasksInductive, TasksTypeOK
<1>3. TasksTypeOK'
  BY <1>1 DEF TasksInductive, TasksTypeOK
<1>4. OneAssignment'
  BY DEF TasksInductive, OneAssignment, Standing
<1>5. ASSUME NEW p \in Owners, intention'[p] # None
      PROVE  Addressed(intention[p])'
  BY <1>2, <1>5, TypedIntention DEF Addressed
<1>6. QED
  BY <1>3, <1>4, <1>5 DEF TasksInductive

\* A row is written where none was or where one is, with a task that, unless the row is
\* rejected, no other standing row has; and its request goes on.
LEMMA RowWritten ==
  ASSUME TasksInductive, NEW i \in ProposalIds, NEW new \in ProposalRows,
         new.status # "REJECTED" => ~Assigned(new.task, i) \/ (i \in Standing /\ new.task = proposals[i].task),
         proposals' = [proposals EXCEPT ![i] = new], new # None,
         NEW q \in Owners, NEW op, TaskGoes(q, op),
         op = None \/ (op \in Intentions /\ (Addressed(op) \/ op = [kind |-> "text", id |-> i])),
         UNCHANGED <<recent, deaths>>
  PROVE  TasksInductive'
<1>1. proposals \in [ProposalIds -> ProposalRows \union {None}]
  BY DEF TasksInductive, TasksTypeOK
<1>2. \A j \in ProposalIds : proposals'[j] = IF j = i THEN new ELSE proposals[j]
  BY <1>1
<1>3. intention' \in [Owners -> Intentions \union {None}]
  BY DEF TaskGoes, TasksInductive, TasksTypeOK
<1>4. TasksTypeOK'
  BY <1>1, <1>3 DEF TasksInductive, TasksTypeOK
<1>5. OneAssignment'
  <2>1. SUFFICES ASSUME NEW j \in Standing', NEW k \in Standing', j # k, k # i,
                        proposals'[j].task = proposals'[k].task, proposals'[j].task # None
                 PROVE  FALSE
    BY DEF OneAssignment
  <2>2. k \in Standing /\ k \in ProposalIds /\ j \in ProposalIds /\ proposals'[k] = proposals[k]
    BY <1>2, <2>1 DEF Standing
  <2>3. CASE j # i
    BY <1>2, <2>1, <2>2, <2>3 DEF Standing, OneAssignment, TasksInductive
  <2>4. CASE j = i
    <3>1. new.status # "REJECTED" /\ new.task = proposals[k].task /\ new.task # None
      BY <1>2, <2>1, <2>2, <2>4 DEF Standing
    <3>2. Assigned(new.task, i)
      BY <2>1, <2>2, <3>1 DEF Assigned
    <3>3. QED
      BY <2>1, <2>2, <3>1, <3>2 DEF TasksInductive, OneAssignment
  <2>5. QED
    BY <2>3, <2>4
<1>6. ASSUME NEW p \in Owners, intention'[p] # None
      PROVE  Addressed(intention[p])'
  <2>1. intention'[p] = IF p = q THEN op ELSE intention[p]
    BY DEF TaskGoes, TasksInductive, TasksTypeOK
  <2>2. CASE p = q /\ op = [kind |-> "text", id |-> i]
    BY <1>2, <2>1, <2>2 DEF Addressed
  <2>3. CASE \E old \in Intentions : intention'[p] = old /\ Addressed(old)
    BY <1>2, <2>3, IntentionFields DEF Addressed
  <2>4. QED
    BY <1>6, <2>1, <2>2, <2>3, TypedIntention
<1>7. QED
  BY <1>4, <1>5, <1>6 DEF TasksInductive

\* At first there are no proposals and no requests.
LEMMA TasksInitial == TasksInit => TasksInductive
<1> SUFFICES ASSUME TasksInit PROVE TasksInductive
  OBVIOUS
<1>1. TasksTypeOK
  BY TasksAssumption DEF TasksInit, TasksTypeOK
<1>2. QED
  BY <1>1 DEF TasksInit, TasksInductive, OneAssignment, Standing

\* The planner: it looks for assignments, chooses, and creates one proposal after another.
LEMMA GenerateStep ==
  ASSUME TasksInductive, UNCHANGED recent, NEW q \in Owners, NEW chosen \in SUBSET Tasks,
         Generate(q, chosen)
  PROVE  TasksInductive'
<1>1. [kind |-> "create", todo |-> chosen] \in Intentions
  BY DEF Intentions
<1>2. QED
  BY <1>1, IntentionReplaced DEF Generate, Addressed, TasksInductive, TasksTypeOK

\* Insert writes a row of a task that has no other.
LEMMA InsertedRow ==
  ASSUME TasksInductive, NEW i \in ProposalIds, NEW chosen \in Tasks \union {None},
         NEW status \in ProposalStatuses, Insert(i, chosen, status)
  PROVE  \E new \in ProposalRows :
            /\ proposals' = [proposals EXCEPT ![i] = new] /\ new # None
            /\ ~Assigned(new.task, i)
<1> DEFINE entry == [task |-> chosen, status |-> status, text |-> FALSE]
<1>1. entry \in ProposalRows
  BY DEF ProposalRows
<1>2. entry # None /\ entry.task = chosen
  BY <1>1, TasksAssumption
<1>3. proposals' = [proposals EXCEPT ![i] = entry] /\ ~Assigned(chosen, i)
  BY DEF Insert
<1>4. QED
  BY <1>1, <1>2, <1>3

LEMMA CreateProposalStep ==
  ASSUME TasksInductive, UNCHANGED recent, NEW q \in Owners, CreateProposal(q)
  PROVE  TasksInductive'
<1> DEFINE op == intention[q]
<1>1. op \in Intentions /\ op.kind = "create" /\ Addressed(op) /\ UNCHANGED deaths
      /\ deaths \in 0 .. MaxDeaths
  BY TypedIntention DEF CreateProposal, TasksInductive, TasksTypeOK
<1>2. CASE op.todo = {} /\ TaskGoes(q, None) /\ UNCHANGED proposals
  BY <1>1, <1>2, IntentionReplaced
<1>3. ASSUME NEW t \in op.todo, TaskGoes(q, [op EXCEPT !.todo = @ \ {t}]),
             UNCHANGED proposals \/ \E i \in ProposalIds : Insert(i, t, "PENDING")
      PROVE  TasksInductive'
  <2> DEFINE rest == [op EXCEPT !.todo = @ \ {t}]
  <2>1. t \in Tasks /\ rest \in Intentions /\ rest.kind = "create"
    BY <1>1, IntentionFields DEF Intentions
  <2>2. Addressed(rest)
    BY <2>1 DEF Addressed
  <2> HIDE DEF rest
  <2>3. CASE UNCHANGED proposals
    BY <1>1, <1>3, <2>1, <2>2, <2>3, IntentionReplaced DEF rest
  <2>4. ASSUME NEW i \in ProposalIds, Insert(i, t, "PENDING")
        PROVE  TasksInductive'
    <3>1. PICK new \in ProposalRows :
            /\ proposals' = [proposals EXCEPT ![i] = new] /\ new # None
            /\ ~Assigned(new.task, i)
      BY <2>1, <2>4, InsertedRow DEF ProposalStatuses
    <3>2. QED
      BY <1>1, <1>3, <2>1, <2>2, <3>1, RowWritten DEF rest
  <2>5. QED
    BY <1>3, <2>3, <2>4
<1>4. QED
  BY <1>2, <1>3 DEF CreateProposal

\* A manual assignment: the row, and then its text.
LEMMA AssignManualStep ==
  ASSUME TasksInductive, UNCHANGED recent, NEW q \in Owners, NEW chosen \in Tasks \union {None},
         AssignManual(q, chosen)
  PROVE  TasksInductive'
<1>1. PICK i \in ProposalIds :
        Insert(i, chosen, "APPROVED") /\ TaskGoes(q, [kind |-> "text", id |-> i])
  BY DEF AssignManual
<1>2. PICK new \in ProposalRows :
        /\ proposals' = [proposals EXCEPT ![i] = new] /\ new # None
        /\ ~Assigned(new.task, i)
  BY <1>1, InsertedRow DEF ProposalStatuses
<1>3. [kind |-> "text", id |-> i] \in Intentions /\ UNCHANGED deaths
  BY DEF Intentions, AssignManual
<1>4. QED
  BY <1>1, <1>2, <1>3, RowWritten

\* The row a request updates.
LEMMA AddressedRow ==
  ASSUME TasksInductive, NEW q \in Owners, intention[q] # None, intention[q].kind # "create"
  PROVE  /\ intention[q].id \in ProposalIds
         /\ proposals[intention[q].id] \in ProposalRows
BY TypedIntention, IntentionFields DEF Addressed, TasksInductive, TasksTypeOK

LEMMA WriteTextStep ==
  ASSUME TasksInductive, UNCHANGED recent, NEW q \in Owners, WriteText(q)
  PROVE  TasksInductive'
<1> DEFINE i == intention[q].id
           new == [proposals[i] EXCEPT !.text = TRUE]
<1>1. i \in ProposalIds /\ proposals[i] \in ProposalRows
  BY AddressedRow DEF WriteText
<1>2. new \in ProposalRows /\ new.status = proposals[i].status /\ new.task = proposals[i].task
  BY <1>1 DEF ProposalRows
<1>3. proposals' = [proposals EXCEPT ![i] = new] /\ TaskGoes(q, None) /\ UNCHANGED deaths
  BY DEF WriteText
<1>4. new # None /\ (new.status # "REJECTED" => i \in Standing)
  BY <1>1, <1>2, TasksAssumption DEF Standing
<1> HIDE DEF new, i
<1>5. QED
  BY <1>1, <1>2, <1>3, <1>4, RowWritten

\* updateProposal: the status is replaced whatever it is by now; only the index refuses it.
LEMMA UpdateStep ==
  ASSUME TasksInductive, UNCHANGED <<recent, deaths>>, NEW q \in Owners, TaskGoes(q, None),
         NEW i \in ProposalIds, proposals[i] \in ProposalRows,
         NEW status \in ProposalStatuses, NEW text \in BOOLEAN, Update(i, status, text)
  PROVE  TasksInductive'
<1> DEFINE new == [proposals[i] EXCEPT !.status = status, !.text = @ \/ text]
<1>1. CASE UNCHANGED proposals
  BY <1>1, IntentionReplaced DEF TasksInductive, TasksTypeOK
<1>2. CASE ~UNCHANGED proposals
  <2>1. status = "REJECTED" \/ ~Assigned(proposals[i].task, i)
    BY <1>2 DEF Update
  <2>2. proposals' = [proposals EXCEPT ![i] = new]
    BY <1>2, <2>1 DEF Update, TasksInductive, TasksTypeOK, ProposalRows
  <2>3. new \in ProposalRows /\ new.status = status /\ new.task = proposals[i].task /\ new # None
    BY TasksAssumption DEF ProposalRows
  <2> HIDE DEF new
  <2>4. QED
    BY <2>1, <2>2, <2>3, RowWritten
<1>3. QED
  BY <1>1, <1>2

LEMMA WriteDecisionStep ==
  ASSUME TasksInductive, UNCHANGED recent, NEW q \in Owners, WriteDecision(q)
  PROVE  TasksInductive'
<1>1. /\ intention[q] # None /\ intention[q].kind # "create"
      /\ TaskGoes(q, None) /\ UNCHANGED deaths
      /\ \E status \in ProposalStatuses, text \in BOOLEAN : Update(intention[q].id, status, text)
  BY DEF WriteDecision, ProposalStatuses
<1>2. intention[q].id \in ProposalIds /\ proposals[intention[q].id] \in ProposalRows
  BY <1>1, AddressedRow
<1>3. QED
  BY <1>1, <1>2, UpdateStep

\* A decision is about a proposal there is.
LEMMA DecideStep ==
  ASSUME TasksInductive, UNCHANGED recent, NEW q \in Owners, NEW i \in ProposalIds,
         NEW kind \in {"approve", "reject", "mark"}, Decide(q, i, kind)
  PROVE  TasksInductive'
<1>1. [kind |-> kind, id |-> i] \in Intentions /\ Addressed([kind |-> kind, id |-> i])
  BY DEF Intentions, Decide, Addressed
<1>2. QED
  BY <1>1, IntentionReplaced DEF Decide, TasksInductive, TasksTypeOK

\* A request that fails, or the whole process: what was written stays.
LEMMA TasksFailStep ==
  ASSUME TasksInductive, UNCHANGED recent,
         TasksDie \/ \E q \in Owners : CallFails(q)
  PROVE  TasksInductive'
<1>1. UNCHANGED proposals /\ deaths' \in 0 .. MaxDeaths
  BY TasksAssumption DEF TasksDie, CallFails, TaskFailure, TasksInductive, TasksTypeOK
<1>2. CASE TasksDie
  BY <1>1, <1>2 DEF TasksDie, TasksInductive, TasksTypeOK, OneAssignment, Standing
<1>3. ASSUME NEW q \in Owners, CallFails(q)
      PROVE  TasksInductive'
  BY <1>1, <1>3, IntentionReplaced DEF CallFails
<1>4. QED
  BY <1>2, <1>3

LEMMA TasksInductiveStep ==
  ASSUME TasksInductive, [TasksNext]_taskVars
  PROVE  TasksInductive'
<1>1. CASE UNCHANGED taskVars
  BY <1>1 DEF taskVars, TasksInductive, TasksTypeOK, OneAssignment, Standing, Addressed
<1>2. CASE TasksNext
  BY <1>2, GenerateStep, AssignManualStep, DecideStep, CreateProposalStep, WriteTextStep,
     WriteDecisionStep, TasksFailStep DEF TasksNext, TasksStep
<1>3. QED
  BY <1>1, <1>2

LEMMA TasksInductiveHolds == TasksSpec => []TasksInductive
BY TasksInitial, TasksInductiveStep, PTL DEF TasksSpec

\* Proposals and requests about them keep their types (SellerTasks).
THEOREM TasksTypeCorrect == TasksSpec => []TasksTypeOK
<1>1. TasksInductive => TasksTypeOK
  BY DEF TasksInductive
<1>2. QED
  BY <1>1, TasksInductiveHolds, PTL

\* A seller has a library task at most once for a shift, for any number of requests that
\* plan, assign and decide at once, each by a reading and a later update (generateProposals,
\* assignManual, approve, reject, markResult).
THEOREM AssignedOnce == TasksSpec => []OneAssignment
<1>1. TasksInductive => OneAssignment
  BY DEF TasksInductive
<1>2. QED
  BY <1>1, TasksInductiveHolds, PTL

-----------------------------------------------------------------------------
(* KpiAlerts.                                                               *)

\* What is still to be said of an alert: one message at most, about what was stored last.
Said(q, a) == \E i \in DOMAIN q : q[i].alert = a
OneEach(q) == \A i, j \in DOMAIN q : q[i].alert = q[j].alert => i = j

\* A row holds what was stored last.
Holds(previous, word) ==
    /\ previous = None => word = None
    /\ previous # None => word = IF previous.state = "ok" THEN "ok" ELSE previous.digest

\* Whatever is not on its way to the owner, and was not lost, he has heard.
Untold == IF run = None THEN <<>> ELSE run.unsent
Heard(a) == a \notin missed /\ ~Said(Untold, a) => heard[a] = known[a]

\* What waits is of alerts that have been judged, and no repetition.
Waits(m) ==
    /\ m.word = known[m.alert] /\ m.alert \notin run.todo
    /\ m.alert \notin missed => m.word # heard[m.alert]

AlertsInv ==
    /\ AlertsTypeOK
    /\ OneEach(Untold)
    /\ \A a \in Alerts : Holds(row[a], known[a]) /\ Heard(a)
    /\ \A i \in DOMAIN Untold : Waits(Untold[i])

\* A judgement is a word, or none.
LEMMA JudgementTyped ==
  ASSUME NEW a \in Alerts, NEW figure \in Figures
  PROVE  Judgement(a, figure) \in Words \union {None}
BY DEF Judgement, Figures, Words

\* What is stored and sent of a word: the owner is told of it exactly when it is news.
LEMMA NewsIsSent ==
  ASSUME NEW previous \in AlertRows \union {None}, NEW before, Holds(previous, before),
         NEW word \in Words,
         NEW after, after = IF word = "ok" /\ previous = None THEN before ELSE word
  PROVE  /\ Stored(previous, word) \in AlertRows \union {None}
         /\ Holds(Stored(previous, word), after)
         /\ after \in {before, word}
         /\ ShouldSend(previous, word) => after = word /\ word # before
         /\ ~ShouldSend(previous, word) => after = before
<1>1. /\ None \notin Words /\ None \notin AlertRows
      /\ "ok" \notin BadFigures
  BY AlertAssumption
<1>2. previous # None => /\ previous \in AlertRows /\ previous.state \in {"ok", "warning"}
                         /\ previous.digest \in BadFigures
  BY DEF AlertRows
<1>3. CASE word = "ok"
  <2>1. CASE previous = None
    BY <1>1, <1>3, <2>1 DEF Stored, ShouldSend, Holds
  <2>2. CASE previous # None
    <3>1. Stored(previous, word) = [previous EXCEPT !.state = "ok"] /\ after = "ok"
      BY <1>3, <2>2 DEF Stored
    <3>2. Stored(previous, word) \in AlertRows /\ Stored(previous, word).state = "ok"
      BY <1>2, <2>2, <3>1 DEF AlertRows
    <3>3. QED
      BY <1>1, <1>2, <1>3, <2>2, <3>1, <3>2 DEF ShouldSend, Holds
  <2>3. QED
    BY <2>1, <2>2
<1>4. CASE word # "ok"
  <2>1. word \in BadFigures /\ after = word
    BY <1>4 DEF Words
  <2>2. /\ Stored(previous, word) = [state |-> "warning", digest |-> word]
        /\ Stored(previous, word) \in AlertRows
    BY <1>4, <2>1 DEF Stored, AlertRows
  <2>3. Holds(Stored(previous, word), after)
    BY <1>1, <2>1, <2>2 DEF Holds
  <2>4. CASE previous = None
    BY <1>1, <1>4, <2>1, <2>2, <2>3, <2>4 DEF ShouldSend, Holds
  <2>5. CASE previous # None
    BY <1>1, <1>2, <1>4, <2>1, <2>2, <2>3, <2>5 DEF ShouldSend, Holds
  <2>6. QED
    BY <2>4, <2>5
<1>5. QED
  BY <1>3, <1>4

\* A message joins those that wait.
LEMMA MessageWaits ==
  ASSUME NEW q \in Seq(AlertMessages), NEW m \in AlertMessages
  PROVE  /\ Append(q, m) \in Seq(AlertMessages)
         /\ \A i \in DOMAIN Append(q, m) : Append(q, m)[i] = m \/
               \E j \in DOMAIN q : Append(q, m)[i] = q[j]
         /\ \A a : Said(Append(q, m), a) <=> Said(q, a) \/ a = m.alert
         /\ OneEach(q) /\ ~Said(q, m.alert) => OneEach(Append(q, m))
<1> DEFINE p == Append(q, m)
<1>1. /\ p \in Seq(AlertMessages) /\ Len(q) \in Nat /\ DOMAIN q = 1 .. Len(q)
      /\ DOMAIN p = 1 .. Len(q) + 1
      /\ p[Len(q) + 1] = m /\ \A i \in DOMAIN q : p[i] = q[i]
  BY AppendProperties, LenProperties
<1> HIDE DEF p
<1>2. \A i \in DOMAIN p : i = Len(q) + 1 \/ i \in DOMAIN q
  BY <1>1
<1>3. \A a : Said(p, a) <=> Said(q, a) \/ a = m.alert
  BY <1>1, <1>2 DEF Said
<1>4. ASSUME OneEach(q), ~Said(q, m.alert) PROVE OneEach(p)
  <2> SUFFICES ASSUME NEW i \in DOMAIN p, NEW j \in DOMAIN p, p[i].alert = p[j].alert PROVE i = j
    BY DEF OneEach
  <2>1. CASE i \in DOMAIN q /\ j \in DOMAIN q
    BY <1>1, <1>4, <2>1 DEF OneEach
  <2>2. CASE i = Len(q) + 1 /\ j = Len(q) + 1
    BY <2>2
  <2>3. CASE (i = Len(q) + 1 /\ j \in DOMAIN q) \/ (i \in DOMAIN q /\ j = Len(q) + 1)
    BY <1>1, <1>4, <2>3 DEF Said
  <2>4. QED
    BY <1>2, <2>1, <2>2, <2>3
<1>5. QED
  BY <1>1, <1>2, <1>3, <1>4 DEF p

\* The first message leaves.
LEMMA MessageLeaves ==
  ASSUME NEW q \in Seq(AlertMessages), q # <<>>, OneEach(q)
  PROVE  /\ Tail(q) \in Seq(AlertMessages) /\ OneEach(Tail(q))
         /\ Head(q) \in AlertMessages /\ \E i \in DOMAIN q : Head(q) = q[i]
         /\ \A i \in DOMAIN Tail(q) : \E j \in DOMAIN q : Tail(q)[i] = q[j]
         /\ \A a : Said(Tail(q), a) <=> Said(q, a) /\ a # Head(q).alert
<1> DEFINE p == Tail(q)
<1>1. /\ p \in Seq(AlertMessages) /\ Len(q) \in Nat \ {0} /\ DOMAIN q = 1 .. Len(q)
      /\ DOMAIN p = 1 .. Len(q) - 1
      /\ \A i \in DOMAIN p : i + 1 \in DOMAIN q /\ p[i] = q[i + 1]
      /\ Head(q) = q[1] /\ 1 \in DOMAIN q /\ Head(q) \in AlertMessages
  <2>1. Len(q) \in Nat \ {0} /\ DOMAIN q = 1 .. Len(q)
    BY EmptySeq, LenProperties
  <2>2. p \in Seq(AlertMessages) /\ Len(p) = Len(q) - 1 /\ \A i \in 1 .. Len(p) : p[i] = q[i + 1]
    BY HeadTailProperties
  <2>3. DOMAIN p = 1 .. Len(q) - 1
    BY <2>2, LenProperties
  <2>4. Head(q) = q[1] /\ Head(q) \in AlertMessages
    BY HeadTailProperties
  <2>5. QED
    BY <2>1, <2>2, <2>3, <2>4
<1> HIDE DEF p
<1>2. \A j \in DOMAIN q : j # 1 => j - 1 \in DOMAIN p /\ p[j - 1] = q[j]
  BY <1>1
<1>3. OneEach(p)
  BY <1>1 DEF OneEach
<1>4. ASSUME NEW a PROVE Said(p, a) <=> Said(q, a) /\ a # Head(q).alert
  <2>1. ASSUME Said(p, a) PROVE Said(q, a) /\ a # Head(q).alert
    <3>1. PICK i \in DOMAIN p : p[i].alert = a
      BY <2>1 DEF Said
    <3>2. i + 1 \in DOMAIN q /\ q[i + 1].alert = a /\ i + 1 # 1
      BY <1>1, <3>1
    <3>3. QED
      BY <1>1, <3>2 DEF Said, OneEach
  <2>2. ASSUME Said(q, a), a # Head(q).alert PROVE Said(p, a)
    <3>1. PICK j \in DOMAIN q : q[j].alert = a
      BY <2>2 DEF Said
    <3>2. j # 1
      BY <1>1, <2>2, <3>1
    <3>3. QED
      BY <1>2, <3>1, <3>2 DEF Said
  <2>3. QED
    BY <2>1, <2>2
<1>5. QED
  BY <1>1, <1>3, <1>4 DEF p

\* An evaluation and what of it waits.
LEMMA RunFields ==
  ASSUME AlertsInv, run # None
  PROVE  /\ run \in Evaluations /\ run.todo \subseteq Alerts
         /\ \A a \in Alerts : run.seen[a] \in Figures
         /\ run.unsent \in Seq(AlertMessages) /\ Untold = run.unsent
         /\ \A i \in DOMAIN run.unsent : run.unsent[i].alert \in Alerts
<1>1. run \in Evaluations
  BY DEF AlertsInv, AlertsTypeOK
<1>2. run.unsent \in Seq(AlertMessages) /\ run.todo \subseteq Alerts
  BY <1>1 DEF Evaluations
<1>3. \A i \in DOMAIN run.unsent : run.unsent[i] \in AlertMessages
  BY <1>2, ElementOfSeq, LenProperties
<1>4. QED
  BY <1>1, <1>2, <1>3 DEF Evaluations, AlertMessages, Untold

LEMMA NoneSaid ==
  /\ <<>> \in Seq(AlertMessages) /\ OneEach(<<>>)
  /\ \A a : ~Said(<<>>, a)
BY EmptySeq DEF OneEach, Said

\* What was found of an alert is stored.
LEMMA StoreFacts ==
  ASSUME AlertsInv, run # None, NEW a \in run.todo,
         NEW word, word = Judgement(a, run.seen[a]), word # None, Store(a, word)
  PROVE  /\ a \in Alerts /\ word \in Words /\ ~Said(run.unsent, a)
         /\ row' \in [Alerts -> AlertRows \union {None}]
         /\ known' \in [Alerts -> Words \union {None}]
         /\ \A b \in Alerts : Holds(row'[b], known'[b])
         /\ \A b \in Alerts \ {a} : known'[b] = known[b]
         /\ ShouldSend(row[a], word) => known'[a] = word /\ word # known[a]
         /\ ~ShouldSend(row[a], word) => known'[a] = known[a]
<1>1. a \in Alerts /\ run.seen[a] \in Figures
  BY RunFields
<1>2. word \in Words
  BY <1>1, JudgementTyped
<1>3. /\ row \in [Alerts -> AlertRows \union {None}]
      /\ known \in [Alerts -> Words \union {None}]
      /\ \A b \in Alerts : Holds(row[b], known[b])
  BY DEF AlertsInv, AlertsTypeOK
<1>4. row[a] \in AlertRows \union {None} /\ Holds(row[a], known[a])
  BY <1>1, <1>3
<1>5. PICK after : after = IF word = "ok" /\ row[a] = None THEN known[a] ELSE word
  OBVIOUS
<1>6. /\ row' = [row EXCEPT ![a] = Stored(row[a], word)]
      /\ known' = [known EXCEPT ![a] = after]
  BY <1>5 DEF Store
<1>7. /\ Stored(row[a], word) \in AlertRows \union {None}
      /\ Holds(Stored(row[a], word), after)
      /\ after \in {known[a], word}
      /\ ShouldSend(row[a], word) => after = word /\ word # known[a]
      /\ ~ShouldSend(row[a], word) => after = known[a]
  BY <1>2, <1>4, <1>5, NewsIsSent
<1>8. ~Said(run.unsent, a)
  BY RunFields DEF AlertsInv, Waits, Said
<1>9. /\ row'[a] = Stored(row[a], word) /\ known'[a] = after
      /\ \A b \in Alerts \ {a} : row'[b] = row[b] /\ known'[b] = known[b]
  BY <1>1, <1>3, <1>6
<1>10. \A b \in Alerts : Holds(row'[b], known'[b])
  <2> SUFFICES ASSUME NEW b \in Alerts PROVE Holds(row'[b], known'[b])
    OBVIOUS
  <2>1. CASE b = a
    BY <1>7, <1>9, <2>1
  <2>2. CASE b # a
    <3>1. row'[b] = row[b] /\ known'[b] = known[b] /\ Holds(row[b], known[b])
      BY <1>3, <1>9, <2>2
    <3>2. QED
      BY <3>1
  <2>3. QED
    BY <2>1, <2>2
<1>11. known' \in [Alerts -> Words \union {None}]
  BY <1>2, <1>3, <1>6, <1>7
<1>12. row' \in [Alerts -> AlertRows \union {None}]
  BY <1>3, <1>6, <1>7
<1>13. QED
  BY <1>1, <1>2, <1>7, <1>8, <1>9, <1>10, <1>11, <1>12

\* The evaluation is over, and what waited is lost.
LEMMA AbandonStep ==
  ASSUME AlertsInv, run # None, NEW q \in Seq(AlertMessages), Abandon(q),
         row' \in [Alerts -> AlertRows \union {None}],
         known' \in [Alerts -> Words \union {None}],
         heard' \in [Alerts -> Words \union {None}],
         \A a \in Alerts : Holds(row'[a], known'[a]),
         \A a \in Alerts : ~Said(q, a) => ~Said(run.unsent, a)
                                          /\ known'[a] = known[a] /\ heard'[a] = heard[a]
  PROVE  AlertsInv'
<1>1. /\ run' = None /\ missed' = missed \union {q[i].alert : i \in DOMAIN q}
      /\ slips < MaxSlips /\ slips' = slips + 1
  BY DEF Abandon
<1>2. missed \subseteq Alerts /\ slips \in 0 .. MaxSlips /\ MaxSlips \in Nat
  BY AlertAssumption DEF AlertsInv, AlertsTypeOK
<1>3. \A i \in DOMAIN q : q[i].alert \in Alerts
  <2>1. \A i \in DOMAIN q : q[i] \in AlertMessages
    BY ElementOfSeq, LenProperties
  <2>2. QED
    BY <2>1 DEF AlertMessages
<1>4. AlertsTypeOK'
  BY <1>1, <1>2, <1>3 DEF AlertsTypeOK
<1>5. Untold' = <<>>
  BY <1>1 DEF Untold
<1>6. ASSUME NEW a \in Alerts PROVE Heard(a)'
  <2> SUFFICES ASSUME a \notin missed' PROVE heard'[a] = known'[a]
    BY DEF Heard
  <2>1. a \notin missed /\ ~Said(q, a)
    BY <1>1 DEF Said
  <2>2. ~Said(Untold, a)
    BY <2>1, RunFields
  <2>3. QED
    BY <2>1, <2>2 DEF AlertsInv, Heard
<1>7. (\A i \in DOMAIN Untold : Waits(Untold[i]))' /\ OneEach(Untold)'
  BY <1>5, EmptySeq DEF OneEach
<1>8. QED
  BY <1>4, <1>6, <1>7 DEF AlertsInv

\* One alert is judged.
LEMMA JudgedStep ==
  ASSUME AlertsInv, NEW a \in Alerts, AddAlert(a)
  PROVE  AlertsInv'
<1> DEFINE word == Judgement(a, run.seen[a])
<1>1. /\ run # None /\ a \in run.todo
      /\ UNCHANGED <<heard, missed, slips>>
  BY DEF AddAlert
<1>2. /\ run \in Evaluations /\ run.unsent \in Seq(AlertMessages) /\ Untold = run.unsent
  BY <1>1, RunFields
<1>3. None \notin Evaluations
  BY AlertAssumption
<1>4. ASSUME NEW q \in Seq(AlertMessages), run' = [run EXCEPT !.todo = @ \ {a}, !.unsent = q]
      PROVE  /\ run' \in Evaluations /\ run' # None /\ Untold' = q
             /\ run'.todo = run.todo \ {a}
  <2>1. run' \in Evaluations /\ run'.unsent = q /\ run'.todo = run.todo \ {a}
    BY <1>2, <1>4 DEF Evaluations
  <2>2. run' # None
    BY <1>3, <2>1
  <2>3. QED
    BY <2>1, <2>2 DEF Untold
<1>5. CASE word = None
  <2>1. run' = [run EXCEPT !.todo = @ \ {a}] /\ UNCHANGED <<row, known>>
    BY <1>5 DEF AddAlert
  <2>2. run' = [run EXCEPT !.todo = @ \ {a}, !.unsent = run.unsent]
    BY <1>2, <2>1 DEF Evaluations
  <2>3. run' \in Evaluations /\ run' # None /\ Untold' = Untold /\ run'.todo = run.todo \ {a}
    BY <1>2, <1>4, <2>2
  <2>4. AlertsTypeOK'
    BY <1>1, <2>1, <2>3 DEF AlertsInv, AlertsTypeOK
  <2>5. QED
    BY <1>1, <2>1, <2>3, <2>4 DEF AlertsInv, Heard, Waits
<1>6. CASE word # None
  <2>1. /\ Store(a, word)
        /\ run' = [run EXCEPT !.todo = @ \ {a},
                     !.unsent = IF ShouldSend(row[a], word)
                                THEN Append(@, [alert |-> a, word |-> word]) ELSE @]
    BY <1>6 DEF AddAlert
  <2>2. PICK w : w = word
    OBVIOUS
  <2> DEFINE m == [alert |-> a, word |-> w]
  <2>3. /\ w \in Words /\ ~Said(run.unsent, a)
        /\ row' \in [Alerts -> AlertRows \union {None}]
        /\ known' \in [Alerts -> Words \union {None}]
        /\ \A b \in Alerts : Holds(row'[b], known'[b])
        /\ \A b \in Alerts \ {a} : known'[b] = known[b]
        /\ ShouldSend(row[a], w) => known'[a] = w /\ w # known[a]
        /\ ~ShouldSend(row[a], w) => known'[a] = known[a]
    BY <1>1, <1>6, <2>1, <2>2, StoreFacts
  <2> HIDE DEF word
  <2>4. CASE ShouldSend(row[a], w)
    <3>1. m \in AlertMessages /\ m.alert = a /\ m.word = w
      BY <2>3 DEF AlertMessages
    <3>2. PICK q : q = Append(run.unsent, m)
      OBVIOUS
    <3>3. /\ q \in Seq(AlertMessages)
          /\ \A i \in DOMAIN q : q[i] = m \/ \E j \in DOMAIN run.unsent : q[i] = run.unsent[j]
          /\ \A b : Said(q, b) <=> Said(run.unsent, b) \/ b = a
          /\ OneEach(run.unsent) => OneEach(q)
      BY <1>2, <2>3, <3>2, <3>1, MessageWaits
    <3>4. run' = [run EXCEPT !.todo = @ \ {a}, !.unsent = q]
      BY <2>1, <2>2, <2>4, <3>2
    <3>5. run' \in Evaluations /\ run' # None /\ Untold' = q /\ run'.todo = run.todo \ {a}
      BY <1>4, <3>3, <3>4
    <3>6. AlertsTypeOK'
      BY <1>1, <2>3, <3>5 DEF AlertsInv, AlertsTypeOK
    <3>7. OneEach(Untold)'
      BY <1>2, <3>3, <3>5 DEF AlertsInv
    <3>8. ASSUME NEW b \in Alerts PROVE Heard(b)'
      BY <1>1, <1>2, <2>3, <3>3, <3>5 DEF AlertsInv, Heard
    <3>9. ASSUME NEW i \in DOMAIN q PROVE Waits(q[i])'
      <4>1. CASE q[i] = m
        <5>1. a \notin missed => heard[a] = known[a]
          BY <1>2, <2>3 DEF AlertsInv, Heard
        <5>2. QED
          BY <1>1, <2>3, <2>4, <3>1, <3>5, <4>1, <5>1 DEF Waits
      <4>2. CASE \E k \in DOMAIN run.unsent : q[i] = run.unsent[k]
        <5>1. PICK k \in DOMAIN run.unsent : q[i] = run.unsent[k]
          BY <4>2
        <5>2. Waits(q[i]) /\ q[i].alert \in Alerts \ {a}
          BY <1>1, <1>2, <2>3, <5>1, RunFields DEF AlertsInv, Said
        <5>3. QED
          BY <1>1, <2>3, <3>5, <5>2 DEF Waits
      <4>3. QED
        BY <3>3, <4>1, <4>2
    <3>10. (\A i \in DOMAIN Untold : Waits(Untold[i]))'
      BY <3>5, <3>9
    <3>11. QED
      BY <2>3, <3>6, <3>7, <3>8, <3>10 DEF AlertsInv
  <2>5. CASE ~ShouldSend(row[a], w)
    <3>1. run' = [run EXCEPT !.todo = @ \ {a}, !.unsent = run.unsent]
      BY <1>2, <2>1, <2>2, <2>5 DEF Evaluations
    <3>2. run' \in Evaluations /\ run' # None /\ Untold' = Untold /\ run'.todo = run.todo \ {a}
      BY <1>2, <1>4, <3>1
    <3>3. \A b \in Alerts : known'[b] = known[b]
      BY <2>3, <2>5
    <3>4. AlertsTypeOK'
      BY <1>1, <2>3, <3>2 DEF AlertsInv, AlertsTypeOK
    <3>5. \A b \in Alerts : Heard(b)'
      BY <1>1, <3>2, <3>3 DEF AlertsInv, Heard
    <3>6. \A i \in DOMAIN Untold : Untold[i].alert \in Alerts
      BY <1>1, <1>2, RunFields
    <3>7. (\A i \in DOMAIN Untold : Waits(Untold[i]))'
      BY <1>1, <3>2, <3>3, <3>6 DEF AlertsInv, Waits
    <3>8. QED
      BY <2>3, <3>2, <3>4, <3>5, <3>7 DEF AlertsInv
  <2>6. QED
    BY <2>4, <2>5
<1>7. QED
  BY <1>5, <1>6

\* One message is sent.
LEMMA SentStep ==
  ASSUME AlertsInv, SendToOwner
  PROVE  AlertsInv'
<1>1. PICK m, q : m = Head(run.unsent) /\ q = Tail(run.unsent)
  OBVIOUS
<1>2. /\ run # None /\ run.unsent # <<>>
      /\ heard' = [heard EXCEPT ![m.alert] = m.word] /\ missed' = missed \ {m.alert}
      /\ run' = [run EXCEPT !.unsent = q]
      /\ UNCHANGED <<row, known, slips>>
  BY <1>1 DEF SendToOwner, Sending, Hears
<1>3. /\ run \in Evaluations /\ run.unsent \in Seq(AlertMessages) /\ Untold = run.unsent
  BY <1>2, RunFields
<1>4. /\ q \in Seq(AlertMessages) /\ OneEach(q)
      /\ m \in AlertMessages /\ \E i \in DOMAIN run.unsent : m = run.unsent[i]
      /\ \A i \in DOMAIN q : \E j \in DOMAIN run.unsent : q[i] = run.unsent[j]
      /\ \A a : Said(q, a) <=> Said(run.unsent, a) /\ a # m.alert
  BY <1>1, <1>2, <1>3, MessageLeaves DEF AlertsInv
<1>5. /\ run' \in Evaluations /\ run'.unsent = q /\ run'.todo = run.todo
  BY <1>2, <1>3, <1>4 DEF Evaluations
<1>6. run' # None /\ Untold' = q
  BY <1>5, AlertAssumption DEF Untold
<1>7. m.alert \in Alerts /\ m.word \in Words /\ m.word = known[m.alert]
  BY <1>3, <1>4 DEF AlertMessages, AlertsInv, Waits
<1>8. heard' \in [Alerts -> Words \union {None}] /\ heard'[m.alert] = m.word
      /\ \A a \in Alerts \ {m.alert} : heard'[a] = heard[a]
  BY <1>2, <1>7 DEF AlertsInv, AlertsTypeOK
<1>9. AlertsTypeOK'
  BY <1>2, <1>5, <1>8 DEF AlertsInv, AlertsTypeOK
<1>10. ASSUME NEW a \in Alerts PROVE Heard(a)'
  <2>1. CASE a = m.alert
    BY <1>2, <1>7, <1>8, <2>1 DEF Heard
  <2>2. CASE a # m.alert
    BY <1>2, <1>3, <1>4, <1>6, <1>8, <2>2 DEF Heard, AlertsInv
  <2>3. QED
    BY <2>1, <2>2
<1>11. ASSUME NEW i \in DOMAIN q PROVE Waits(q[i])'
  <2>1. PICK j \in DOMAIN run.unsent : q[i] = run.unsent[j]
    BY <1>4
  <2>2. Waits(q[i]) /\ q[i].alert # m.alert /\ q[i].alert \in Alerts
    <3>1. Waits(q[i]) /\ q[i].alert \in Alerts
      BY <1>2, <1>3, <2>1, RunFields DEF AlertsInv
    <3>2. Said(q, q[i].alert)
      BY DEF Said
    <3>3. QED
      BY <1>4, <3>1, <3>2
  <2>3. QED
    BY <1>2, <1>5, <1>8, <2>2 DEF Waits
<1>12. (\A i \in DOMAIN Untold : Waits(Untold[i]))'
  BY <1>6, <1>11
<1>13. QED
  BY <1>2, <1>4, <1>6, <1>9, <1>10, <1>12 DEF AlertsInv

\* An evaluation begins or ends.
LEMMA EdgeStep ==
  ASSUME AlertsInv, (\E seen \in [Alerts -> Figures] : RunAlerts(seen)) \/ EndRun
  PROVE  AlertsInv'
<1>1. UNCHANGED <<row, heard, known, missed, slips>>
  BY DEF RunAlerts, EndRun
<1>2. run' = None \/ (run' \in Evaluations /\ run'.unsent = <<>>)
  <2>1. ASSUME NEW seen \in [Alerts -> Figures], RunAlerts(seen)
        PROVE  run' \in Evaluations /\ run'.unsent = <<>>
    <3>1. run' = [todo |-> Alerts, seen |-> seen, unsent |-> <<>>]
      BY <2>1 DEF RunAlerts
    <3>2. QED
      BY <3>1, NoneSaid DEF Evaluations
  <2>2. QED
    <3>1. CASE EndRun
      BY <3>1 DEF EndRun
    <3>2. CASE \E seen \in [Alerts -> Figures] : RunAlerts(seen)
      BY <2>1, <3>2, Zenon
    <3>3. QED
      BY <3>1, <3>2
<1>3. Untold = <<>> /\ Untold' = <<>>
  BY <1>2 DEF RunAlerts, EndRun, Untold
<1>4. AlertsTypeOK'
  BY <1>1, <1>2 DEF AlertsInv, AlertsTypeOK
<1>5. DOMAIN (<<>>) = {}
  OBVIOUS
<1>6. QED
  BY <1>1, <1>3, <1>4, <1>5 DEF AlertsInv, Heard, OneEach

\* A call fails, or its answer is lost.
LEMMA FailedStep ==
  ASSUME AlertsInv, EvaluationFails \/ AnswerLost
  PROVE  AlertsInv'
<1>1. /\ run # None /\ run.unsent \in Seq(AlertMessages)
      /\ \A i \in DOMAIN run.unsent : run.unsent[i].alert \in Alerts
  BY RunFields DEF EvaluationFails, AnswerLost, Sending
<1>2. /\ row \in [Alerts -> AlertRows \union {None}]
      /\ known \in [Alerts -> Words \union {None}]
      /\ heard \in [Alerts -> Words \union {None}]
      /\ \A a \in Alerts : Holds(row[a], known[a])
  BY DEF AlertsInv, AlertsTypeOK
<1>3. CASE EvaluationFails
  <2>1. Abandon(run.unsent) /\ UNCHANGED <<row, heard, known>>
    BY <1>3 DEF EvaluationFails
  <2>2. QED
    BY <1>1, <1>2, <2>1, AbandonStep
<1>4. CASE /\ Sending /\ Hears(Head(run.unsent)) /\ Abandon(run.unsent)
           /\ UNCHANGED <<row, known>>
  <2> DEFINE m == Head(run.unsent)
  <2>1. run.unsent # <<>> /\ heard' = [heard EXCEPT ![m.alert] = m.word]
    BY <1>4 DEF Sending, Hears
  <2>2. m \in AlertMessages /\ Said(run.unsent, m.alert)
    BY <1>1, <2>1, MessageLeaves, RunFields DEF Said, AlertsInv
  <2> HIDE DEF m
  <2>3. m.word \in Words /\ m.alert \in Alerts
    BY <2>2 DEF AlertMessages
  <2>4. heard' \in [Alerts -> Words \union {None}]
    BY <1>2, <2>1, <2>3
  <2>5. \A a \in Alerts : ~Said(run.unsent, a) => heard'[a] = heard[a]
    BY <1>2, <2>1, <2>2
  <2>6. QED
    BY <1>1, <1>2, <1>4, <2>4, <2>5, AbandonStep
<1>5. ASSUME NEW a \in run.todo, NEW word, word = Judgement(a, run.seen[a]), word # None,
             Store(a, word), UNCHANGED heard,
             Abandon(IF ShouldSend(row[a], word)
                     THEN Append(run.unsent, [alert |-> a, word |-> word]) ELSE run.unsent)
      PROVE  AlertsInv'
  <2> DEFINE m == [alert |-> a, word |-> word]
  <2>1. /\ a \in Alerts /\ word \in Words
        /\ row' \in [Alerts -> AlertRows \union {None}]
        /\ known' \in [Alerts -> Words \union {None}]
        /\ \A b \in Alerts : Holds(row'[b], known'[b])
        /\ \A b \in Alerts \ {a} : known'[b] = known[b]
        /\ ~ShouldSend(row[a], word) => known'[a] = known[a]
    BY <1>1, <1>5, StoreFacts
  <2>2. m \in AlertMessages /\ m.alert = a
    BY <2>1 DEF AlertMessages
  <2> HIDE DEF m
  <2>3. CASE ShouldSend(row[a], word)
    <3>1. /\ Append(run.unsent, m) \in Seq(AlertMessages)
          /\ \A b : Said(Append(run.unsent, m), b) <=> Said(run.unsent, b) \/ b = a
      BY <1>1, <2>2, MessageWaits
    <3>2. Abandon(Append(run.unsent, m))
      BY <1>5, <2>3 DEF m
    <3>3. QED
      BY <1>1, <1>2, <1>5, <2>1, <3>1, <3>2, AbandonStep
  <2>4. CASE ~ShouldSend(row[a], word)
    <3>1. Abandon(run.unsent) /\ \A b \in Alerts : known'[b] = known[b]
      BY <1>5, <2>1, <2>4
    <3>2. QED
      BY <1>1, <1>2, <1>5, <2>1, <3>1, AbandonStep
  <2>5. QED
    BY <2>3, <2>4
<1>6. QED
  BY <1>3, <1>4, <1>5 DEF AnswerLost

LEMMA AlertsStep ==
  ASSUME AlertsInv, [AlertsNext]_alertVars
  PROVE  AlertsInv'
<1>1. CASE UNCHANGED alertVars
  BY <1>1 DEF alertVars, AlertsInv, AlertsTypeOK, Untold, Heard, Waits
<1>2. QED
  BY <1>1, JudgedStep, SentStep, EdgeStep, FailedStep DEF AlertsNext

LEMMA AlertsInitially == AlertsInit => AlertsInv
<1> SUFFICES ASSUME AlertsInit PROVE AlertsInv
  OBVIOUS
<1>1. AlertsTypeOK
  BY AlertAssumption DEF AlertsInit, AlertsTypeOK
<1>2. Untold = <<>> /\ OneEach(Untold)
  BY NoneSaid DEF AlertsInit, Untold
<1>3. \A a \in Alerts : Holds(row[a], known[a]) /\ Heard(a)
  BY DEF AlertsInit, Holds, Heard
<1>4. QED
  BY <1>1, <1>2, <1>3, EmptySeq DEF AlertsInv

\* One step of the evaluations tells what ToldOnce says.
LEMMA ToldStep ==
  ASSUME AlertsInv, AlertsInv', [AlertsNext]_alertVars
  PROVE  /\ run' = None => \A a \in Alerts \ missed' : heard'[a] = known'[a]
         /\ \A a \in Alerts \ missed : ~Repeats(a)
<1>1. ASSUME run' = None, NEW a \in Alerts \ missed'
      PROVE  heard'[a] = known'[a]
  <2>1. Untold' = <<>>
    BY <1>1 DEF Untold
  <2>2. ~Said(Untold', a)
    BY <2>1, NoneSaid
  <2>3. QED
    BY <1>1, <2>2 DEF AlertsInv, Heard
<1>2. ASSUME NEW a \in Alerts \ missed, Repeats(a)
      PROVE  FALSE
  <2>1. run # None /\ run.unsent # <<>> /\ Head(run.unsent) = [alert |-> a, word |-> heard[a]]
    BY <1>2 DEF Repeats, Sending
  <2>2. run.unsent \in Seq(AlertMessages) /\ Untold = run.unsent
    BY <2>1, RunFields
  <2>3. \E i \in DOMAIN run.unsent : Head(run.unsent) = run.unsent[i]
    BY <2>1, <2>2, MessageLeaves DEF AlertsInv
  <2>4. Waits(Head(run.unsent))
    BY <2>2, <2>3 DEF AlertsInv
  <2>5. QED
    BY <1>2, <2>1, <2>4 DEF Waits
<1>3. QED
  BY <1>1, <1>2

\* The alerts' variables keep their types, for any alerts, figures and failures.
THEOREM AlertsTypeCorrect == AlertsSpec => []AlertsTypeOK
<1>1. AlertsInv => AlertsTypeOK
  BY DEF AlertsInv
<1>2. QED
  BY <1>1, AlertsInitially, AlertsStep, PTL DEF AlertsSpec

\* The owner is told of every change of an alert, and told once, unless a message was lost.
THEOREM AlertsToldOnce == AlertsSpec => ToldOnce
<1>1. AlertsInv /\ [AlertsNext]_alertVars => AlertsInv'
  BY AlertsStep
<1>2. AlertsInv /\ AlertsInv' /\ [AlertsNext]_alertVars
      => [/\ run' = None => \A a \in Alerts \ missed' : heard'[a] = known'[a]
          /\ \A a \in Alerts \ missed : ~Repeats(a)]_alertVars
  BY ToldStep
<1>3. QED
  BY <1>1, <1>2, AlertsInitially, PTL DEF AlertsSpec, ToldOnce
=============================================================================
