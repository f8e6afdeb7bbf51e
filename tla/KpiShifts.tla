-------------------------------- MODULE KpiShifts --------------------------------
(***************************************************************************)
(* The shifts of a store in the KPI database: sellers and managers enter,  *)
(* correct and archive them, and a manager imports a month from a          *)
(* workbook, first as a dry run whose outcome is kept, then by committing  *)
(* that run.  Every request is served by one process over PostgreSQL at    *)
(* its default isolation: a transaction sees what is committed whenever it *)
(* reads, and reads without a lock.                                        *)
(*                                                                         *)
(* A transaction's writes are one step, at its commit: the unique index    *)
(* makes others wait for the rows it inserts, and nobody sees them before. *)
(***************************************************************************)
EXTENDS Absent, Integers, FiniteSets

CONSTANTS
    Requests,   \* requests under way
    Slots,      \* canonical identities: an employee, a date and a part of the day
    Values,     \* everything else a shift says
    MaxShifts,  \* bound: shifts ever entered
    MaxRuns,    \* bound: import runs
    MaxFaults   \* bound: deaths and failed calls

ShiftIds == 1 .. MaxShifts
RunIds == 1 .. MaxRuns

\* A workbook, known by its checksum: the rows it has, one per slot.
Workbooks == [slots : SUBSET Slots \ {{}}, value : Values]

\* A row of the table of shifts.  origin is the slot an imported shift had when it came
\* (original_imported_input_json), run the import it came with.
Rows == [slot : Slots, value : Values, archived : BOOLEAN,
         run : RunIds \union {None}, origin : Slots \union {None}]

\* pass: the dry run found no error and its rows are kept.
Runs == [book : Workbooks, pass : BOOLEAN,
         status : {"VALIDATING", "IMPORTING", "COMPLETED", "FAILED"}]

Underway ==
    [kind : {"update"}, id : ShiftIds, patch : Rows]
    \union [kind : {"archive"}, id : ShiftIds]
    \union [kind : {"preview", "importing", "import", "failed"}, run : RunIds]

ASSUME KpiAssumption ==
    /\ MaxShifts \in Nat /\ MaxRuns \in Nat /\ MaxFaults \in Nat
    /\ None \notin Rows \union Runs \union RunIds

VARIABLES
    shifts,     \* id -> None or its row
    shown,      \* id -> the row as the last audit record with a new value shows it
    runs,       \* id -> None or the import run
    request,    \* per request: None or what it is about to do, with what it has read
    kpiFaults

kpiVars == <<shifts, shown, runs, request, kpiFaults>>

KpiInit ==
    /\ shifts = [i \in ShiftIds |-> None]
    /\ shown = [i \in ShiftIds |-> None]
    /\ runs = [r \in RunIds |-> None]
    /\ request = [q \in Requests |-> None]
    /\ kpiFaults = 0

KpiFault == kpiFaults < MaxFaults /\ kpiFaults' = kpiFaults + 1

Then(q, op) == request' = [request EXCEPT ![q] = op]

Active(i) == shifts[i] # None /\ ~shifts[i].archived

\* The unique index business_kpi_active_shift_identity.
Free(slot, except) == \A i \in ShiftIds \ except : Active(i) => shifts[i].slot # slot

\* The next n ids; any that are new would do.
Fresh(n) ==
    LET new == {i \in ShiftIds : shifts[i] = None} IN
    {i \in new : Cardinality({j \in new : j < i}) < n}

-----------------------------------------------------------------------------
(* Shifts entered by hand.                                                  *)

\* createShift: the shift and its audit record, unless the slot is taken.
CreateShift(q, slot, value) ==
    LET Row == [slot |-> slot, value |-> value, archived |-> FALSE, run |-> None, origin |-> None] IN
    /\ request[q] = None /\ Free(slot, {})
    /\ \E i \in Fresh(1) :
          /\ shifts' = [shifts EXCEPT ![i] = Row]
          /\ shown' = [shown EXCEPT ![i] = Row]
    /\ UNCHANGED <<runs, request, kpiFaults>>

\* updateShift reads the shift, without a lock, and works out the new one from it: the
\* fields of the patch, slot or value, and the rest as it was.
ReadForUpdate(q, i, slot, value) ==
    /\ request[q] = None /\ Active(i)
    /\ Then(q, [kind |-> "update", id |-> i,
                patch |-> [shifts[i] EXCEPT !.slot = slot, !.value = value]])
    /\ UNCHANGED <<shifts, shown, runs, kpiFaults>>

\* A mistaken update: an archived shift is written like any other.
WriteUpdateAny(q) ==
    LET op == request[q] IN
    /\ op # None /\ op.kind = "update"
    /\ Free(op.patch.slot, {op.id})
    /\ shifts' = [shifts EXCEPT ![op.id] = [op.patch EXCEPT !.archived = @ \/ ~Active(op.id)]]
    /\ shown' = IF Active(op.id) THEN [shown EXCEPT ![op.id] = op.patch] ELSE shown
    /\ Then(q, None)
    /\ UNCHANGED <<runs, kpiFaults>>

\* UPDATE ... WHERE archived_at IS NULL, the audit record and the commit.  The transaction
\* is rolled back when the slot is taken, or a call fails.  For a shift that was archived
\* meanwhile the statement finds no row: without effective settings an audit record that
\* shows no new value is committed, with them the snapshot fails on the missing shift.
WriteUpdate(q) ==
    LET op == request[q] IN
    /\ op # None /\ op.kind = "update"
    /\ \/ /\ Active(op.id) /\ Free(op.patch.slot, {op.id})
          /\ shifts' = [shifts EXCEPT ![op.id] = op.patch]
          /\ shown' = [shown EXCEPT ![op.id] = op.patch]
          /\ UNCHANGED kpiFaults
       \/ /\ ~Active(op.id) \/ ~Free(op.patch.slot, {op.id})
          /\ UNCHANGED <<shifts, shown, kpiFaults>>
       \/ KpiFault /\ UNCHANGED <<shifts, shown>>
    /\ Then(q, None)
    /\ UNCHANGED runs

\* archiveShift reads the shift like updateShift does.
ReadForArchive(q, i) ==
    /\ request[q] = None /\ Active(i)
    /\ Then(q, [kind |-> "archive", id |-> i])
    /\ UNCHANGED <<shifts, shown, runs, kpiFaults>>

\* The row as it is now is archived; of two requests the second finds none and records that.
WriteArchive(q) ==
    LET op == request[q]
        Row == [shifts[op.id] EXCEPT !.archived = TRUE] IN
    /\ op # None /\ op.kind = "archive"
    /\ \/ /\ Active(op.id)
          /\ shifts' = [shifts EXCEPT ![op.id] = Row]
          /\ shown' = [shown EXCEPT ![op.id] = Row]
          /\ UNCHANGED kpiFaults
       \/ ~Active(op.id) /\ UNCHANGED <<shifts, shown, kpiFaults>>
       \/ KpiFault /\ UNCHANGED <<shifts, shown>>
    /\ Then(q, None)
    /\ UNCHANGED runs

-----------------------------------------------------------------------------
(* The import of a workbook.                                                *)

\* updateImportRun: it reads the run and writes it back whole with the new status, and
\* every other column it may write back stale is one nobody looks at any more.
SetStatus(r, status) == runs' = [runs EXCEPT ![r].status = status]

\* The unique index business_kpi_import_source_once: no run but the given one has brought
\* this workbook.
NotImported(book, except) ==
    \A r \in RunIds \ except :
        runs[r] # None /\ runs[r].status = "COMPLETED" => runs[r].book # book

\* dryRun: a workbook that was imported is answered with its run, another gets a new run,
\* which cannot be committed before its outcome is kept (PENDING, then VALIDATING).
DryRun(q, book) ==
    /\ request[q] = None
    /\ NotImported(book, {})
    /\ \E r \in RunIds :
          /\ runs[r] = None /\ \A s \in RunIds : s < r => runs[s] # None
          /\ runs' = [runs EXCEPT ![r] = [book |-> book, pass |-> FALSE, status |-> "VALIDATING"]]
          /\ Then(q, [kind |-> "preview", run |-> r])
    /\ UNCHANGED <<shifts, shown, kpiFaults>>

\* The shifts there are and the workbook are compared and the outcome is kept; a workbook
\* may have errors of its own, or be no workbook at all.
Preview(q) ==
    LET op == request[q] IN
    /\ op # None /\ op.kind = "preview"
    /\ \/ \E clean \in BOOLEAN :
             runs' = [runs EXCEPT ![op.run].pass =
                         clean /\ \A s \in runs[op.run].book.slots : Free(s, {})]
          /\ UNCHANGED kpiFaults
       \/ SetStatus(op.run, "FAILED") /\ UNCHANGED kpiFaults
       \/ KpiFault /\ UNCHANGED runs
    /\ Then(q, None)
    /\ UNCHANGED <<shifts, shown>>

\* commit reads the run: it must be one whose dry run found no error.
Commit(q, r) ==
    /\ request[q] = None
    /\ runs[r] # None /\ runs[r].status = "VALIDATING" /\ runs[r].pass
    /\ Then(q, [kind |-> "importing", run |-> r])
    /\ UNCHANGED <<shifts, shown, runs, kpiFaults>>

\* The run is marked, whatever it is by now; a failure here ends the request.
MarkImporting(q) ==
    LET op == request[q] IN
    /\ op # None /\ op.kind = "importing"
    /\ \/ SetStatus(op.run, "IMPORTING") /\ UNCHANGED kpiFaults
          /\ Then(q, [op EXCEPT !.kind = "import"])
       \/ KpiFault /\ UNCHANGED runs /\ Then(q, None)
    /\ UNCHANGED <<shifts, shown>>

\* The rows of the book at the given slots, each under a new id.
Inserted(r, slots) ==
    \E at \in [Fresh(Cardinality(slots)) -> slots] :
       LET Row(i) == [slot |-> at[i], value |-> runs[r].book.value, archived |-> FALSE,
                      run |-> r, origin |-> at[i]]
           Added(rows) == [i \in ShiftIds |-> IF i \in DOMAIN at THEN Row(i) ELSE rows[i]] IN
       /\ {at[i] : i \in DOMAIN at} = slots
       /\ shifts' = Added(shifts) /\ shown' = Added(shown)

\* A mistaken import: a shift that exists is passed over (ON CONFLICT DO NOTHING).
ImportFreeRows(q) ==
    LET op == request[q] IN
    /\ op # None /\ op.kind = "import"
    /\ \/ /\ NotImported(runs[op.run].book, {op.run})
          /\ Inserted(op.run, {s \in runs[op.run].book.slots : Free(s, {})})
          /\ SetStatus(op.run, "COMPLETED")
          /\ Then(q, None)
       \/ UNCHANGED <<shifts, shown, runs>> /\ Then(q, [op EXCEPT !.kind = "failed"])
    /\ UNCHANGED kpiFaults

\* importExcelShiftsBulk: every row with its audit record and the run's COMPLETED in one
\* transaction, or nothing, when a slot is taken, another run brought the workbook, an
\* employee has left, the sums do not agree or a call fails.  When only the answer to COMMIT is lost all of it is there.
Import(q) ==
    LET op == request[q]
        slots == runs[op.run].book.slots IN
    /\ op # None /\ op.kind = "import"
    /\ \/ /\ NotImported(runs[op.run].book, {op.run}) /\ \A s \in slots : Free(s, {})
          /\ Inserted(op.run, slots)
          /\ SetStatus(op.run, "COMPLETED")
          /\ \/ Then(q, None) /\ UNCHANGED kpiFaults
             \/ Then(q, [op EXCEPT !.kind = "failed"]) /\ KpiFault
       \/ /\ Then(q, [op EXCEPT !.kind = "failed"])
          /\ UNCHANGED <<shifts, shown, runs, kpiFaults>>

\* commit's catch block: the run has failed, whatever it is by now.
MarkFailed(q) ==
    LET op == request[q] IN
    /\ op # None /\ op.kind = "failed"
    /\ \/ SetStatus(op.run, "FAILED") /\ UNCHANGED kpiFaults
       \/ KpiFault /\ UNCHANGED runs
    /\ Then(q, None)
    /\ UNCHANGED <<shifts, shown>>

\* The process dies with its requests, and their transactions are rolled back.
KpiDies ==
    /\ KpiFault
    /\ request' = [q \in Requests |-> None]
    /\ UNCHANGED <<shifts, shown, runs>>

KpiNext ==
    \/ \E q \in Requests :
          \/ \E slot \in Slots, value \in Values :
                \/ CreateShift(q, slot, value)
                \/ \E i \in ShiftIds : ReadForUpdate(q, i, slot, value)
          \/ \E i \in ShiftIds : ReadForArchive(q, i)
          \/ WriteUpdate(q) \/ WriteArchive(q)
          \/ \E book \in Workbooks : DryRun(q, book)
          \/ \E r \in RunIds : Commit(q, r)
          \/ Preview(q) \/ MarkImporting(q) \/ Import(q) \/ MarkFailed(q)
    \/ KpiDies

KpiSpec == KpiInit /\ [][KpiNext]_kpiVars

-----------------------------------------------------------------------------
KpiTypeOK ==
    /\ shifts \in [ShiftIds -> Rows \union {None}]
    /\ shown \in [ShiftIds -> Rows \union {None}]
    /\ runs \in [RunIds -> Runs \union {None}]
    /\ request \in [Requests -> Underway \union {None}]
    /\ kpiFaults \in 0 .. MaxFaults

\* The last value the audit log shows of a shift is the shift's: whoever corrects a shift
\* from what he read before another corrected or archived it, the log tells what became of
\* it, and an archived shift stays as it was archived (updateShift, archiveShift).
AuditShowsShift == shifts = shown

\* The slots whose rows came with an import.
Came(r) == {shifts[i].origin : i \in {j \in ShiftIds : shifts[j] # None /\ shifts[j].run = r}}

\* An import brings every row of its workbook or none, also when shifts are entered between
\* its dry run and its commit or two requests commit it, and a run that is COMPLETED has
\* brought them (importExcelShiftsBulk).
ImportsWhole ==
    \A r \in RunIds : runs[r] # None =>
        /\ Came(r) \in {{}, runs[r].book.slots}
        /\ runs[r].status = "COMPLETED" => Came(r) = runs[r].book.slots

\* docs/business-kpi/README.md: a critical commit error rolls every shift back while the run
\* remains FAILED.  So a FAILED run has brought no shift.
FailedImportedNothing ==
    \A r \in RunIds : runs[r] # None /\ runs[r].status = "FAILED" => Came(r) = {}
=============================================================================
