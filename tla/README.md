# A verification of the AI-Ecosystem-Sergey repository

TLA+ models of the parts of this repository that keep state across failures, concurrent requests
and retries, and of the decisions its purchasing pipeline takes; the TLC runs that check them on
small instances; and TLAPS proofs of safety properties for every instance. Paths below are relative
to the repository (`src/` in `PROJECT.json`).

The purchasing backend:

- `OwnerRuleStatus`: switching a purchasing rule on and off, with its audit journal;
  `AuditTrail`: what that service promises, without files or failures.
- `RegistryLock`: the write lock of the rule registry and the save it protects.
- `RuleMaterialization`: how a learned candidate becomes a rule.
- `LearnedRules`: which candidates the history of decisions yields, and which are eligible.
- `RuleHealth`: what is recorded of a rule's effects and what the pages say of it.
- `PurchasingRuns`: a run, from the upload to its retention.
- `OrderLine`: a row of the report on its way to a line of the order.
- `ApprovedRules`: the owner's rules in a calculation, and the forecast before a rule is switched.
- `BudgetCut`: cutting an order to a budget.
- `MatrixDraft`, `OwnerWords`: a row's item in the draft assortment matrix, and the owner's standing
  words put on the draft.
- `ReviewTriage`, `OrderReview`: the questions a run puts to the owner, his decisions, the final
  order and the supplier's file.
- `PurchasingPage`: the page in the owner's browser and the answers it waits for.

The other programs:

- `OrderPayments`, `PaidCart`: an order of the shop, its payment, shipment and letters; the cart.
- `PersonalReminders`: reminders of personal tasks and the ledger of what was sent.
- `ArthurDialogue`: the owner's messages, offers and commands.
- `KpiShifts`, `SellerTasks`, `KpiAlerts`: shifts and workbook imports, sellers' tasks, warnings to
  the owner.

`Absent` declares the one value that stands for nothing. `MC*.tla` are instances that TLC runs;
`*_proofs.tla` hold the theorems: about the module whose name they carry and its neighbours
(`RuleMaterialization_proofs` also about `RuleHealth`, `PurchasingRuns_proofs` about
`PurchasingPage`), about the pipeline (`Pipeline_proofs`), and about the programs `Shop`,
`BusinessKpi` and `Arthur`.

## 1. Inventory

The repository has 1348 files. Most of its JSON is data and fixtures and a third of its JavaScript
is tests. The programs are these.

| Part | State it keeps | Operations | Meets the others through |
|---|---|---|---|
| **Purchasing web backend** (`apps/purchasing-web-backend`) | run directories, upload directories, one in-memory run lock, the owner's files below | `POST /runs`, reads, owner decisions, final order, supplier file, candidate lifecycle, materialization, rule previews and status changes, startup cleanup | calls the purchasing pipeline in process; shares the owner's files with CLI scripts |
| **Its page** (`public/app.js`) | the table, filter and cards shown; requests under way | open a run, filter, decide, simulate a budget | HTTP to the backend |
| **Owner rules** (`agents/purchasing/owner_learning`) | `owner-approved-rules.json` and its lock, candidate lifecycle, materialization journal, status journal, transition intents, previews, history of decisions, effectiveness journal | approve a proposal, materialize, preview, switch, repair; learn candidates; record effects, judge rules | called by the backend, by a run, and by scripts, in several processes |
| **Purchasing pipeline** (`agents/purchasing/services`, ...) | none | report in, order out: matching, demand, policy, matrix, owner's orders, guards, approved rules, budget | one call inside a run |
| **Review** (`review_triage`, `owner_review`, `services/final_order.js`, ...) | owner decisions and their backups | triage, save a decision, final order, supplier file | inside a run, and by the backend's handlers |
| **Matrix builder, parsers, adapters** | none (write files once) | workbook conversion, heuristics | offline CLI; adapters inside a run |
| **Order requests and payments** (`apps/vozdooh-commerce`) | one JSON record per order, outboxes of letters | submit, begin a payment, reconcile, ship, send letters | a web process and a worker on one directory; the payment provider, the carrier, SMTP |
| **Its cart** | cart, snapshot and pending orders in the browser's storage | edit, submit, clean up after payment | tabs that share the storage |
| **Arthur core** (`agents/arthur-core`) | PostgreSQL: tasks, confirmations, ledger of personal notifications, audit | task transitions, confirmations, claim/finish/retry of notifications | Arthur's skills over HTTP; schedulers |
| **Arthur v1** (`agents/arthur-v1`) | update offset, offers and dialogue context in memory | Telegram polling, understanding, skills, schedulers | Telegram, Arthur core, n8n, mail, the KPI web app |
| **Business KPI** (`agents/business-kpi`, `apps/business-kpi-web`) | PostgreSQL: shifts, audit, import runs, task proposals, plans, sessions, alerts | forms, workbook import, planner of tasks, reports, alerts | sellers' and managers' browsers; Arthur's KPI skill |
| **1C receivers, shop fronts** (`apps/stores-web`, `apps/vozdooh-web`, ...) | imported catalogues; none of their own | receive exports, pages | read catalogues, call the commerce API |
| **Shared code, tools, deployment** (`shared`, `scripts`, `deploy`, `docker`, `n8n`) | the developer worker's lock and queue files | Excel, JSON, reports, developer tools | - |

Which behaviours are hard, and what makes each part correct:

- **Rule status.** A change touches the registry, the audit journal and an intent file, and no
  transaction spans them. The process may die between any two, each write may fail alone or fail
  after it took effect (the directory sync follows the rename), and other processes write the same
  registry. *Correct*: no change without an audit entry in the end, no entry without a change, no
  change lost; an answer of success is true.
- **Registry lock.** A lock file in a shared directory, with age, process ids and reclaiming.
  *Correct*: mutual exclusion however old the lock is and whoever reclaims it; a dead process's
  lock is not held for ever.
- **Materialization.** Registry and journal are written one after the other; between a crash and
  the owner's next attempt the candidate can be withdrawn and approved again, which changes the
  identity of the rule that would be made. *Correct*: one rule per candidate, a journal that agrees
  with the registry, approvals that were given.
- **Learning.** Shares, ages and counts with many thresholds, some written twice. *Correct*: a rule
  is offered because the owner decided so; two pages do not contradict each other on a rule.
- **Runs.** Groups of files are published one by one, `run.json` last; each write may fail, the
  error path removes what was written and may fail too, the process may die anywhere, and startup
  cleanup deletes directories by what it reads. *Correct*: what a client was told of stays whole; a
  failed run shows no result; the run lock never stays behind.
- **Pipeline.** Ten steps may each change a row's decision or quantity, and each trusts what the
  ones before it left. *Correct*: nothing is bought on an unknown stock, a policy's bounds hold,
  the owner's standing order is carried out, a demand is answered or asked about; an approved rule
  only takes away, and does what its forecast said.
- **Review.** The counters, the triage, the final order and the file are computed by four pieces of
  code from one memory of decisions, which is a file with backups. *Correct*: an acknowledged
  decision survives a crash and a damaged file; the file is what the owner decided; what the order
  waits for is asked of him.
- **Page.** Answers overtake each other or are lost. *Correct*: a decision goes to the row the owner
  saw; at rest, the tab of rows to decide is right.
- **Orders and payments.** The web process and the worker read a record, wait for the provider or
  carrier, and replace the whole record. *Correct*: nothing is shipped unpaid, a paid order is
  announced, a cart loses the paid units and no later ones.
- **Reminders.** Leases that run out while the sender is waiting, two schedulers, a reminder moved
  meanwhile, a command delivered twice. *Correct*: one lease at a time; what is due is sent.
- **Dialogue.** Telegram delivers again what was not confirmed; a restart forgets the offers; a call
  that timed out may still be carried out. *Correct*: no task twice, an offer used once, every
  message handled.
- **KPI.** Read and update are two statements without a row lock; an import's check and its commit
  are apart; alerts are stored as sent before they are. *Correct*: the audit shows every shift; an
  import is whole or nothing; a seller has a task once; the owner hears of a change once.

The hazards are listed one by one, with their lines and the properties that cover them, in
`PROJECT.json` ("hazards").

## 2. Plan

Built, in the order of importance; *proved* is what section 6 has a theorem for:

1. `OwnerRuleStatus`, refining `AuditTrail`. *Proved*: no audit entry lost, none invented, no status
   change undone, no other writer's rule undone, intents deleted by their own request only, an
   answer that names an event true, and the refinement.
2. `RegistryLock`, the detail under the compare-and-swap that 1 and 3 take as one step. *Proved*:
   mutual exclusion and the compare-and-swap.
3. `RuleMaterialization`. *Proved*: all its safety properties.
4. `PurchasingRuns`. *Proved*: all its safety properties.
5. The order itself: `OrderLine`, `ApprovedRules`, `BudgetCut`, `ReviewTriage` with `OrderReview`.
   *Proved*: all that the run checks. `PurchasingPage` before them:
   *proved*: decisions reach the run shown, the tab of rows to decide is right.
6. `OrderPayments` and `PaidCart`. *Proved*: shipments are paid for; later units stay.
7. `PersonalReminders` and `ArthurDialogue`, which sends the commands. *Proved*: leases exclude each
   other; an offer is used once, a command makes no double.
8. `KpiShifts`, `SellerTasks` and `KpiAlerts`. *Proved*: audit and imports, one assignment, alerts
   told once.
9. `LearnedRules` and `RuleHealth`: what 3 starts from and what becomes of its rules. *Proved*: the
   two pages agree.
10. `MatrixDraft` and `OwnerWords`, before 5. *Proved*: the owner's word is heard, a draft item
    nobody is asked about is ready.

Left, the most useful first: confirmations of Arthur
core (left out because the columns its store writes are not in the migrations); the refusals of
materialized rules by a run, as a composition of 3, `LearnedRules` and `ApprovedRules` over real item
keys (see section 5); the page's learning centre.

## 3. The models and the code

The models of the backend's files have one action per file operation: Node's synchronous `fs` calls
are the steps between which the process can die and other processes run, while JavaScript runs a
handler without yielding unless it awaits. `Fault` (`FileFault` in `RuleMaterialization`) draws
crashes and failed operations from a budget. A write in this code is *write a temporary file, sync,
rename, sync the directory*; it throws before the rename (nothing happened) or after it (the write
happened), and a failing write action has both outcomes. A crash keeps the order of completed
operations: the death of the process is modelled, not a power loss that undoes unsynced renames.

Models over PostgreSQL have one action per statement or, where nothing but an index relates a
transaction to others, one at its commit. Models of clients have one action per click, request
and answer; a request whose answer is lost may have been carried out.

### OwnerRuleStatus (`owner_rule_status_service.js` and the stores it uses)

| Code | Model |
|---|---|
| `owner-approved-rules.json` | `registry`: each rule's status and `updatedAt`, the number of other rules |
| registry fingerprint | the registry's content itself |
| `owner-learning-rule-status-events.json` | `journal`, the set of events |
| transition intent of a rule; `intentId`, a digest of the event | `intent[r]`, the event |
| cleanup claim file of an intent | membership in `cleanup` |
| activation previews | `previews`; `createdAt` stands for the previewId |
| `changeStatus`, in its order | `StartChange`, `UsePreview`/`RefusePreview`, `PersistIntent`, `SaveRegistry`/`LoseRegistry`/`FailRegistry`, `LoadJournal`, `WriteJournal`, then the deletion |
| `deleteStatusTransitionIntent` | `ClaimCleanup`, `VerifyIntent`, `UnlinkIntent`, `ReleaseCleanup` |
| `repairAlreadyChanged` | `LoadEvents`, `Repair`, then journal and deletion as above |
| `previewRuleStatusChange` | `PreviewStatusChange` (its forecast is in `ApprovedRules`; its verdict is here the free choice between `UsePreview` and `RefusePreview`) |
| `materializeCandidateRule`, `approveProposal` of another process | `Materialize`, `ApproveProposal` |

The clock does not go backwards, and advances while a preview is computed. `changes` is
bookkeeping: the status changes the registry has really taken. `saveApprovedRules` is one
compare-and-swap here, which is what `RegistryLock` establishes.

`LockRemovalCanFail` says whether unlinking the registry's lock file may throw after the rename.
It is FALSE in the passing runs and in the theorems, because with TRUE the properties fail: that is
the finding of the run `rule_status_unavailable`.

`AuditTrail` is the promise without files: a rule changes, the change is unrecorded, the change is
recorded, and only then the rule may change again. The refinement maps the status to the
registry, the log to the journal, and `unrecorded[r]` to the rule's change the journal lacks.
It fails if a change could be lost, recorded twice under two names, invented, or overtaken.

### RegistryLock (`owner_rule_registry.js`, `acquireRegistryWriteLock` to `saveApprovedRules`)

`lock` is the lock file: its random `lockId`, the pid, whether its JSON is complete and whether it
is older than `lockStaleMs` (`LockAges` may make it so at any time, so a slow live holder is
covered). `reclaims` are the claim files `<lock>.reclaim-<hash of lockId>`. The acquisition is the
loop of the code: `OpenLock` (`O_EXCL`), `WriteLock`, or `InspectLock`, `ProbeOwner`
(`process.kill(pid, 0)`), `ClaimReclaim`, `VerifyLock`, `ReprobeOwner`, `UnlinkStale`,
`ReleaseReclaim`, and `Retry`/`TimeOut`. Holding the lock: `CheckFingerprint`, `RenameRegistry`,
`ReleaseLock`, `UnlinkLock`. Processes die (`Die`) and restart under another pid (`Restart`);
with `PidReuse` a new process may get the pid that an old lock names.

The removals `UnlinkStale` and `UnlinkLock` remove *whatever file is there by then*, as unlink(2)
does: that it is the right one is what `HolderOwnsLock` says. All processes see one process table:
on hosts or containers with different pid namespaces a live holder would look dead and the
exclusion would not hold. The markdown report, which the code publishes after it has released the
lock, is not modelled: of two saves the earlier one may publish its report last.

### RuleMaterialization (`owner_rule_materialization_service.js`, lifecycle and journal)

`lifecycle[c]` is the sequence of statuses the candidate's events gave it; an approval is named by
its position, which stands for its `eventId`. `materializationId` and `ruleId` are digests of
candidate and approval, so `Materialization` is that pair. `Materialize` reads candidate, lifecycle,
journal and registry and decides between *already recorded*, *rule without record: repair* and
*new rule*; `SaveRule` is `saveApprovedRules`; `AppendEntry` writes the journal entry, which a
duplicate prevents. `HistoryChanges` lets the decision history change its mind about a candidate
at any time (which minds it can have is `LearnedRules`' matter), and `ApproveProposal` is another
process's write of the registry.

### LearnedRules and RuleHealth (`owner_decision_history_analytics.js`, `owner_learning_confidence.js`, `owner_rule_candidate_ranking.js`, `owner_rule_effectiveness*.js`, `owner_knowledge_health.js`)

Candidates are computed from the history whenever they are asked for, so they are operators:
`Patterns` (the analytics), `Components` and `ConfidenceScore`, `Candidate` with `Eligibility` and
`PriorityScore`. The scores are the code's, point for point; a share is a pair of numbers and is
compared by cross-multiplication, never rounded. `Decide` appends to the history, `DaysPass` lets
it age. In `RuleHealth`, `Record` is what one run in mode APPLY_SAFE appends to the effectiveness
journal; `Class` is the effectiveness page's verdict and `Health` the health page's, from `Findings`.

### PurchasingRuns (`run_handlers.js` `createRun`, `storage/`, `server.js`)

One request is `Accept` (the run lock), `Upload`, `CreateRun`, `Orchestrate` (the pipeline, which
returns or throws), `Learn`, `WritePart` for each part of the payload, `Complete` (`run.json`),
`Triage`, and `Finally`. An error goes through `Undo` (`removePublishedPayload` in
`saveCompletedRun`), `Clear` and `SaveFailed` (`saveFailedRun`). Removal takes one file at a time
and may stop half-way. `Crash`, `Start`, `SweepRun`, `Listen` are death and restart with
`cleanupExpiredRuns` and `cleanupStaleUploads`; `Expire` lets the retention period of a run pass.
`published` are the runs a client was answered 201 for.

The model shows, and no property forbids, because the documentation does not: a crash leaves a run
`processing` for ever; failed runs are never cleaned up; a run that failed stays in the learning
history; a failing removal of the upload turns the 201 of a completed run into an error.

### OrderLine (the steps of `purchasing_run_orchestrator.js` that touch a row)

One behaviour is one row's way; every action is one step of the pipeline, in its order:
`ApplyMinMaxSafetyGuard`, `BuildDemandPlan`, `ApplyAssortmentPolicyToProducts`, the decision with
`ApplyAssortmentMatrixControl`, `ApplyVerifiedOwnerTestPolicy`, `ApplyActiveOwnerOrderDecision`,
`Guard`, `BuildWorkingOrder`. What the row is matched to (a policy rule, a row of the matrix, an
order of the owner, or several) is chosen when the step that looks it up takes place. Blank and
negative cells, unknown stock and short sales histories are values of the columns.

### ApprovedRules, BudgetCut

`ProcessApprovedRules` is `approved_rule_preview.js`, `rule_application_engine.js`,
`approved_rule_application.js` and `financial_recalculation.js` in one call, with each way it falls
back to the baseline; `PreviewRuleStatusChange` takes the rules back out of the published result and
calculates again, and `SwitchRule` is what the forecast was about. `BudgetCut` is
`optimizePurchasingBudget`: ranks of lines, `SkipGroup`, `CutWholeGroup`, `StartReduceGroup`,
`ReduceLine`, `EndReduceGroup`.

### MatrixDraft and OwnerWords (`agents/purchasing/matrix_builder`)

A behaviour of `MatrixDraft` is one row of the supplier's report on its way into the draft:
`CalculateStockPolicy`, `ClassifyRole`, `BuildDraftItem`, `ValidateDraftItem`. Averages are fractions
and compared exactly; a week that cannot be read is None. `ValidConfig` is what the builder checks of its
configuration; units and weeks of cover are whole in the model, which the code does not ask for.
`OwnerWords` has two steps over a whole draft, `ApplyOwnerDecisions` (lookup of the word that counts for a row, by the keys of its product,
and what it does to the item) and `BuildOwnerReviewModel` (the lists put before the owner).
The keys of a row are a function from positions: its own first, in the order they are tried, then the
old row numbers of its product in the order of the memory.

### ReviewTriage and OrderReview

`ReviewTriage` has no state: operators from the readings of a row to its signals, blockers, category
and question, and from a run to its packages. `OrderReview` adds the memory of decisions.
`SaveDecision` runs through `RotateBackup`, `AtomicWrite` and `RecordHistory`, and a crash or failure
may come at each; one that comes during the rotation leaves no copy, a part of one that does not parse,
or a whole one with the oldest backups not yet removed (`CutRotation`). `Damage` spoils the main file
between two requests, which is what the backups are for. `BuildSupplierOrderFile` is the export. The decorated row, the counters and the final
order (`ClassifyItem`) are operators on the memory, as the code computes them anew for each request.

### PurchasingPage (`public/app.js`, the part that opens a run and decides rows)

Requests under way are `loads` (the table), `saves`, `refreshes` (the cards) and `simulations`; each
answer is taken when it comes, in any order, and `Loses` drops one. The table is fetched page by page
and decisions may change between two pages. `resolved`, `timers`, the request sequence and the
`disabled` flags are the code's.

### OrderPayments and PaidCart (`apps/vozdooh-commerce`)

A checkout page is `Submit`, `Receipt`, `BeginPayment`, `CreatePayment`, `StorePayment`, `Pay`; `GetOld`
lets a payment pass 24 hours. The worker's round is `ListOrders`, `Reconcile`, `Ask`, `Confirm` with
its write and mail, `Notify`, `CreateDelivery` with `KeyWrite`, `CreateShipment` and what follows, `SendLetter`
and `EndTick`. Both hold a copy of the record across their calls and replace it whole. `WorkerDies`
and `WebDies` end them anywhere, and a failed call may have had its effect.

`PaidCart` is the browser's storage: `AddLine`, `SetLineQuantity`, `ClearCart` (and `WriteCart`, which
reduces the snapshots), the submission `Capture`, `Select`, `Accept`, `Bind`, `Reload`, and the
background check `Pending`, `Sync`, `CleanPaid`. Units are counted: `gone` and `upTo` say which
units were there when an order was submitted.

### PersonalReminders and ArthurDialogue

`RunTick`, `Claim`, `Send`, `Finish`, `Retry` are a scheduler's steps between its calls to Arthur core
and Telegram; `TransitionTask` and `SetTaskReminder` are the owner's commands with their receipts;
`TimePasses` and `Die`. The key of a delivery is the reminder's time.

In `ArthurDialogue` the owner's `Write` is fetched by `GetUpdates`, understood as the answer to an
offer (`ChooseAndKeep`, `Choose`, `AnswerOnly`) or as a new command (`Anew`), carried out by `Read`
and a write that may be `Called`, fail, or be `CarriedOutLate`; `Lapse` ends an offer and `Restart`
forgets it. A plan of several tasks is one sequence of calls, as in the code. The skill looks for a double,
and for the task that is meant, among the first 200 active tasks by due date
(`arthur_core_skill.js:28,467`); the model looks among all, so it stands for an owner with no more than
200 active tasks, and says nothing of doubles beyond them.

### KpiShifts, SellerTasks, KpiAlerts

`CreateShift`, and an update or archiving in two steps, `Read...` and `Write...`, since the code reads
the row and updates it in two statements. `DryRun`, `Preview`, `Commit`, `MarkImporting`, `Import`,
`MarkFailed` are the steps of an import. `SellerTasks` has `Generate`, `CreateProposal`,
`AssignManual`, `Decide` and their writes; the unique indexes are the guards of the inserts.

`KpiAlerts` is Arthur's evaluation of the figures: `RunAlerts` reads them, `AddAlert` judges one
(`Judgement`, `ShouldSend`) and stores its state before anything is sent, `SendToOwner` sends what
was gathered. The code's fixed order of the alerts is any order here. `heard`, `known` and `missed`
are history: what the owner was told, what is stored, and whose message was lost.

### Instances that combine parts

Parts that share no state are checked in one run: `MCBackend`, `MCServers`, `MCServices` and
`MCPipeline` extend the modules of their parts (`LearnedRules` is instantiated) and have a variable `focus`, chosen initially, that says whose behaviour it is; the
others rest in their initial state (in `MCPipeline` at None), and the properties of one part are not
affected by another. This keeps the number of TLC runs small; it is no composition. Parts that do
interact are composed in their modules: web process and worker, page and backend, gateway and core,
schedulers and ledger, triage and final order, service and registry.

## 4. Runs

Numbers are distinct states.

| Run | Asks | Instance | States |
|---|---|---|---|
| `rule_status` | Does the service implement the audit trail, whatever two faults do, is no change without an entry or an intent, and is a missing entry written in the end? | 2 rules, 1 process, clock to 3, preview lifetime 2, 1 foreign rule, 2 faults | 174 358 |
| `servers_and_page` | What survives two backend processes on one directory? Does the page send decisions to the rows shown, and list those to decide? | 1 rule, 2 processes, clock to 4, 2 faults; table: 2 rows on pages of 1, 2 runs, 2 loads, 2 decisions, 1 loss; cards: 1 row, 1 run, 1 simulation | 3 749 817 |
| `rule_status_unavailable` | *finding* | 1 rule, 1 fault, the lock file may resist | - |
| `registry_lock` | Is the save a compare-and-swap and does a dead owner's lock go away? | 2 processes, 3 pids, 4 lockIds, 3 contents, 1 fault | 313 074 |
| `registry_lock_abandoned` | *finding* | the same | - |
| `backend` | Are published runs kept and the lock freed? One rule per candidate, and a repaired journal? When is a rule offered? Do the two pages agree on a rule? | 2 requests, 2 runs, 3 faults; 2 candidates, 3 events each, 1 foreign rule, 2 faults; 6 decisions of 3 kinds in 380 days; 2 rules, 5 effects, 2 switches in 366 days | 1 037 823 |
| `purchasing_run_publication` | *finding* | 2 requests, 2 runs, 2 faults | - |
| `services` | Shipments paid for and paid orders announced; carts cleaned of the right units; one lease, and what is due is sent; true audits, whole imports; one assignment; no doubles, offers used once, messages handled; alerts told once | 2 pages, 2 payments, 2 keys, 1 fault; 1 article, 2 orders, 2 units; 2 schedulers, clock to 4, lease 2, retry after 1; 2 requests, 2 slots, 2 shifts, 1 import; 2 owners, 1 task, 2 proposals, 1 death; 3 messages, 1 write given up, 1 restart; 2 alerts, 2 figures that call for a warning, 2 faults | 1 069 792 |
| `pipeline` | What a line's approval means; decisions kept and followed; the queues; the budget; the rules; is a draft item that nobody is asked about ready, and is the owner's word on it kept? | rows that differ from an ordinary one in 2 columns (3 with a blank stock); runs of 1 and 2 rows with 1 or 2 decisions, 2 backups, 1 fault, 1 damage; orders of 3 lines, every budget; 2 rows, 2 rules, 3 modes; draft rows that differ in 2 columns, 3 configurations; drafts of 2 rows with 1 or 2 words and 3 histories | 1 932 023 |
| `page_cards` | *finding* | 2 rows, 1 run, 2 decisions, 1 simulation, nothing lost | - |
| `order_review_undecided` | *finding* | runs of 2 rows, one blocked by its data | - |
| `kpi_import_failed` | *finding* | 2 requests, 1 import, no fault | - |

**The bounds.** Two rules (candidates, orders, schedulers, requests) suffice to see one disturb the
other; state is per rule, order or task. Clock values hold a preview, a change, a second preview and
its expiry; a claim, its end, a retry and a moved reminder. Two faults allow a crash that leaves
something behind and a second fault in the request that repairs it; three in `PurchasingRuns` a
failed publication, a failed undoing and a crash. Three lifecycle events are approve, withdraw,
approve again, the case that changes the ruleId. Four lockIds let each of two processes take the
lock, be reclaimed and take it anew. Two backups, one fault and one damage: with as many damages as
files the memory is lost by definition. Six decisions are the fewest that give three of a kind after
three of another; five effects are the threshold of runs without effect; 183 and 366 days lie beyond
the two ages; rules without a priced effect are left out of `backend` (with them `RuleHealth` alone was
explored, 463 110 states). In `pipeline` each input differs from an ordinary one in a few columns, which covers
every pair of special cases. `KpiShifts` was also explored alone with two import runs (1.3 million
states), and the page alone with both cards and a loss (0.67 million). All names with `Max` occur in
guards only; the theorems hold for all their values.

**Deadlock** is checked in `rule_status`, `servers_and_page`, `registry_lock` and their finding runs.
The other instances stop when their requests, inputs or bounds are used up.

**Fairness.**
- `OwnerRuleStatus`: a request that has begun goes on (`WF` on `Step`: synchronous code, no
  waiting), and the owner repeats the request for the status the rule has (`SF` on `Retry`), which
  is what the documentation asks for to repair a missing entry
  (`docs/purchasing-web-backend-v1.md:300`). The repair is of no use without it: nothing in the
  program retries by itself.
- `RegistryLock`: weak fairness for the steps of a save (`Acquire` or `Save`), for starting saves,
  for restarts and for the ageing of locks; strong fairness for `TimeOut`, since a waiter passes
  the deadline check in each round.
- `RuleMaterialization`: the owner repeats the request as often as the candidate permits it
  (`SF` on `Materialize`), and a request that has begun goes on.
- `PurchasingRuns`: a request goes on; the upload has a timeout, the rest is computation.
- `OrderPayments`: the worker goes round for ever (`WF` on `Tick`), and the delay of a letter that
  waits ends. Faults are bounded, so the provider and the mail server answer in the end.
- `PaidCart`: a visible page checks every 30 seconds (`WF` on `Sync`).
- `PersonalReminders`: time passes, and a scheduler ticks every minute and goes on.
- `ArthurDialogue`: the gateway's loop goes on, and every call has a timeout (`WF` on `Loop`).

**Two backend processes.** The journal is read, changed and replaced without a lock, so with two
backend processes one can drop the other's entry, and `AuditComplete` and the refinement are false.
The deployment binds the fixed port of localhost, so there is one (`docs/purchasing-web-backend-v1.md:36`);
the audit properties are stated and proved for it. `servers_and_page` checks what holds with two: no
invented entry and no status change undone. That a request deletes no intent but its own is proved
for any number (`IntentsDeletedExactly`).

`AbandonedLockReclaimed` needs `PidReuse = FALSE`: a dead process's lock whose pid a new process
got looks alive for as long as that process runs. Safety is proved for both.

## 5. Findings

Each is a run that TLC ends with a counterexample to what the repository says of itself. The lines
are quoted in `PROJECT.json` ("findings").

1. **`rule_status_unavailable`**: a registry whose lock file cannot be removed has been replaced, but
   the request deletes its intent and answers `RULE_REGISTRY_UNAVAILABLE`; the change is without an
   audit entry and cannot be repaired.
2. **`registry_lock_abandoned`**: a process that dies between creating the lock file and writing its
   JSON leaves a lock that is never reclaimed; so does a reclaimer that dies with its claim.
3. **`purchasing_run_publication`**: `run.json` is renamed into place, the directory sync throws, the
   payload is removed, and the process dies before `run.json` says `failed`: a completed run
   without its files is served until its retention ends.
4. **`order_review_undecided`**: nothing is left to decide by the counter and the tab, yet the review
   is not complete and the export stays refused, because a row blocked by its data counts for the
   final order (`services/final_order.js:163`) and not for the counter, whose predicate the comment
   at lines 22-28 calls the same.
5. **`kpi_import_failed`**: of two commits of one import both may pass the check; the second meets
   the shifts of the first and marks the run, all of whose shifts are in the table, `FAILED`
   (`workbook_import_service.js:399`; `docs/business-kpi/README.md:278` says such a run has none).
6. **`page_cards`**: of two answers about the final order the older one, coming last, stays on the
   page (`app.js:6412`), although the comment at line 6406 says page and server show the same.

### Observations

What the models, or the reading for them, showed and no document of the repository contradicts. They
are no runs; some are what the owner may want, and are listed because they are easily overlooked.

*Rules and learning.*
- "A status change of the rule is already being executed" (`owner_rule_status_service.js:295`) is
  answered while none is: an intent survives the death of its request, and a lost registry race
  keeps it deliberately. The owner's next attempt has a new preview, hence another intentId, and is
  refused, and so is every later one.
- A rule learned from the owner's decisions on the page is not found in any run. The decisions are
  recorded under `SUPPLIER:<X>:SKU:<Y>` (`owner_decision_identity.js:97-130`), the materialized rule
  keeps that key (`owner_rule_materializer.js:254`), and matching looks for keys that begin with
  `sku:`, `barcode:`, `row:` or `brand-name:` (`owner_learning_history.js:62-89`,
  `approved_rule_preview.js:84-115`), so the outcome is ITEM_NOT_FOUND. `ApprovedRules` takes the
  outcome of matching as an input and covers rules approved as proposals, whose keys agree.
- The confidence of a candidate is not monotone: a supporting decision can lower it by 5 points, a
  contrary one raise it by 5, where a share or an age crosses a threshold. `OfferedOnAgreement`
  holds nevertheless. A candidate may stay eligible when the owner's latest decisions contradict it,
  as long as they are a fifth of all; three decisions in one run are enough to make one.
- A rule's effects are recorded by the orchestrator (`purchasing_run_orchestrator.js:480`) before the
  run is published, also of a run that fails later; and a rule is evaluated in the runs of every
  supplier, so five runs of others' reports make it REVIEW_RECOMMENDED. A rule switched off after it
  had effects stays flagged.
- With the effectiveness journal and the status journal both unreadable, the overview of the
  learning centre shows the status journal as empty: its list of rules merges the warnings of its
  sources into one. With an unreadable lifecycle file it shows decided candidates as new and asks
  about them again.
- A decision is saved under the first of a row's keys that is unique in the run, and looked up by the
  first unique one that has a decision (`owner_decision_identity.js:123`,
  `owner_decision_service.js:434`). The two agree within a run. When a later run makes a preferred key
  unique, an older decision under it beats the newer one. `FileFollowsOwner` holds for earlier memories with
  the keys the run uses.
- The migration of old keys (`owner_decision_identity.js:425-468`) also moves a decision whose
  product name is not unique, when it is the only one of the name; the comment at lines 261-263
  speaks of unique names.
- In mode APPLY_SAFE (the default is PREVIEW) a learned SKIP or DEFER rule also takes away a row that
  the owner's active order decision put in. No precedence is documented.

*A run.* The catch of the history's loading names a `logger` that is not defined there, so a history that
cannot be read ends the run with another error. A partial OVERRIDE_POLICY that breaks min <= target <=
max makes every run fail. The builder reads `config.stock_policy.minimum_completed_weeks`, which no
configuration has, so it never reports policies without sufficient history. A BUY or SKIP whose rule is not
active still fills the owner's column of a row, so the triage answers that it is resolved.

*Review.* A copy that a dying process leaves unfinished counts as one of the five backups
(`safe_json_store.js:186-195`). Once the file is damaged, each save that ends between the rotation and the
write adds a copy of the damaged file, and the backups that parse are removed in the end: an answer of
success is then not enough for a decision to survive. `DecisionsSurvive` holds as long as a backup parses.

*Purchasing page.* A decision whose answer is lost is shown as not saved though it is stored, and
nothing is loaded again. In the tab of all rows, a table drawn while a save is under way stays as it
was. A late answer to a save in an old run overwrites the counters of the new one. The filter chosen
for the owner may replace one he picked meanwhile.

*Orders.* The customer's letter may be lost; payments older than 24 hours are not reconciled; the
worker looks at the 12 oldest orders of a round.

*Arthur.* A "finish task number n" that Telegram delivers twice finishes another task the second
time; a batch that moves and creates may create twice (`docs/arthur-telegram.md:229-233` admits
duplicates). Moving a `waiting` task always fails (`tasks/transitions.js:25`) and is answered
"temporarily unavailable".

*Business KPI.* An alert is stored as sent before it is sent (`kpi_automation.js:908`), so one that
is lost is not sent again until its figures change; its `cooldownMinutes` is not used. When the
forecast or the plan is absent, as after the turn of a month, a warning about the plan ends with the
message that the forecast is above the plan again (`kpi_automation.js:956,970`); the same holds of a
seller without KPI (`Judgement`). Rows from before the digests are to be compared by their data
(`kpi_automation.js:856-858`), but node-postgres returns their NUMERIC value as a string, which
equals no number (`deepEqual`), so such an alert is sent once more; the test's client returns numbers
(`kpi_automation_state_integration.test.js:235`). When the record of a daily report that was sent
cannot be written, the owner is told that its data was not available (`kpi_scheduler.js:174-205`).
The old value in an audit record may be one that another correction
has replaced already. Of an approval and a rejection of a seller's task the last one wins.

## 6. Proofs

| Module | Theorems | From |
|---|---|---|
| `OwnerRuleStatus_proofs` | `TypeCorrect`, `OtherWritersUndisturbed`, `IntentsDeletedExactly` | constants only |
| | `InductiveHolds`, `AuditNeverLost`, `AuditNeverInvented`, `StatusNeverLost`, `AnswersAreAudited`, `ServiceImplementsTrail` | one server, `~LockRemovalCanFail` |
| `RegistryLock_proofs` | `TypeCorrect`, `HolderKeepsLock`, `SavesAreCompareAndSwap` | constants only, with or without pid reuse |
| `RuleMaterialization_proofs` | `TypeCorrect`, `InductiveHolds`, `OneRule`, `JournalAgrees`, `OwnerApproved`, `ApprovalStandsAtCreation`; of `RuleHealth`: `HealthTypeCorrect`, `VerdictsNeverClash` | constants only |
| `PurchasingRuns_proofs` | `RequestsOnTrack`, `TypeCorrect`, `OnePipeline`, `PublishedStaysWhole`, `FailedShowsNothing`; of `PurchasingPage`: `PageTypeCorrect`, `DecisionsReachShownRun`, `TabIsTrue` | constants only |
| `Arthur_proofs` | `TypeCorrect`, `LeasesExclude`; of `ArthurDialogue`: `DialogueTypeCorrect`, `OffersUsedOnce`, `NoTaskDoubled` | constants only |
| `BusinessKpi_proofs` | `TypeCorrect`, `AuditTrue`, `ImportAllOrNothing`; of `SellerTasks`: `TasksTypeCorrect`, `AssignedOnce`; of `KpiAlerts`: `AlertsTypeCorrect`, `AlertsToldOnce` | constants only |
| `Shop_proofs` | `TypeCorrect`, `OnlyOwnUnits`; of `OrderPayments`: `OrdersTypeCorrect`, `ShippedOnlyPaid` | constants only |
| `Pipeline_proofs` | of `OrderLine`: `LineTypeCorrect`, `StockIsKnown`, `PolicyIsKept`, `OwnerDecides`, `NoDemandLost` | constants only |
| | of `ApprovedRules`: `RulesTypeCorrect`, `RulesNeverAdd`, `ForecastIsTrue` | constants only |
| | of `OrderReview`: `ReviewTypeCorrect`, `DecisionsAreKept`, `QueuesAlwaysAgree`, `FileIsTrue` | constants; for the last, an earlier memory that fits the run |
| | of `BudgetCut`: `CutTypeCorrect`, `BudgetIsKept` | constants only |
| | of `OwnerWords`: `OwnerIsHeard`; of `MatrixDraft`: `UnaskedIsReady` | constants only |

They hold for any numbers of rules, candidates, processes, orders, shifts, schedulers and faults and
any bounds. "Constants only" are the `ASSUME`s of the module, which TLC evaluates for the instances:
that `None` is no value, that bounds are naturals, and of the inputs what the code that reads them has
established before. `LineAssumption` says the rows of a report and the rules of the policy have their
fields, not which; `RulesAssumption` that a row's id is no key of another row;
`CutAssumption` that a simulation's lines are finitely many with positive prices (the simulator leaves
out others); `ReviewAssumption` that a run's items are finitely many, and they, the savings and
what is offered have their form; `DraftAssumption` that what is sold and in stock are
numbers or unknown; `WordsAssumption` that a draft has finitely many rows, its items their
fields, a word a day and no level but those of a policy;
`PageAssumption` that rows are finitely many and numbered; `DialogueAssumption` that messages are
commands and replies; `OrdersAssumption`, `TasksAssumption`, `AlertAssumption` and `HealthAssumption`
say no more than types.

**Status changes.** `AuditComplete` is not inductive: that the intent on disk is the change that is
unrecorded depends on what the executing request has read. `Inductive` adds that timestamps order
changes (`TimesOrdered`: a preview is older than the change it permits, so a change never repeats
the time of the one before it), that an intent on disk is either the change the registry has taken
or newer than it (`IntentTrue`), and for the executing request (`RequestInv`) that its snapshot is
current until the registry is replaced, that the event it records has happened, and that the
intent it is about to delete is of a change that is recorded or never took place. With one server
there is one such request, and a step of any other kind leaves its claims alone. A crash or a failed operation at
any step ends the request, and `RequestInv` of an idle server says nothing: what remains on disk is
`FilesInv`, which is why it must hold in every state and not only between requests.

**The refinement.** The initial states map to initial states. A step that replaces a rule's status
in the registry is `Change`: by the invariant no change of that rule is unrecorded before it, since
the intent it just wrote is the request's own and an unrecorded change would be the rule's intent.
A write of the journal is `Record`: it adds the request's event, which has happened, and by
`AuditComplete` there is at most one unrecorded change of a rule, so the event is that one or known
already. A rule that enters the registry is `Add`, and every other step leaves the three mapped
values as they are. Besides `Inductive` the proof needs `Switches`: a request on its way to the
registry switches the rule to the opposite of the status it has.

**The lock.** `HolderOwnsLock` needs that a reclaimer about to remove the lock file
(`ReclaimersExclusive`) has seen a lock no live save owns: it probed the owner's death *after*
reading the lock, a dead process's save is over, and lockIds are not used twice, so the file with
that lockId is nobody's; no other reclaimer has the same claim, so it is still that file when it is
removed. `LocksTruthful` says the pid in a lock of a live save is that save's, which is what makes
the probe mean anything. Pid reuse only makes dead owners look alive, which is safe.

**Materialization.** `RulesInductive` is the conjunction of the properties and `SavingInv`: the
request acts under the standing approval of its candidate, the rule it saves is new to the registry
it has read, and the rule it records is in the registry.

**Health.** `VerdictsNeverClash` needs the types only: it says of any status, effects and day that the
list of problems is empty if and only if the verdict is one of the three that blame nothing. The
proof compares the two functions case by case.

**Runs.** None of the properties of `PurchasingRuns` is inductive: what `run.json` may say next
depends on how far the request is. `RequestInv` says it for each step: the run a request has made is
told to no client before the request succeeds; it is `processing` until the rename of `run.json`,
and may already be `completed` when the request undoes its publication (the sync that follows the
rename failed); its payload is whole when `run.json` is about to be written and gone when it is about to say
`failed`. `PublishedNotAbsent` keeps a new run from getting the id of one a client knows. Only the
request that holds the lock moves, so one lemma (`RunStep`) reduces most steps to what it does to
its own run; startup cleanup runs while no request does.

**The page.** `RunOfPage`: the rows a request asks for, or an answer carries, are of the run that was
opened last, and only the newest request fills the table; hence `DecisionsReachShownRun`. `TabInv` is
what makes the tab of open rows true. There is one request whose answer counts, it is for the filter
shown, and while no stored decision is on its way to the table, what has come for it is what the backend
would answer now (`LoadsTrue`) and a table at rest lists exactly those rows (`TableTrue`). The one step
that is not bookkeeping is the last page's: all pages together hold every row, because
a row has fewer rows before it than there are and its position divided by the page's size is the number of
one of the pages asked for (`PagesHoldAll`). A stored decision
makes the claims void until the page loads anew, which it does before it is at rest again.

**Reminders.** `LeaseExclusive` speaks of two schedulers, but the ledger is all they share:
`LeaseInLedger` says that a scheduler whose claim holds finds its own claim, with its own end, in the
reminder's row. Two schedulers with claims on one reminder would find two claims in one row. A row
is only taken over when its lease is over, and then the former claim holds no longer; a row changed
by `Finish` or `Retry` names its claim, so a sender that comes too late changes nothing.

**Shifts.** `Sound` says of each request on its way that it writes to a shift or a run there is, and
that a correction keeps where the shift came from. That is what makes it harmless that the row was
read before: the statement that writes replaces the row by what was asked for and records exactly
that, so the latest record shows the shift (`AuditShowsShift`), and it makes no shift an import's that
was none. With `OfRuns` (the run of an imported shift exists) a new run has no shifts yet, and
`ImportsWhole` follows.

**Dialogue.** `DialogueInv` relates what the gateway has confirmed to Telegram to the tasks that exist:
an offer that waits for the owner's answer has been used by no task, and a message whose effects are
stored is not handled again except as the replay of the same update, which finds its proposal gone.

**Seller tasks.** Requests read a proposal and update it later by its id. `TasksInductive` adds to
`OneAssignment` only that a request addresses a row there is (`Addressed`), for the statement that writes
looks for another assignment of the task itself: a row is written with a task that no other standing row
has, or with its own (`RowWritten`). What the request had read is not relied on.

**Alerts.** `AlertsInv`: an alert's row holds what was stored last (`Holds`); what is not on its way and
was not lost the owner has heard (`Heard`); there is at most one message of an alert (`OneEach`), about
what was stored last and no repetition (`Waits`).

**Payments.** `Balanced` counts: the payments the customer has made are at least the shipments,
plus one if the order's file waits for a payment already made (`Reserved`), plus one if the file lets the
worker ship (`Claims`). It adds for each step of the worker what it holds, for the file may have been
replaced since it was read: whoever is about to confirm or to ship has a payment to spare, or the file still
says what he read. A page's answer that is about to be stored is of a payment no file names (`Unstored`).

**A line.** `LineInv` follows the stages: `StagesInv` says what each stage has filled in, `PlanInv` that
a quantity has a known stock and a demand has a quantity, `PolicyInv` that the quantity keeps the rule,
`DecisionInv` what is bought when the owner has ordered nothing, `OrderInv` what became of his order,
and `Answers` is the four properties. They speak of the last stage and of the row it
began with; the invariant carries them across the stages between.

**Rules in a run.** `RulesInv`: the result is the calculation or what `Published` makes of it with the
registry the run has read, and the forecast is that of the agent's calculation. The forecast
is made from a calculation the published one came from, so the proof shows that
both have the same applications ("Alike").

**Review.** A decision is promised from the moment it is acknowledged; `Promised` adds the one whose
save is under way. `ReviewInv` says how many promised decisions a file may lack (`Missing`): the memory and
the content about to be written none that damage does not explain, and the newest readable backup one
more, except while the file is damaged or about to be replaced, because a backup is made of the file
before it is replaced. A rotation cut short keeps this: what it puts before the backups either does not
parse or is the file itself (`CutStep`). The queues agree because both sides come to the rows whose triage is ACTIVE.

`FileIsTrue` needs to know that the decision found by key is the one made last. A memory `FitsRun` when
every decision under a key that names one row is about that row's product and under the key the run
would save it by, and decisions under one key are stored in the order they were made; `MemoriesFit` says
so of the file, its backups and the content about to be written. The theorem asks it of the memory
the review begins with, since a memory of other runs need not fit (section 5); a save keeps it, as it
appends under the row's own key, and a backup or a recovery only brings back a memory that fitted.

**The owner's words.** The lookup is the hard part: a word counts for a row when one of its keys names
that row and no other, and then none but such a word is found, however many keys the rows have in common
and whatever old row numbers have been moved to a product's key (`WordFound`). The rest goes by what the
word does: carried out it leaves the item as it says (`CarriedOrAsked`), deferred or in conflict with
the draft it puts the item on the commercial list, and without a word the item stays what it was
(`Untouched`). `WordsInv` carries this from the draft to the lists of the review.

**The draft item.** `DraftInv`: calculated levels fit (`LevelsFit`) and an item on no list has them and all
that the owner is otherwise asked for (`Unasked`). That levels are numbers in order rests on the
validated configuration, on the averages being known whenever the base window is (`AveragesKnown`), and
on the safety stock: the deviations are a sum of squares, so that some number of units covers them
(`SafetyNatural`). The validation looks at the weeks that were selected; that it also clears those of the
base window needs the one to contain the other (`LastWeeksNested`).

**Budget.** `CutInv`: each line lies between its minimum and what was ordered, what is left to
cut is what the order is above its target, the ranks before the one under way give nothing more, and an order
below its target is so by less than a unit of a line that was cut. Its lemmas are a small theory of
`FoldFunctionOnSet`: that a sum over a finite set does not depend on the order in which CHOOSE takes
the elements is proved by a smallest set for which it would, since the library's induction theorems
cannot be used.

**The cart.** `SnapshotOld` says that the units a paid order may take away are those that were in the
cart when it was submitted: what is gone of an article and what the snapshot still counts make at most
`upTo`. Every writer of the cart first reduces the snapshots to what it leaves, which is the step of
the proof that is not obvious. `Bounded` keeps the numbering of units finite.

**Proved and not run**: the types, `OtherWritersKept`, `CleanupExact`, `AnsweredChangeIsAudited`,
`FailedRunIsEmpty`, `LockMatchesRequest`, `JournalMatchesRegistry`, `ApprovedByOwner`, `ApprovalStands`
and the inductive invariants. TLC has checked them before they were proved; the theorems say more.

**Only model-checked**: every liveness property (`RepairedEventually`, `AbandonedLockReclaimed`,
`LockFreed`, `JournalRepaired`, `PaidIsNotified`, `PaidIsCleaned`, `DueReminderSent`,
`EveryMessageHandled`), which is beyond the prover, as ENABLED is; `OfferedOnAgreement`, which counts
over sequences of any length; and
`NoPhantomAudit` for two processes (one is proved). What a recursive definition computes for every input needs an
induction over data that no installed prover can instantiate; where the models sum over a set, the
proofs use the least counterexample instead. Modules with RECURSIVE operators have no theorems.
`CartTypeOK` does not mention `receipts`, a sequence that is filtered.

## 7. What is not modelled

The models follow state across failures and the decisions that state or money depends on. The larger
part of the implementation does neither: rendering of pages and messages, HTTP and its
validation, parsing of workbooks and catalogues, statistics and their wording, styles of Excel files.
It is translated to TLA+ only by copying it, and a copy has no property of its own, so the share of
lines the models stand for stays well below a third.

- *Purchasing*: the matrix builder's adapters, matching and summaries, the adapters and parsers, matching of names and articles (its
  outcome is an input of `OrderLine`), scores, explanations, the financial controller's totals; the
  statistics per item and group, quantities, the knowledge base's overall score and the services that
  page and filter; the learning centre, the triage report and the dialogs of the page; bulk requests
  other than as sequences of single ones. `NeverBoughtBlind` and `KeepsPolicy` except rows for
  which the matrix approves the quantity of the report itself, as the code does.
- *Orders*: prices, inventory, contacts and the notification route of the provider, which only
  answers.
- *Arthur*: tasks beyond the first 200 active ones; confirmations (the migrations lack columns the store writes), memory, decisions, the
  daily briefing; the skills that only read, the language model, mail.
- *Business KPI*: settings, monthly plans, dashboards, bonuses, sessions, daily and weekly reports;
  alerts of the time before digests, and two evaluations at once.
- *Elsewhere*: shop fronts, the receivers of 1C exports, the developer's worker and tools, deployment.
- *Everywhere*: validation of JSON formats (a model's files have the format the code writes, except
  where `Damage` says otherwise); power loss (see 3); a clock that goes backwards; files edited by hand;
  the registry's markdown report; logging; HTTP beyond the answer codes.

Two hazards have no property: two processes on the status journal
(`owner_rule_status_manager.js:542`), which the deployment excludes, and a run that a crash leaves
`processing` (`file_run_registry.js:150`), which is what the code does by design; see 3 to 5.
