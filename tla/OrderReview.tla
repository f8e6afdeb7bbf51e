------------------------------- MODULE OrderReview -------------------------------
(***************************************************************************)
(* The owner's review of a published run and the order it ends in: the     *)
(* memory of owner decisions (a file with backups), the rows as the        *)
(* backend decorates them with decisions and triage, the final order and   *)
(* the supplier's file.  One backend process; its handlers run to their    *)
(* end without an await, so a save is cut only by a crash or an error.     *)
(* The triage of a row is ReviewTriage's.                                  *)
(***************************************************************************)
EXTENDS ReviewTriage, SequencesExt

CONSTANTS
    Runs,       \* the runs reviewed, see below
    Offers,     \* the decisions owners submit: decision and quantity
    Tokens,     \* idempotency keys clients send
    Earlier,    \* decision memories of earlier runs
    Ttl,        \* life of a decision for one run
    Damaged,    \* content that does not parse
    MaxBackups, \* backups kept
    MaxClock,   \* bound on the clock
    MaxFaults,  \* bound on crashes and failed writes
    MaxDamage   \* bound on damages of the memory's file

\* A run has rows with a position, key candidates (the most preferred first), the product, the
\* approved quantity, the packaging and whether the price is known; safe: it has no blocking
\* min/max issue; saves: how many decisions are submitted for it, a bound.

\* The choices an owner has: a purchase names a quantity.
OwnerChoices == [decision : {"BUY"}, quantity : Nat] \union
           [decision : {"SKIP", "DEFER"}, quantity : Nat \union {None}]
ChoiceOf(d) == [decision |-> d.decision, quantity |-> d.quantity]

\* The decisions there may be: those of earlier runs and those submitted in this one.
Remembered == UNION {Range(e) : e \in Earlier \ {None}}
Submitted ==
    [product : UNION {{i.product : i \in Range(r.items)} : r \in Runs},
     key : UNION {UNION {Range(i.keys) : i \in Range(r.items)} : r \in Runs},
     decision : {o.decision : o \in Offers}, quantity : {o.quantity : o \in Offers},
     permanent : BOOLEAN, at : 1 .. MaxClock, token : Tokens, no : Nat]
OwnerDecisions == {d \in Remembered \union Submitted : ChoiceOf(d) \in OwnerChoices}

\* Contents of the memory's file, and saves on their way to it.
Memories == Seq(OwnerDecisions)
Savings == [stage : {"rotate", "write", "record"}, decision : OwnerDecisions, store : Memories]

\* A product sold by the box, with the most that may be in stock, when that is known.
Packagings == [box : Nat \ {0, 1}, max : (Nat \ {0}) \union {None}]

ASSUME ReviewAssumption ==
    /\ MaxBackups \in Nat /\ MaxClock \in Nat \ {0} /\ MaxFaults \in Nat /\ MaxDamage \in Nat
    /\ None # "ACTIVE" /\ None \notin {Damaged} \union Memories \union Savings \union OwnerDecisions
    /\ Damaged \notin Memories
    /\ \A r \in Runs : /\ r.saves \in Nat /\ IsFiniteSet(DOMAIN r.items)
                       /\ \A i \in DOMAIN r.items :
                             /\ r.items[i].keys \in Seq(Range(r.items[i].keys))
                             /\ r.items[i].packaging \in Packagings \union {None}
    /\ \A o \in Offers : ChoiceOf(o) \in OwnerChoices
    /\ \A e \in Earlier \ {None} : e \in Memories
    /\ \A d \in Remembered : d.at \in 0 .. 1

VARIABLES
    run,
    triage,       \* the triage saved for the run, None when building it failed
    main,         \* the memory's file: a sequence of decisions, Damaged, or None
    backups,      \* its backups, the newest first
    saving,       \* the save in progress
    history,      \* the decision history
    file,         \* the supplier's file built last
    clock, faults, damages, saves,
    acknowledged, \* decisions whose save was answered with success
    decided       \* decisions that were once in the file

reviewVars == <<run, triage, main, backups, saving, history, file, clock, faults, damages, saves,
                acknowledged, decided>>

Rows == DOMAIN run.items
Position(r) == run.items[r].position

\* What the triage saves of a run: the rows it asks about, in packages and one by one, the
\* rows that wait for data, and the status and section of the rows of the current queue.
BuildReviewTriage(items) ==
    LET positions == [r \in DOMAIN items |-> items[r].position]
        current == {r \in DOMAIN items : Pending(positions[r])} IN
    [packages |-> Packages(positions), individuals |-> Individuals(positions),
     blocked |-> Blocked(positions), exclusions |-> Exclusions(positions),
     current |-> [r \in current |-> TriageItem(positions[r])]]

\* A published run; an error while its triage is built is passed over.
ReviewInit ==
    /\ run \in Runs
    /\ triage \in {None, BuildReviewTriage(run.items)}
    /\ main \in Earlier
    /\ backups = <<>> /\ saving = None /\ history = {} /\ file = None
    /\ clock = 1 /\ faults = 0 /\ damages = 0 /\ saves = 0
    /\ acknowledged = {}
    /\ decided = IF main = None THEN {} ELSE Range(main)

-----------------------------------------------------------------------------
(* The memory.                                                              *)

Readable == {i \in DOMAIN backups : backups[i] # Damaged}

\* The file, or for a damaged file its newest backup that parses; Damaged when there is none.
LoadOwnerDecisions ==
    IF main = None THEN <<>>
    ELSE IF main # Damaged THEN main
    ELSE IF Readable = {} THEN Damaged ELSE backups[Min(Readable)]

\* A decision for one run lapses; a permanent one does not.
IsDecisionExpired(d) == ~d.permanent /\ d.at + Ttl <= clock

\* The newest decision under a key; of two of one instant the one stored later.
LatestActive(store, key) ==
    LET active == {i \in DOMAIN store : store[i].key = key /\ ~IsDecisionExpired(store[i])} IN
    IF active = {} THEN None
    ELSE store[CHOOSE i \in active : \A j \in active \ {i} :
                  \/ store[i].at > store[j].at
                  \/ store[i].at = store[j].at /\ i > j]

-----------------------------------------------------------------------------
(* The rows as the backend serves them.                                     *)

\* A key counts only when no other row of the run has it.
Unique(key) == Cardinality({r \in Rows : key \in Range(run.items[r].keys)}) = 1

UniqueKey(r) ==
    LET keys == run.items[r].keys
        unique == {i \in DOMAIN keys : Unique(keys[i])} IN
    IF unique = {} THEN None ELSE keys[Min(unique)]

\* A mistaken lookup: keys that several rows share are tried too.
DecisionOfAnyKey(r, store) ==
    LET keys == run.items[r].keys
        found == {i \in DOMAIN keys : LatestActive(store, keys[i]) # None} IN
    IF found = {} THEN None ELSE LatestActive(store, keys[Min(found)])

\* The decision under the first key of the row that is its own and has one.
DecisionOf(r, store) ==
    LET keys == run.items[r].keys
        found == {i \in DOMAIN keys : Unique(keys[i]) /\ LatestActive(store, keys[i]) # None} IN
    IF found = {} THEN None ELSE LatestActive(store, keys[Min(found)])

\* What the owner last decided about the row's product, by a key that names it in this run.
NewestOf(r, store) ==
    LET mine == {i \in DOMAIN store : /\ store[i].product = run.items[r].product
                                      /\ store[i].key \in Range(run.items[r].keys)
                                      /\ Unique(store[i].key)
                                      /\ ~IsDecisionExpired(store[i])} IN
    IF mine = {} THEN None
    ELSE store[CHOOSE i \in mine : \A j \in mine : store[j].no <= store[i].no]

\* The status the triage gives a row of the current queue.
TriageStatus(r) ==
    IF triage = None THEN None
    ELSE IF r \in triage.blocked THEN "BLOCKED_BY_DATA"
    ELSE IF r \in triage.exclusions THEN "DATA_ISSUE"
    ELSE IF r \in DOMAIN triage.current THEN triage.current[r].status ELSE None

\* A mistaken class: the owner review's own class is kept where the triage asks nothing.
DecoratedClassKept(r) ==
    LET legacy == ActionClass(Position(r)) IN
    IF triage = None THEN legacy
    ELSE IF TriageStatus(r) = "ACTIVE" THEN "OWNER_ACTION_REQUIRED"
    ELSE IF TriageStatus(r) = "BLOCKED_BY_DATA" THEN "DATA_BLOCKED"
    ELSE legacy

\* The class shown: the triage overrules the owner review where there is a triage.
DecoratedClass(r) ==
    LET legacy == ActionClass(Position(r)) IN
    IF triage = None THEN legacy
    ELSE IF TriageStatus(r) = "ACTIVE" THEN "OWNER_ACTION_REQUIRED"
    ELSE IF TriageStatus(r) = "BLOCKED_BY_DATA" THEN "DATA_BLOCKED"
    ELSE IF \/ TriageStatus(r) = "DATA_ISSUE"
            \/ /\ r \in DOMAIN triage.current
               /\ triage.current[r].section \in {"data_problems", "matrix_gaps"}
         THEN "DATA_ISSUE"
    ELSE IF legacy = "OWNER_ACTION_REQUIRED" THEN "TRIAGE_RESOLVED" ELSE legacy

\* The counter of the page's first tab.
NeedsDecisionRows(store) ==
    {r \in Rows : DecoratedClass(r) = "OWNER_ACTION_REQUIRED" /\ DecisionOf(r, store) = None}

-----------------------------------------------------------------------------
(* The final order.                                                         *)

RoundUp(q, box) == ((q + box - 1) \div box) * box

\* Whole boxes, but never above the maximum stock.
PackagedQuantity(packaging, q) ==
    IF packaging = None THEN q
    ELSE IF packaging.max # None /\ RoundUp(q, packaging.box) > packaging.max THEN packaging.max
    ELSE RoundUp(q, packaging.box)

Included(r, q) ==
    [kind |-> "included", quantity |-> PackagedQuantity(run.items[r].packaging, q)]
Excluded(reason) == [kind |-> "excluded", reason |-> reason]
Unresolved(reason) == [kind |-> "unresolved", reason |-> reason]

\* The owner's decision, then what the row still waits for, then the automatic approval.
ClassifyItem(r, store) ==
    LET d == DecisionOf(r, store)
        approved == run.items[r].approved IN
    IF d # None
    THEN CASE d.decision = "BUY" /\ d.quantity > 0 -> Included(r, d.quantity)
           [] d.decision = "BUY" /\ d.quantity = 0 -> Excluded("zero_quantity")
           [] d.decision = "SKIP" -> Excluded("skipped")
           [] d.decision = "DEFER" -> Excluded("deferred")
    ELSE IF TriageStatus(r) = "BLOCKED_BY_DATA" THEN Unresolved("data_blocked")
    ELSE IF "rollout" \in Position(r).facts THEN Unresolved("first_rollout_review_required")
    ELSE IF TriageStatus(r) = "ACTIVE" THEN Unresolved("review_required")
    ELSE IF triage = None /\ ActionClass(Position(r)) = "OWNER_ACTION_REQUIRED"
    THEN Unresolved("review_required")
    ELSE IF Position(r).workflow = "approved" /\ approved > 0 THEN Included(r, approved)
    ELSE Excluded("no_order")

IncludedRows(store) == {r \in Rows : ClassifyItem(r, store).kind = "included"}
ReviewComplete(store) == \A r \in Rows : ClassifyItem(r, store).kind # "unresolved"

-----------------------------------------------------------------------------
(* The requests.                                                            *)

Answer == saving' = None

\* A save request: the key of the row, the memory as it is now, and whether the client's key
\* is known already.  Without a usable key or a readable memory the request is refused.
SaveDecision(r, offer, permanent, token) ==
    LET store == LoadOwnerDecisions
        d == [product |-> run.items[r].product, key |-> UniqueKey(r),
              decision |-> offer.decision, quantity |-> offer.quantity,
              permanent |-> permanent /\ offer.decision # "DEFER",
              at |-> clock, token |-> token, no |-> saves + 1] IN
    /\ saving = None /\ saves < run.saves
    /\ UniqueKey(r) # None /\ store # Damaged
    /\ ~\E i \in DOMAIN store : token # None /\ store[i].token = token
    /\ saves' = saves + 1
    /\ saving' = [stage |-> "rotate", decision |-> d, store |-> Append(store, d)]
    /\ UNCHANGED <<run, triage, main, backups, history, file, clock, faults, damages, acknowledged,
                   decided>>

\* A mistaken rotation: the file is moved away instead of copied.
RotateBackupMoves ==
    /\ saving # None /\ saving.stage = "rotate"
    /\ backups' = IF main = None THEN backups
                  ELSE SubSeq(<<main>> \o backups, 1, IF Len(backups) < MaxBackups
                                                      THEN Len(backups) + 1 ELSE MaxBackups)
    /\ main' = None
    /\ saving' = [saving EXCEPT !.stage = "write"]
    /\ UNCHANGED <<run, triage, history, file, clock, faults, damages, saves, acknowledged, decided>>

\* The file as it is, damaged or not, is copied to a new backup; the oldest ones go.
RotateBackup ==
    /\ saving # None /\ saving.stage = "rotate"
    /\ backups' = IF main = None THEN backups
                  ELSE SubSeq(<<main>> \o backups, 1, IF Len(backups) < MaxBackups
                                                      THEN Len(backups) + 1 ELSE MaxBackups)
    /\ saving' = [saving EXCEPT !.stage = "write"]
    /\ UNCHANGED <<run, triage, main, history, file, clock, faults, damages, saves, acknowledged,
                   decided>>

\* The new content replaces the file in one step.
AtomicWrite ==
    /\ saving # None /\ saving.stage = "write"
    /\ main' = saving.store
    /\ decided' = decided \union {saving.decision}
    /\ saving' = [saving EXCEPT !.stage = "record"]
    /\ UNCHANGED <<run, triage, backups, history, file, clock, faults, damages, saves, acknowledged>>

\* The history is written, or a failure of it is passed over; the answer is success.
RecordHistory ==
    /\ saving # None /\ saving.stage = "record"
    /\ \/ history' = history \union {saving.decision} /\ faults' = faults
       \/ faults < MaxFaults /\ faults' = faults + 1 /\ history' = history
    /\ acknowledged' = acknowledged \union {saving.decision}
    /\ Answer
    /\ UNCHANGED <<run, triage, main, backups, file, clock, damages, saves, decided>>

\* What a rotation that is cut short leaves: no copy, part of one, which does not parse, or a
\* whole one, with the oldest backups still there.
CutRotation ==
    IF main = None THEN {backups} ELSE {backups, <<Damaged>> \o backups, <<main>> \o backups}
BackupsLeft == IF saving.stage = "rotate" THEN CutRotation ELSE {backups}

\* An error of the file system before or after the new content is in place: the request is
\* answered with a storage error either way.
WriteFails ==
    /\ saving # None /\ saving.stage \in {"rotate", "write"} /\ faults < MaxFaults
    /\ faults' = faults + 1
    /\ \/ UNCHANGED <<main, decided>>
       \/ /\ saving.stage = "write"
          /\ main' = saving.store /\ decided' = decided \union {saving.decision}
    /\ backups' \in BackupsLeft
    /\ Answer
    /\ UNCHANGED <<run, triage, history, file, clock, damages, saves, acknowledged>>

Crash ==
    /\ saving # None /\ faults < MaxFaults
    /\ faults' = faults + 1
    /\ backups' \in BackupsLeft
    /\ Answer
    /\ UNCHANGED <<run, triage, main, history, file, clock, damages, saves, acknowledged, decided>>

\* The supplier's file: only for a complete review, something to order and known prices.
BuildSupplierOrderFile ==
    LET store == LoadOwnerDecisions
        lines == IncludedRows(store) IN
    /\ saving = None
    /\ run.safe /\ store # Damaged
    /\ ReviewComplete(store) /\ lines # {}
    /\ \A r \in lines : run.items[r].priced
    /\ file' = [lines |-> [r \in Rows |-> IF r \in lines THEN ClassifyItem(r, store).quantity
                                         ELSE 0],
                wanted |-> [r \in Rows |-> NewestOf(r, store)]]
    /\ UNCHANGED <<run, triage, main, backups, saving, history, clock, faults, damages, saves,
                   acknowledged, decided>>

-----------------------------------------------------------------------------
(* The environment.                                                         *)

\* Something outside the program spoils the memory's file.
Damage ==
    /\ damages < MaxDamage /\ main \notin {None, Damaged}
    /\ damages' = damages + 1
    /\ main' = Damaged
    /\ UNCHANGED <<run, triage, backups, saving, history, file, clock, faults, saves, acknowledged,
                   decided>>

ClockTick ==
    /\ saving = None /\ clock < MaxClock /\ run.saves > 0
    /\ clock' = clock + 1
    /\ UNCHANGED <<run, triage, main, backups, saving, history, file, faults, damages, saves,
                   acknowledged, decided>>

ReviewNext ==
    \/ \E r \in Rows, o \in Offers, permanent \in BOOLEAN, t \in Tokens :
          SaveDecision(r, o, permanent, t)
    \/ RotateBackup \/ AtomicWrite \/ RecordHistory
    \/ WriteFails \/ Crash
    \/ BuildSupplierOrderFile
    \/ Damage \/ ClockTick

ReviewSpec == ReviewInit /\ [][ReviewNext]_reviewVars

-----------------------------------------------------------------------------
(* Properties.                                                              *)

Entries == decided \union (IF saving = None THEN {} ELSE {saving.decision})

ReviewTypeOK ==
    /\ triage = None \/ (UNION triage.packages) \union triage.individuals \subseteq Rows
    /\ main \in {None, Damaged} \/ Range(main) \subseteq Entries
    /\ \A i \in DOMAIN backups : backups[i] = Damaged \/ Range(backups[i]) \subseteq decided
    /\ Len(backups) <= MaxBackups + faults
    /\ saving = None \/ saving.stage \in {"rotate", "write", "record"}
    /\ history \subseteq decided /\ acknowledged \subseteq decided
    /\ clock \in 1 .. MaxClock /\ faults \in 0 .. MaxFaults
    /\ damages \in 0 .. MaxDamage /\ saves \in 0 .. run.saves

\* No decision that was answered with success is lost by a crash, a failed write or a later
\* save; each damage of the file costs at most the newest one, as long as a backup parses.
DecisionsSurvive ==
    LET store == LoadOwnerDecisions IN
    store # Damaged => Cardinality(acknowledged \ Range(store)) <= damages

\* The supplier's file holds of every row what the owner decided last and still stands, and
\* without a decision only what was approved automatically while nothing waited for him.
FileFollowsOwner ==
    file # None =>
        \A r \in Rows :
            LET d == file.wanted[r] IN
            IF d # None
            THEN file.lines[r] = IF d.decision = "BUY"
                                 THEN PackagedQuantity(run.items[r].packaging, d.quantity) ELSE 0
            ELSE /\ TriageStatus(r) \notin {"ACTIVE", "BLOCKED_BY_DATA"}
                 /\ "rollout" \notin Position(r).facts
                 /\ file.lines[r] # 0 => Position(r).workflow = "approved"

\* The rows the compaction asks the owner about, in packages or one by one, are the rows the
\* page counts as undecided, and the final order waits for each of them.
QueuesAgree ==
    LET store == LoadOwnerDecisions
        asked == {r \in (UNION triage.packages) \union triage.individuals :
                    DecisionOf(r, store) = None} IN
    triage # None /\ store # Damaged =>
        /\ asked = NeedsDecisionRows(store)
        /\ \A r \in asked : ClassifyItem(r, store).kind = "unresolved"
        /\ \A r \in Rows : ClassifyItem(r, store) = Unresolved("review_required") => r \in asked

\* As the comment of the final order has it: nothing to decide means a complete review.
NeedsDecisionIsIncomplete ==
    LET store == LoadOwnerDecisions IN
    store # Damaged => (NeedsDecisionRows(store) = {} <=> ReviewComplete(store))
=============================================================================
