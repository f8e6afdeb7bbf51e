------------------------------- MODULE OwnerWords -------------------------------
(***************************************************************************)
(* What the owner has said of the assortment, put on the draft matrix of a *)
(* run, and the lists of the review that is made of it.  The memory keeps  *)
(* every word under a key: the supplier's article, a barcode, the name, or *)
(* the row of an old report, whose product the decision history tells.     *)
(* A word is applied to the one row its key names, or the row is put       *)
(* before the owner again.  One supplier is modelled.                      *)
(***************************************************************************)
EXTENDS Absent, Integers, FiniteSets, SequencesExt

CONSTANTS
    Drafts,        \* functions from the rows of a draft to their items, see below
    WordMemories,  \* the words in the order they were written, and the decision history
    Now            \* the day of the run

\* An item has the identifiers article, barcode, name and internal (None when missing), the
\* fields role, priority, min, target, max, allowZero and conflict of the draft, its queues,
\* doubts (the reasons that make a commercial question), costly (its stock is critically dear)
\* and awaits (a first rollout waits for the owner).
\* A word has a key, the word, role (an override or None), levels (a partial policy, for
\* OVERRIDE_POLICY), current (it was given to this version of the builder), active, the day at,
\* scope ("permanent", "run" or None) and expires (a day or None).
\* An entry of the history has a row and its article, barcode, name (None when missing).

ItemFields == {"article", "barcode", "name", "internal", "role", "priority", "min", "target",
               "max", "allowZero", "conflict", "queues", "doubts", "costly", "awaits"}
PolicyFields == {"priority", "min", "target", "max", "allowZero"}

ASSUME WordsAssumption ==
    /\ \A d \in Drafts : /\ IsFiniteSet(DOMAIN d)
                         /\ \A r \in DOMAIN d : DOMAIN d[r] = ItemFields /\ d[r].conflict \in BOOLEAN
    /\ \A m \in WordMemories :
          /\ m.words \in Seq(Range(m.words))
          /\ \A w \in Range(m.words) : /\ w # None /\ w.active \in BOOLEAN /\ w.at \in Nat
                                       /\ DOMAIN w.levels \subseteq PolicyFields

VARIABLES step, drafts, memory, items, sections

wordVars == <<step, drafts, memory, items, sections>>

RunWords == {"BUY", "SKIP", "DEFER"}
TtlDays == 30

WordsInit ==
    /\ step = "draft" /\ drafts \in Drafts /\ memory \in WordMemories
    /\ items = None /\ sections = None

DraftRows == DOMAIN drafts
Words == memory.words

-----------------------------------------------------------------------------
(* Keys.                                                                    *)

\* The keys of a product, the most specific first; an older word may be under a bare number.
ProductKeys(p) ==
    (IF p.article = None THEN <<>> ELSE <<<<"article", p.article>>, <<"bare", p.article>>>>)
    \o (IF p.barcode = None THEN <<>> ELSE <<<<"barcode", p.barcode>>, <<"bare", p.barcode>>>>)
    \o (IF p.name = None THEN <<>> ELSE <<<<"name", p.name>>>>)

ItemKeys(r) ==
    ProductKeys(drafts[r])
    \o (IF drafts[r].internal = None THEN <<>> ELSE <<<<"bare", drafts[r].internal>>>>)

\* The key of the product that stood in a row of an old report: the first entry with an
\* article gives it, otherwise the first with a barcode, otherwise the first with a name.
HistoryKey(row) ==
    LET fields == <<"article", "barcode", "name">>
        entries(f) == {i \in DOMAIN memory.history :
                         memory.history[i].row = row /\ memory.history[i][f] # None}
        known == {n \in DOMAIN fields : entries(fields[n]) # {}}
        field == fields[Min(known)] IN
    IF known = {} THEN None ELSE <<field, memory.history[Min(entries(field))][field]>>

\* Active standing words under an old row's key whose product the history knows.
Movable(i) ==
    /\ Words[i].key[1] = "row" /\ Words[i].active /\ Words[i].word \notin RunWords
    /\ HistoryKey(Words[i].key[2]) # None

\* A key is taken over for the first of its old rows, when no word has it yet and all that
\* would come under it say the same; a name shared by several old rows is no obstacle to that.
Moved(i) ==
    LET key == HistoryKey(Words[i].key[2])
        movers == {j \in DOMAIN Words : Movable(j) /\ HistoryKey(Words[j].key[2]) = key} IN
    /\ Movable(i)
    /\ \A j \in movers : i <= j /\ Words[j].word = Words[i].word
    /\ \A j \in DOMAIN Words : Words[j].key # key

\* The keys of a row in the order they are tried; the old ones of its product come last.
Candidates(r) ==
    LET own == ItemKeys(r)
        old == {i \in DOMAIN Words : Moved(i) /\ HistoryKey(Words[i].key[2]) \in Range(own)} IN
    [n \in DOMAIN own \union {Len(own) + i : i \in old} |->
        IF n \in DOMAIN own THEN own[n] ELSE Words[n - Len(own)].key]

\* A mistaken lookup: a key of several rows counts for each of them.
NamesSome(key) == \E r \in DraftRows : key \in Range(Candidates(r))

\* A key that several rows of the draft have is nobody's.
NamesOne(key) == Cardinality({r \in DraftRows : key \in Range(Candidates(r))}) = 1

-----------------------------------------------------------------------------
(* The word that counts for a row.                                          *)

Expired(w) ==
    LET scope == IF w.scope # None THEN w.scope
                 ELSE IF w.word \in RunWords THEN "run" ELSE "permanent"
        end == IF w.expires # None THEN w.expires ELSE w.at + TtlDays IN
    scope = "run" /\ end <= Now

\* The newest word under a key of those in a set of positions; of one day, the last written.
Newest(key, positions) ==
    LET own == {i \in positions : Words[i].key = key} IN
    IF own = {} THEN None
    ELSE Words[CHOOSE i \in own : \A j \in own :
                 Words[j].at < Words[i].at \/ (Words[j].at = Words[i].at /\ j <= i)]

LatestDecision(key) == Newest(key, DOMAIN Words)
LatestActiveWord(key) ==
    Newest(key, {i \in DOMAIN Words : Words[i].active /\ ~Expired(Words[i])})

\* A withdrawn word is only looked at when no active one counts.
WordOf(r) ==
    LET keys == Candidates(r)
        active == {n \in DOMAIN keys : NamesOne(keys[n]) /\ LatestActiveWord(keys[n]) # None}
        withdrawn == {n \in DOMAIN keys : /\ NamesOne(keys[n]) /\ LatestDecision(keys[n]) # None
                                          /\ ~LatestDecision(keys[n]).active} IN
    IF active # {} THEN LatestActiveWord(keys[Min(active)])
    ELSE IF withdrawn # {} THEN LatestDecision(keys[Min(withdrawn)]) ELSE None

-----------------------------------------------------------------------------
(* A word put on an item.                                                   *)

RoleForDecision(w, role) ==
    CASE w.role # None -> w.role
      [] w.role = None /\ w.word = "KEEP_CORE" -> "CORE"
      [] w.role = None /\ w.word = "KEEP_OPTIONAL" -> "OPTIONAL"
      [] w.role = None /\ w.word = "REJECT_EXIT" /\ role = "EXIT" -> "OPTIONAL"
      [] OTHER -> role

\* The draft has come to say something else since.
DecisionConflicts(w, item) ==
    CASE w.word \in {"KEEP_CORE", "KEEP_OPTIONAL", "REQUIRE_STOCK"} -> item.role = "EXIT"
      [] w.word = "REJECT_EXIT" -> FALSE
      [] w.word = "APPROVE_EXIT" -> item.role # "EXIT"
      [] w.word = "ACCEPT_POLICY" /\ ~w.current -> item.conflict
      [] w.word = "OVERRIDE_POLICY" ->
           ~w.current /\ \E f \in DOMAIN w.levels : item[f] # w.levels[f]
      [] OTHER -> RoleForDecision(w, item.role) # item.role /\ item.role = "EXIT"

\* An item with some of its fields set.
With(item, fields) ==
    [f \in DOMAIN item \union DOMAIN fields |-> IF f \in DOMAIN fields THEN fields[f] ELSE item[f]]

WithOverride(w, item) == IF w.word = "OVERRIDE_POLICY" THEN With(item, w.levels) ELSE item

CarriedOut(w, item) ==
    With(WithOverride(w, item),
         [role |-> RoleForDecision(w, item.role),
          allowZero |-> IF w.word = "KEEP_ZERO_STOCK" THEN TRUE
                        ELSE IF w.word = "REQUIRE_STOCK" THEN FALSE
                        ELSE WithOverride(w, item).allowZero,
          conflict |-> item.conflict /\ w.word # "ACCEPT_POLICY",
          queues |-> IF w.word = "ACCEPT_POLICY" THEN item.queues \ {"policy_conflict"}
                     ELSE IF w.word = "REJECT_EXIT"
                     THEN (item.queues \ {"exit_review"}) \union {"commercial_review"}
                     ELSE item.queues,
          exitApproved |-> w.word = "APPROVE_EXIT",
          forced |-> w.word = "REJECT_EXIT",
          silenced |-> w.word # "REJECT_EXIT"])

\* A deferred or clashing word leaves the item as it is and puts it before the owner.
ApplyDecisionToItem(w, item) ==
    LET seen == With(item, [clash |-> FALSE, forced |-> FALSE, silenced |-> FALSE,
                            exitApproved |-> FALSE,
                            order |-> IF w # None /\ w.word \in RunWords THEN w.word ELSE None]) IN
    IF w = None \/ ~w.active THEN seen
    ELSE IF w.word = "DEFER" THEN With(seen, [forced |-> TRUE])
    ELSE IF DecisionConflicts(w, item)
    THEN With(seen, [clash |-> TRUE, forced |-> TRUE,
                     queues |-> item.queues \union {"commercial_review"}])
    ELSE CarriedOut(w, seen)

\* An override of some levels that does not fit the new draft's others ends the run.
OutOfOrder(item) ==
    None \notin {item.min, item.target, item.max}
    /\ (item.min > item.target \/ item.target > item.max)

Overridden(r) ==
    /\ WordOf(r) # None /\ WordOf(r).active /\ WordOf(r).word = "OVERRIDE_POLICY"
    /\ ~DecisionConflicts(WordOf(r), drafts[r])

ApplyOwnerDecisions ==
    /\ step = "draft"
    /\ LET applied == [r \in DraftRows |-> ApplyDecisionToItem(WordOf(r), drafts[r])] IN
       IF \E r \in DraftRows : Overridden(r) /\ OutOfOrder(applied[r])
       THEN step' = "failed" /\ UNCHANGED items
       ELSE step' = "applied" /\ items' = applied
    /\ UNCHANGED <<drafts, memory, sections>>

-----------------------------------------------------------------------------
(* The review.                                                              *)

\* A word that was carried out stops the questions.
Quiet(item) == item.silenced /\ ~item.clash /\ ~item.forced

Commercial(item) ==
    /\ ~Quiet(item)
    /\ \/ item.forced \/ item.clash
       \/ item.queues \intersect {"commercial_review", "large_inventory_review"} # {}
       \/ item.doubts # {}

\* The lists of the review; the list of required actions is ReviewTriage's ActionClass.
BuildOwnerReviewModel ==
    LET of(Test(_)) == {r \in DraftRows : Test(items[r])}
        exit == of(LAMBDA i : i.role = "EXIT" /\ ~i.exitApproved)
        conflicts == of(LAMBDA i : i.conflict)
        large == of(LAMBDA i : "large_inventory_review" \in i.queues) IN
    /\ step = "applied" /\ step' = "review"
    /\ sections' =
         [commercial |-> of(Commercial), exit |-> exit, conflicts |-> conflicts, large |-> large,
          awaiting |-> of(LAMBDA i : i.awaits /\ ~i.silenced),
          sheet |-> (exit \union conflicts \union (large \intersect of(LAMBDA i : i.costly)))
                      \intersect of(LAMBDA i : ~Quiet(i))]
    /\ UNCHANGED <<drafts, memory, items>>

WordsNext == ApplyOwnerDecisions \/ BuildOwnerReviewModel

WordsSpec == WordsInit /\ [][WordsNext]_wordVars

-----------------------------------------------------------------------------
(* Properties.                                                              *)

\* The living words that name a row and no other.
About(r) ==
    {LatestActiveWord(k) : k \in {k \in Range(Candidates(r)) :
                                /\ \A s \in DraftRows \ {r} : k \notin Range(Candidates(s))
                                /\ LatestActiveWord(k) # None}}

\* The item is what the word says, whatever the draft said; a role given with the word goes
\* before the one that the word stands for.
SaysSo(w, r) ==
    LET item == items[r]
        RoleIs(role) == item.role = IF w.role = None THEN role ELSE w.role IN
    /\ w.role # None => item.role = w.role
    /\ w.word = "KEEP_CORE" => RoleIs("CORE")
    /\ w.word = "KEEP_OPTIONAL" => RoleIs("OPTIONAL")
    /\ w.word = "APPROVE_EXIT" => RoleIs("EXIT") /\ r \notin sections.exit
    /\ w.word = "KEEP_ZERO_STOCK" => item.allowZero
    /\ w.word = "REQUIRE_STOCK" => ~item.allowZero /\ (w.role = None => item.role # "EXIT")
    /\ w.word = "ACCEPT_POLICY" => r \notin sections.conflicts
    /\ w.word = "OVERRIDE_POLICY" => \A f \in DOMAIN w.levels : item[f] = w.levels[f]
    /\ w.word \in {"BUY", "SKIP"} => item.order = w.word
    /\ w.word \notin {"DEFER", "REJECT_EXIT"}

\* The owner's word is carried out or he is asked again: with one living word about a row the
\* item says what the word says, or stands in the commercial list; a row no living word is
\* about keeps what the draft gave it and its place in the review.
WordKept ==
    step = "review" =>
      \A r \in DraftRows :
        /\ \A w \in About(r) : About(r) = {w} => SaysSo(w, r) \/ r \in sections.commercial
        /\ About(r) = {} =>
             /\ \A f \in DOMAIN drafts[r] : items[r][f] = drafts[r][f]
             /\ drafts[r].role = "EXIT" => r \in sections.exit \intersect sections.sheet
             /\ "commercial_review" \in drafts[r].queues => r \in sections.commercial
=============================================================================
