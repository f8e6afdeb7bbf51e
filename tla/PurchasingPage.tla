----------------------------- MODULE PurchasingPage -----------------------------
(***************************************************************************)
(* The purchasing page in the owner's browser and the backend it asks.     *)
(* Every click sends a request and goes on when the answer comes; the      *)
(* backend answers one request at a time, and answers may overtake each    *)
(* other or be lost.  The page shows a table of the run's rows, under the  *)
(* filter "all" or "needs" (rows without a decision), and cards computed   *)
(* from the decisions: the final order, the file for the supplier and a    *)
(* simulated budget.                                                       *)
(***************************************************************************)
EXTENDS Absent, Integers, FiniteSets, Sequences, SequencesExt

CONSTANTS
    Rows,           \* 1 .. n, the rows of a run about which the owner is asked
    Decisions,      \* the decisions he may take about a row
    Cards,          \* the cards under consideration, of "final" and "supplier"
    FetchSize,      \* rows in an answer of the backend (100 in the code)
    MaxRuns,        \* bound: runs ever calculated
    MaxLoads,       \* bound: requests for the table under way
    MaxSaves,       \* bound: decisions ever sent
    MaxSimulations, \* bound: simulations under way
    MaxLost         \* bound: failed requests and lost answers

ASSUME PageAssumption ==
    /\ None \notin Nat /\ MaxRuns \in Nat /\ MaxSaves \in Nat
    /\ IsFiniteSet(Rows) /\ Rows \subseteq Nat /\ FetchSize \in Nat \ {0}
    /\ None \notin Decisions

VARIABLES
    decided,     \* backend: run -> row -> None or the decision
    created,     \* backend: runs calculated so far
    file,        \* a report is selected
    active,      \* "idle", or how far the submission of a run is
    results,     \* the cards are visible
    runId,       \* currentRunId
    base,        \* itemState.baseUrl: None, or the run whose rows are asked for
    filter,      \* itemState.filter
    resolved,    \* itemState.defaultFilterResolved
    panel,       \* what the panel of the table shows
    table,       \* the rows in it and their run
    counter,     \* None, or the number of rows to decide it shows
    loads,       \* requests for the table
    timers,      \* reloads that a saved decision has scheduled
    saves,       \* the decisions sent, in order
    cards,       \* card -> None, or the order it shows
    refreshes,   \* requests for cards, in order
    simulation,  \* latestBudgetOptimization: None, or the order it is about
    simulations, \* requests for it, in order
    busy,        \* its button is disabled
    missed,      \* runs with a stored decision that the page was told had failed
    lost

tableVars == <<base, filter, resolved, panel, table, counter, loads>>
cardVars == <<cards, refreshes>>
budgetVars == <<simulation, simulations, busy>>
runVars == <<created, file, active, results, runId>>
serverVars == <<decided, missed, lost>>
pageVars == <<decided, created, file, active, results, runId, base, filter, resolved, panel, table,
              counter, loads, timers, saves, cards, refreshes, simulation, simulations, busy,
              missed, lost>>

RunIds == 1 .. MaxRuns
NoTable == [run |-> None, rows |-> <<>>]

PageInit ==
    /\ decided = [r \in RunIds |-> [i \in Rows |-> None]]
    /\ created = 0 /\ runId = None
    /\ file = FALSE /\ active = "idle" /\ results = FALSE
    /\ base = None /\ filter = "all" /\ resolved = FALSE
    /\ panel = "hidden" /\ table = NoTable /\ counter = None
    /\ loads = {} /\ timers = 0 /\ saves = <<>>
    /\ cards = [c \in Cards |-> None] /\ refreshes = <<>>
    /\ simulation = None /\ simulations = <<>> /\ busy = FALSE
    /\ missed = {} /\ lost = 0

Loses == lost < MaxLost /\ lost' = lost + 1

-----------------------------------------------------------------------------
(* The backend's answers, as of the moment it reads the decisions.          *)

Undecided(r) == {i \in DOMAIN decided[r] : decided[r][i] = None}

\* The order of a run, and whether its review is complete.
OrderOf(r) == [run |-> r, of |-> decided[r]]
CompleteReview(order) == \A i \in Rows : order.of[i] # None

\* A page of the rows without a decision, in the order of the report.
FetchPage(r, n) ==
    {i \in Undecided(r) : 1 + Cardinality({j \in Undecided(r) : j < i}) \div FetchSize = n}
TotalPages(r) == (Cardinality(Undecided(r)) + FetchSize - 1) \div FetchSize

\* The rows of a page with their decisions; the filter "all" needs one page only.
Answer(r, f, n) ==
    IF f = "needs" THEN [i \in FetchPage(r, n) |-> None] ELSE decided[r]

Matches(decision, f) == f = "needs" => decision = None

-----------------------------------------------------------------------------
(* What several handlers do.                                                *)

Superseded(ls) == {[l EXCEPT !.current = FALSE] : l \in ls}

\* Rows that are replaced in the table lose the decisions still being saved on them.
Detached(ss) == [k \in DOMAIN ss |-> [ss[k] EXCEPT !.live = FALSE]]

TableRequest(r, f, awaited) ==
    [run |-> r, filter |-> f, current |-> TRUE, awaited |-> awaited, counter |-> None,
     pages |-> <<>>]

\* loadItems: the newest request supersedes those before.
LoadItems(silent, awaited) ==
    IF base' = None THEN UNCHANGED <<loads, panel>>
    ELSE /\ Cardinality(loads) < MaxLoads
         /\ loads' = Superseded(loads) \union {TableRequest(base', filter', awaited)}
         /\ panel' = IF silent THEN panel ELSE "loading"

\* A mistaken resetItems that lets requests under way fill the table later.
ResetItemsOnly(r) ==
    /\ base' = r /\ filter' = "all" /\ resolved' = FALSE
    /\ table' = NoTable /\ counter' = None
    /\ saves' = Detached(saves)
    /\ IF r = None THEN loads' = loads /\ panel' = "hidden"
       ELSE loads' = loads \union {TableRequest(r, "all", TRUE)} /\ panel' = "loading"

\* resetItems; with a run it is activateItems, which asks for the run's rows as well.
ResetItems(r) ==
    /\ base' = r /\ filter' = "all" /\ resolved' = FALSE
    /\ table' = NoTable /\ counter' = None
    /\ saves' = Detached(saves)
    /\ IF r = None THEN loads' = Superseded(loads) /\ panel' = "hidden"
       ELSE loads' = Superseded(loads) \union {TableRequest(r, "all", TRUE)} /\ panel' = "loading"

\* resetExports and resetBudgetOptimization.
ResetCards ==
    /\ cards' = [c \in Cards |-> IF c = "supplier" THEN None ELSE cards[c]]
    /\ simulation' = None /\ busy' = FALSE
    /\ UNCHANGED <<refreshes, simulations>>

\* refreshFinalOrder and refreshSupplierOrderCard ask about the page's run.
RefreshCards(r) ==
    refreshes' = refreshes \o SetToSeq({[card |-> c, run |-> r, order |-> None] : c \in Cards})

-----------------------------------------------------------------------------
(* A run.                                                                   *)

\* selectFile, with a report or with something that is refused.
SelectFile(ok) ==
    /\ file' = ok /\ results' = FALSE
    /\ ResetCards /\ ResetItems(None)
    /\ UNCHANGED <<created, active, runId, timers, serverVars>>

\* submitRun sends the report.
SubmitRun ==
    /\ active = "idle" /\ file
    /\ active' = "sent" /\ results' = FALSE
    /\ ResetCards /\ ResetItems(None)
    /\ UNCHANGED <<created, file, runId, timers, serverVars>>

\* The run is calculated and the answer names it.
RunAnswered ==
    /\ active = "sent" /\ created < MaxRuns
    /\ created' = created + 1 /\ runId' = created'
    /\ active' = "opening"
    /\ UNCHANGED <<file, results, tableVars, timers, saves, cardVars, budgetVars, serverVars>>

\* Its summary and its files have come: the page shows them, asks for the cards and
\* for the rows, and waits for the rows.
RunShown ==
    /\ active = "opening" /\ active' = "filling"
    /\ results' = TRUE
    /\ cards' = [c \in Cards |-> IF c = "final"
                                 THEN [run |-> runId, of |-> [i \in Rows |-> None]] ELSE None]
    /\ RefreshCards(runId) /\ ResetItems(runId)
    /\ Cardinality(loads) < MaxLoads
    /\ UNCHANGED <<created, file, runId, timers, budgetVars, serverVars>>

RunFails ==
    /\ active \in {"sent", "opening"} /\ Loses
    /\ active' = "idle"
    /\ UNCHANGED <<created, file, results, runId, tableVars, timers, saves, cardVars, budgetVars,
                   decided, missed>>

-----------------------------------------------------------------------------
(* The table.                                                               *)

\* selectFilter; sorting, searching and turning pages load the rows in the same way.
SelectFilter(f) ==
    /\ panel # "hidden"
    /\ UNCHANGED base /\ filter' = f /\ LoadItems(FALSE, FALSE)
    /\ UNCHANGED <<runVars, resolved, table, counter, timers, saves, cardVars, budgetVars,
                   serverVars>>

Replace(l, new) == loads' = (loads \ {l}) \union {new}

\* The backend answers the first page, which says how many there are, ...
ServeFirst(l) ==
    /\ l.pages = <<>>
    /\ LET total == IF l.filter = "needs" /\ Undecided(l.run) # {} THEN TotalPages(l.run) ELSE 1
       IN Replace(l, [l EXCEPT
            !.counter = Cardinality(Undecided(l.run)),
            !.pages = [n \in 1 .. total |-> IF n = 1 THEN Answer(l.run, l.filter, 1) ELSE None]])
    /\ UNCHANGED <<runVars, base, filter, resolved, panel, table, counter, timers, saves, cardVars,
                   budgetVars, serverVars>>

\* ... and the other pages, each at its own moment.
ServePage(l, n) ==
    /\ n \in DOMAIN l.pages /\ l.pages[n] = None
    /\ Replace(l, [l EXCEPT !.pages[n] = Answer(l.run, l.filter, n)])
    /\ UNCHANGED <<runVars, base, filter, resolved, panel, table, counter, timers, saves, cardVars,
                   budgetVars, serverVars>>

Served(l) == l.pages # <<>> /\ \A n \in DOMAIN l.pages : l.pages[n] # None

\* The rows of all pages; those to decide get their buttons.
RowsOf(l) ==
    LET Page(i) == CHOOSE n \in DOMAIN l.pages : i \in DOMAIN l.pages[n] IN
    [i \in UNION {DOMAIN l.pages[n] : n \in DOMAIN l.pages} |->
        LET d == l.pages[Page(i)][i] IN [decision |-> d, buttons |-> d = None, hidden |-> FALSE]]

Default(l) == IF l.counter > 0 THEN "needs" ELSE "all"

\* Whoever waits for the first rows of a run goes on.
Awaited(l) == active' = IF l.awaited THEN "idle" ELSE active

\* The newest request fills the table, but the first one of a run may show that the
\* other filter is to be selected.
LoadAnswered(l) ==
    /\ Served(l)
    /\ \/ /\ ~l.current
          /\ loads' = loads \ {l} /\ Awaited(l)
          /\ UNCHANGED <<base, filter, resolved, panel, table, counter, saves>>
       \/ /\ l.current /\ ~resolved /\ Default(l) # filter
          /\ resolved' = TRUE /\ filter' = Default(l) /\ counter' = l.counter
          /\ loads' = (loads \ {l}) \union
                {TableRequest(r, Default(l), l.awaited) : r \in {base} \ {None}}
          /\ panel' = IF base = None THEN panel ELSE "loading"
          /\ UNCHANGED <<base, table, saves, active>>
       \/ /\ l.current /\ (resolved \/ Default(l) = filter)
          /\ resolved' = TRUE /\ counter' = l.counter
          /\ loads' = loads \ {l} /\ Awaited(l)
          /\ table' = [run |-> l.run, rows |-> RowsOf(l)] /\ panel' = "ready"
          /\ saves' = Detached(saves)
          /\ UNCHANGED <<base, filter>>
    /\ UNCHANGED <<created, file, results, runId, timers, cardVars, budgetVars, serverVars>>

LoadFails(l) ==
    /\ Loses
    /\ loads' = loads \ {l} /\ Awaited(l)
    /\ panel' = IF l.current THEN "error" ELSE panel
    /\ UNCHANGED <<created, file, results, runId, base, filter, resolved, table, counter, timers,
                   saves, cardVars, budgetVars, decided, missed>>

-----------------------------------------------------------------------------
(* A decision.                                                              *)

\* The owner confirms a decision on a row of the table; it goes to the run of base.
Confirm(i, choice) ==
    /\ panel = "ready" /\ i \in DOMAIN table.rows
    /\ table.rows[i].buttons /\ ~table.rows[i].hidden
    /\ \A k \in DOMAIN saves : ~(saves[k].live /\ saves[k].row = i /\ saves[k].stage # "over")
    /\ Len(saves) < MaxSaves
    /\ saves' = Append(saves, [run |-> base, seen |-> table.run, row |-> i, choice |-> choice,
                               stage |-> "sent", live |-> TRUE, counter |-> None])
    /\ UNCHANGED <<runVars, tableVars, timers, cardVars, budgetVars, serverVars>>

Store(k) ==
    LET s == saves[k] IN
    /\ s.stage = "sent"
    /\ decided' = [decided EXCEPT ![s.run][s.row] = s.choice]
    /\ saves' = [saves EXCEPT ![k].stage = "stored",
                              ![k].counter = Cardinality(Undecided(s.run) \ {s.row})]
    /\ UNCHANGED <<runVars, tableVars, timers, cardVars, budgetVars, missed, lost>>

\* A mistaken onSaved: the row is hidden, and no other rows are asked for.
SavedWithoutReload(k) ==
    LET s == saves[k]
        stays == Matches(s.choice, filter) IN
    /\ s.stage = "stored"
    /\ saves' = [saves EXCEPT ![k].stage = "over"]
    /\ table' = IF s.live THEN [table EXCEPT !.rows[s.row].decision = s.choice,
                                             !.rows[s.row].hidden = ~stays] ELSE table
    /\ counter' = s.counter
    /\ RefreshCards(runId) /\ simulation' = None
    /\ UNCHANGED <<runVars, base, filter, resolved, panel, loads, timers, cards, simulations, busy,
                   serverVars>>

\* The answer changes the row, unless the table was filled anew, and the counter; the
\* cards are asked for, and a row that leaves the filter makes the table load again.
SaveAnswered(k) ==
    LET s == saves[k]
        stays == Matches(s.choice, filter) IN
    /\ s.stage = "stored"
    /\ saves' = [saves EXCEPT ![k].stage = "over"]
    /\ table' = IF s.live THEN [table EXCEPT !.rows[s.row].decision = s.choice,
                                             !.rows[s.row].hidden = ~stays] ELSE table
    /\ counter' = s.counter
    /\ RefreshCards(runId) /\ simulation' = None
    /\ timers' = IF stays THEN timers ELSE timers + 1
    /\ UNCHANGED <<runVars, base, filter, resolved, panel, loads, cards, simulations, busy,
                   serverVars>>

\* The request fails or its answer is lost: the page says that nothing has changed.
SaveFails(k) ==
    LET s == saves[k] IN
    /\ s.stage \in {"sent", "stored"} /\ Loses
    /\ saves' = [saves EXCEPT ![k].stage = "over"]
    /\ missed' = IF s.stage = "stored" THEN missed \union {s.run} ELSE missed
    /\ UNCHANGED <<runVars, tableVars, timers, cardVars, budgetVars, decided>>

\* The scheduled reload.
Reload ==
    /\ timers > 0 /\ timers' = timers - 1
    /\ UNCHANGED <<base, filter>> /\ LoadItems(TRUE, FALSE)
    /\ UNCHANGED <<runVars, resolved, table, counter, saves, cardVars, budgetVars, serverVars>>

-----------------------------------------------------------------------------
(* The cards.                                                               *)

ServeCard(k) ==
    /\ refreshes[k].order = None
    /\ refreshes' = [refreshes EXCEPT ![k].order = OrderOf(refreshes[k].run)]
    /\ UNCHANGED <<runVars, tableVars, timers, saves, cards, budgetVars, serverVars>>

\* The page shows the answer that comes; the supplier's file exists for a complete order.
CardAnswered(k) ==
    LET q == refreshes[k] IN
    /\ q.order # None
    /\ cards' = [cards EXCEPT ![q.card] =
                    IF q.card = "supplier" /\ ~CompleteReview(q.order) THEN None ELSE q.order]
    /\ refreshes' = RemoveAt(refreshes, k)
    /\ UNCHANGED <<runVars, tableVars, timers, saves, budgetVars, serverVars>>

CardFails(k) ==
    /\ Loses /\ refreshes' = RemoveAt(refreshes, k)
    /\ UNCHANGED <<runVars, tableVars, timers, saves, cards, budgetVars, decided, missed>>

\* submitBudgetOptimization.
Simulate ==
    /\ results /\ ~busy /\ busy' = TRUE
    /\ Len(simulations) < MaxSimulations
    /\ simulations' = Append(simulations, [run |-> runId, order |-> None])
    /\ UNCHANGED <<runVars, tableVars, timers, saves, cardVars, simulation, serverVars>>

\* The backend cuts a complete order and refuses another.
ServeSimulation(k) ==
    LET order == OrderOf(simulations[k].run) IN
    /\ simulations[k].order = None
    /\ \/ /\ CompleteReview(order)
          /\ simulations' = [simulations EXCEPT ![k].order = order]
          /\ UNCHANGED busy
       \/ /\ ~CompleteReview(order)
          /\ simulations' = RemoveAt(simulations, k) /\ busy' = FALSE
    /\ UNCHANGED <<runVars, tableVars, timers, saves, cardVars, simulation, serverVars>>

SimulationAnswered(k) ==
    /\ simulations[k].order # None
    /\ simulation' = simulations[k].order
    /\ simulations' = RemoveAt(simulations, k) /\ busy' = FALSE
    /\ UNCHANGED <<runVars, tableVars, timers, saves, cardVars, serverVars>>

SimulationFails(k) ==
    /\ Loses /\ simulations' = RemoveAt(simulations, k) /\ busy' = FALSE
    /\ UNCHANGED <<runVars, tableVars, timers, saves, cardVars, simulation, decided, missed>>

-----------------------------------------------------------------------------
PageNext ==
    \/ \E ok \in BOOLEAN : SelectFile(ok)
    \/ SubmitRun \/ RunAnswered \/ RunShown \/ RunFails
    \/ \E f \in {"all", "needs"} : SelectFilter(f)
    \/ \E l \in loads : ServeFirst(l) \/ LoadAnswered(l) \/ LoadFails(l)
    \/ \E l \in loads : \E n \in DOMAIN l.pages : ServePage(l, n)
    \/ \E i \in Rows, choice \in Decisions : Confirm(i, choice)
    \/ \E k \in DOMAIN saves : Store(k) \/ SaveAnswered(k) \/ SaveFails(k)
    \/ Reload
    \/ \E k \in DOMAIN refreshes : ServeCard(k) \/ CardAnswered(k) \/ CardFails(k)
    \/ Simulate
    \/ \E k \in DOMAIN simulations :
           ServeSimulation(k) \/ SimulationAnswered(k) \/ SimulationFails(k)

PageSpec == PageInit /\ [][PageNext]_pageVars

-----------------------------------------------------------------------------
\* Types.
PageTypeOK ==
    /\ decided \in [RunIds -> [Rows -> Decisions \union {None}]]
    /\ created \in 0 .. MaxRuns /\ runId \in RunIds \union {None}
    /\ active \in {"idle", "sent", "opening", "filling"}
    /\ base \in RunIds \union {None} /\ filter \in {"all", "needs"}
    /\ panel \in {"hidden", "loading", "ready", "error"}
    /\ table.run \in RunIds \union {None} /\ DOMAIN table.rows \subseteq Rows
    /\ Len(saves) <= MaxSaves /\ missed \subseteq RunIds

\* A decision goes to the run of the row on which the owner took it, and the rows are
\* those of the run whose order the cards are about: a table that is filled by a late
\* answer, while another run is opened, would store his decisions elsewhere.
DecisionForShownRun ==
    /\ \A k \in DOMAIN saves : saves[k].run = saves[k].seen
    /\ panel = "ready" => table.run = base /\ base = runId

\* Nothing is under way that will change the table.
AtRest ==
    /\ timers = 0 /\ \A l \in loads : ~l.current
    /\ \A k \in DOMAIN saves : saves[k].stage = "over"

\* Whenever the tab of rows to decide comes to rest, it lists every row without a
\* decision and no other, and its counter says how many: whatever order the answers
\* came in, and though rows moved between the pages while they were fetched.  The
\* exception is a run of which the page was told that a stored decision had failed.
NeedsTabTrue ==
    filter = "needs" /\ panel = "ready" /\ AtRest /\ base \notin missed =>
        /\ {i \in DOMAIN table.rows : ~table.rows[i].hidden} = Undecided(base)
        /\ counter = Cardinality(Undecided(base))

\* The page, the API and the files show one order: when every answer has come and none
\* was lost, the cards and the simulated budget are about the run's present decisions.
CardsShowFinalOrder ==
    results /\ lost = 0 /\ refreshes = <<>> /\ simulations = <<>> /\ active = "idle" /\ AtRest =>
        /\ \A c \in Cards : cards[c] # None => cards[c] = OrderOf(runId)
        /\ simulation # None => simulation = OrderOf(runId)
=============================================================================
