------------------------------- MODULE MCPipeline -------------------------------
(***************************************************************************)
(* One run for six stages of an order: what the pipeline makes of a row    *)
(* of the report (OrderLine), the owner's approved rules (ApprovedRules),  *)
(* the draft matrix (MatrixDraft) and the owner's words on it              *)
(* (OwnerWords), his review of the run (OrderReview) and the cut to a      *)
(* budget (BudgetCut).  They are checked apart, on inputs wider than the   *)
(* stage before gives: a behaviour is one stage's, the one in focus, and   *)
(* the variables of the others are None.                                   *)
(***************************************************************************)
EXTENDS MCOrderReview, OrderLine, ApprovedRules, BudgetCut, MatrixDraft, OwnerWords

VARIABLE focus

-----------------------------------------------------------------------------
(* A row differs from an ordinary one in at most two columns, or in three   *)
(* when the stock is blank.                                                 *)

History(weekly, reported, low) == [weekly |-> weekly, reported |-> reported, low |-> low]
NoWeeks == <<None, None, None>>
Ordinary ==
    [free |-> 2, zeroDays |-> FALSE, reserve |-> 1, excluded |-> FALSE, orderQty |-> 3,
     sales |-> History(<<1, 2, 4>>, None, FALSE), supplier |-> "other", class |-> "A/X"]
Histories ==
    {History(w, None, FALSE) : w \in {NoWeeks, <<0, 0, 0>>, <<1, 2, 4>>, <<14, 14, 14>>}}
    \union {History(NoWeeks, r, TRUE) : r \in {1, -1}}
Columns ==
    [free : {None, -1, 0, 2}, zeroDays : BOOLEAN, reserve : {None, -1, 1}, excluded : BOOLEAN,
     orderQty : {None, 0, 3}, sales : Histories, supplier : {"valta", "other"},
     class : {"A/X", "A/Z", "C/Y", "unknown"}]
Unusual(r) == Cardinality({c \in DOMAIN r : r[c] # Ordinary[c]})
MCReports == {r \in Columns : Unusual(r) <= IF r.free = None THEN 3 ELSE 2}

Policy(status, min, max, target, hold, mandatory, first, active, verified) ==
    [status |-> status, min |-> min, max |-> max, target |-> target, hold |-> hold,
     holdUntil |-> 0, mandatory |-> mandatory, first |-> first, active |-> active,
     verified |-> verified]
MCRules ==
    {Policy("CORE", 1, 3, 2, "no", TRUE, FALSE, TRUE, FALSE),
     Policy("CORE", None, 3, None, "until", FALSE, FALSE, TRUE, FALSE),
     Policy("EXIT", None, None, None, "no", FALSE, FALSE, FALSE, FALSE),
     Policy("TEST", None, 3, 2, "no", FALSE, TRUE, FALSE, TRUE),
     Policy("TEST", None, 3, 2, "no", FALSE, FALSE, TRUE, TRUE),
     Policy("CORE", None, None, None, "full", TRUE, FALSE, TRUE, FALSE)}

MCMinimums == {2, 5}

-----------------------------------------------------------------------------
(* Orders of three lines with every budget up to more than they cost.       *)

FinalLine(choice, price, count, protected) ==
    [decision |-> choice, price |-> price, quantity |-> count, protected |-> protected]
FinalLines ==
    {FinalLine("auto", p, q, FALSE) : p \in {1, 2, 5}, q \in {1, 3}}
    \union {FinalLine("auto", 2, 2, TRUE), FinalLine("manual", 3, 2, FALSE)}

AgentLine(choice, price, count, minimum, mandatory, gap) ==
    [decision |-> choice, price |-> price, quantity |-> count, minimum |-> minimum,
     mandatory |-> mandatory, gap |-> gap]
AgentLines ==
    {AgentLine("postpone", 2, 2, 0, TRUE, 2), AgentLine("manual_review", 3, 2, 0, FALSE, None),
     AgentLine("recommended", 2, 3, 2, FALSE, None), AgentLine("recommended", 3, 2, 0, TRUE, None),
     AgentLine("do_not_buy", 5, 1, 0, FALSE, None), AgentLine("must_buy", 3, 2, 0, FALSE, None),
     AgentLine("buy", 2, 2, 0, FALSE, None)}

ThreeOf(S) == {<<a, b, c>> : a \in S, b \in S, c \in S}
MCSimulations ==
    [from : {"final_order"}, lines : ThreeOf(FinalLines), target : 0 .. 18]
    \union [from : {"agent"}, lines : ThreeOf(AgentLines), target : 0 .. 16]

-----------------------------------------------------------------------------
(* Two rows, a rule about the first's article and one about either row's    *)
(* article or barcode; the articles are the same or not.                    *)

Calculated(choice, approved, price, keys) ==
    [decision |-> choice, approved |-> approved, price |-> price, keys |-> keys,
     application |-> None]
Keys == {<<<<"S1", "B1">>, <<"S2">>>>, <<<<"S1", "B1">>, <<"S1">>>>}
TwoRows(choices, approved, prices, amounts) ==
    {[lines |-> ("r1" :> Calculated(d, approved[d], p, k[1]))
                @@ ("r2" :> Calculated(e, approved[e], 3, k[2])),
      available |-> m, reserve |-> 2, warning |-> 1] :
        d \in choices, e \in choices \intersect {"must_buy", "postpone"}, p \in prices, k \in Keys,
        m \in amounts}
ApprovedOf ==
    "must_buy" :> 2 @@ "recommended" :> 1 @@ "postpone" :> 0 @@ "do_not_buy" :> None
    @@ "manual_review" :> None
MCCalculations ==
    TwoRows(DOMAIN ApprovedOf, ApprovedOf, {2}, {5, 9})
    \union TwoRows({"must_buy"}, ApprovedOf, {2, None}, {None, 20})

Rule(status, key, choice, valid) ==
    [status |-> status, key |-> key, decision |-> choice, valid |-> valid]
MCRegistries ==
    {("one" :> f) @@ ("two" :> g) :
        f \in {Rule(s, "S1", d, TRUE) : s \in {"ACTIVE", "DISABLED"}, d \in {"BUY", "SKIP", "DEFER"}}
             \union {Rule("ACTIVE", "S1", "SKIP", FALSE)},
        g \in {Rule(s, k, d, TRUE) : s \in {"ACTIVE", "DISABLED"}, k \in {"S1", "S2", "B1"},
                                     d \in {"SKIP", "DEFER"}}}

-----------------------------------------------------------------------------
(* Rows that differ in at most two columns from one that may be ordered.    *)

MatrixItem(priority, min, target, status) ==
    [priority |-> priority, min |-> min, target |-> target, allowZero |-> FALSE,
     status |-> status]
Exact(role, priority) == [role |-> role, priority |-> priority]
Sellable ==
    [sales |-> <<1, 2, 2>>, partial |-> FALSE, demand |-> FALSE, excess |-> 0, free |-> 2,
     days |-> 5, abc |-> "A", xyz |-> "X", reported |-> TRUE, stable |-> TRUE,
     ambiguous |-> FALSE, named |-> TRUE, price |-> 2, strategic |-> FALSE, shelves |-> "none",
     rule |-> None, rollout |-> 0, testing |-> FALSE, existing |-> None]
Departures ==
    [sales |-> {<<>>, <<1>>, <<0, 0, 0>>, <<0, 0, 4>>, <<2, 2, -1>>, <<2, None, 2>>,
                <<9, 0, 1, 1>>},
     partial |-> {TRUE}, demand |-> {TRUE}, excess |-> {None, -1, 2}, free |-> {None, -1, 0},
     days |-> {None, -1}, abc |-> {None, "C"}, xyz |-> {None, "Z"}, reported |-> {FALSE},
     stable |-> {FALSE}, ambiguous |-> {TRUE}, named |-> {FALSE}, price |-> {None, 30},
     strategic |-> {TRUE}, shelves |-> {"enough", "short"},
     rule |-> {Exact("IMAGE", None), Exact("EXIT", "important")}, rollout |-> {40},
     testing |-> {TRUE},
     existing |-> {MatrixItem("critical", 1, 4, "approved"),
                   MatrixItem("standard", 1, 5, "approved"),
                   MatrixItem("standard", 0, 0, "approved"),
                   MatrixItem("important", 2, 3, "placeholder"),
                   MatrixItem("important", 2, 3, "requires_confirmation")}]
Varied(S) ==
    S \union UNION {{[r EXCEPT ![f] = v] : v \in Departures[f]} :
                    r \in S, f \in DOMAIN Departures}
Slow == [Sellable EXCEPT !.abc = "C", !.xyz = "Z", !.sales = <<0, 0, 0>>]
MCCases == Varied(Varied({Sellable, Slow}))

Part(n, d) == [num |-> n, den |-> d]

\* Windows of the base, the preferred and the short weeks and how many must be readable.
Windows(base, preferred, short, enough) ==
    [base |-> base, preferred |-> preferred, short |-> short, enough |-> enough,
     coreWeeks |-> 2, horizon |-> 3, lead |-> 1, growthCap |-> Part(3, 2),
     coreAverage |-> Part(3, 2), coreActive |-> Part(1, 2),
     targetCover |-> 2, maximumCover |-> 4, shelf |-> 1, shelfCover |-> Part(1, 4),
     largeDays |-> Part(5, 2), largeValue |-> 60, largeUnits |-> 20,
     valueReview |-> 60, valueCritical |-> 120]
MCConfigs == {Windows(2, 3, 1, 2), Windows(2, 3, 1, 1), Windows(2, 1, 1, 2)}

-----------------------------------------------------------------------------
(* Two rows whose identifiers differ, agree or cross over, with one word or *)
(* two about them, old or new, and three histories of the old rows.         *)

Product(article, barcode, name, internal) ==
    [article |-> article, barcode |-> barcode, name |-> name, internal |-> internal]
Proposed(role, conflict, queues, costly) ==
    [role |-> role, priority |-> "standard", min |-> 1, target |-> 3, max |-> 5,
     allowZero |-> role = "EXIT", conflict |-> conflict, queues |-> queues, doubts |-> {},
     costly |-> costly, awaits |-> costly]
Leaving == Proposed("EXIT", FALSE, {"exit_review"}, FALSE)
MCDrafts ==
    {("r1" :> (p[1] @@ i)) @@ ("r2" :> (p[2] @@ Leaving)) :
        p \in {<<Product("S1", "B1", "N1", None), Product("S2", None, "N2", None)>>,
               <<Product("S1", "B1", "N1", None), Product("S1", None, "N1", None)>>,
               <<Product(None, "B1", "N1", None), Product(None, None, "N1", "B1")>>,
               <<Product(None, None, "N1", "P1"), Product("S2", None, "N2", None)>>},
        i \in {Leaving, Proposed("CORE", FALSE, {}, FALSE),
               Proposed("OPTIONAL", TRUE, {"policy_conflict"}, FALSE),
               Proposed("OPTIONAL", FALSE, {"commercial_review", "large_inventory_review"},
                        TRUE)}}

Word(key, word, current, active, at, until) ==
    [key |-> key, word |-> word, role |-> None, levels |-> [f \in {} |-> 0],
     current |-> current, active |-> active, at |-> at, scope |-> None, expires |-> until]
Overriding(override, current) ==
    [Word(<<"article", "S1">>, "OVERRIDE_POLICY", current, TRUE, 20, None)
       EXCEPT !.levels = override]
FirstWords ==
    {Word(k, w, TRUE, TRUE, 20, None) :
        k \in {<<"article", "S1">>, <<"bare", "S1">>, <<"bare", "B1">>, <<"bare", "P1">>,
               <<"name", "N1">>, <<"row", "h1">>, <<"row", "h2">>},
        w \in {"KEEP_CORE", "KEEP_OPTIONAL", "APPROVE_EXIT", "REJECT_EXIT", "KEEP_ZERO_STOCK",
               "REQUIRE_STOCK", "ACCEPT_POLICY", "BUY", "SKIP", "DEFER"}}
    \union {Overriding(l, c) :
              l \in {"target" :> 4, "max" :> 2, "allowZero" :> TRUE,
                     ("min" :> 1) @@ ("target" :> 3)}, c \in BOOLEAN}
    \union {Word(<<"article", "S1">>, "ACCEPT_POLICY", FALSE, TRUE, 20, None),
            [Word(<<"bare", "S1">>, "KEEP_ZERO_STOCK", TRUE, TRUE, 20, None)
               EXCEPT !.role = "CORE"],
            [Word(<<"bare", "S1">>, "APPROVE_EXIT", TRUE, TRUE, 20, None)
               EXCEPT !.role = "OPTIONAL"]}
SecondWords ==
    {Word(k, w[1], TRUE, w[2], w[3], w[4]) :
        k \in {<<"article", "S1">>, <<"bare", "B1">>, <<"row", "h2">>},
        w \in {<<"KEEP_CORE", TRUE, 20, None>>, <<"KEEP_CORE", FALSE, 21, None>>,
               <<"SKIP", TRUE, 10, None>>, <<"SKIP", TRUE, 20, 38>>, <<"SKIP", TRUE, 20, None>>}}
Seen(place, article, barcode, name) ==
    [row |-> place, article |-> article, barcode |-> barcode, name |-> name]
MCWords ==
    [words : {<<w>> : w \in FirstWords} \union {<<w, v>> : w \in FirstWords, v \in SecondWords},
     history : {<<>>, <<Seen("h1", "S1", None, "N1"), Seen("h2", None, "B1", "N1")>>,
                <<Seen("h1", None, None, "N1"), Seen("h2", None, None, "N1")>>}]

-----------------------------------------------------------------------------
NoLine ==
    /\ stage = None /\ row = None /\ match = None /\ rule = None /\ order = None
    /\ product = None /\ decision = None /\ line = None
NoReview ==
    /\ run = None /\ triage = None /\ main = None /\ backups = <<>> /\ saving = None
    /\ history = {} /\ file = None /\ clock = 1 /\ faults = 0 /\ damages = 0 /\ saves = 0
    /\ acknowledged = {} /\ decided = {}
NoBudget == simulation = None /\ quantity = None /\ rank = None /\ remaining = None
NoApproval ==
    /\ calculation = None /\ mode = None /\ rules = None /\ result = None /\ ranWith = None
    /\ forecast = None

NoMatrix ==
    /\ phase = None /\ config = None /\ source = None /\ levels = None /\ verdict = None
    /\ draft = None
NoWords == step = None /\ drafts = None /\ memory = None /\ items = None /\ sections = None

Init ==
    \/ focus = "line" /\ LineInit /\ NoReview /\ NoBudget /\ NoApproval /\ NoMatrix /\ NoWords
    \/ focus = "review" /\ NoLine /\ ReviewInit /\ NoBudget /\ NoApproval /\ NoMatrix /\ NoWords
    \/ focus = "budget" /\ NoLine /\ NoReview /\ CutInit /\ NoApproval /\ NoMatrix /\ NoWords
    \/ focus = "rules" /\ NoLine /\ NoReview /\ NoBudget /\ RulesInit /\ NoMatrix
       /\ NoWords
    \/ focus = "matrix" /\ NoLine /\ NoReview /\ NoBudget /\ NoApproval /\ DraftInit
       /\ NoWords
    \/ focus = "words" /\ NoLine /\ NoReview /\ NoBudget /\ NoApproval /\ NoMatrix
       /\ WordsInit

Next ==
    \/ focus = "line" /\ LineNext
       /\ UNCHANGED <<focus, reviewVars, cutVars, ruleVars, draftVars, wordVars>>
    \/ focus = "review" /\ ReviewNext
       /\ UNCHANGED <<focus, lineVars, cutVars, ruleVars, draftVars, wordVars>>
    \/ focus = "budget" /\ CutNext
       /\ UNCHANGED <<focus, lineVars, reviewVars, ruleVars, draftVars, wordVars>>
    \/ focus = "rules" /\ RulesNext
       /\ UNCHANGED <<focus, lineVars, reviewVars, cutVars, draftVars, wordVars>>
    \/ focus = "matrix" /\ DraftNext
       /\ UNCHANGED <<focus, lineVars, reviewVars, cutVars, ruleVars, wordVars>>
    \/ focus = "words" /\ WordsNext
       /\ UNCHANGED <<focus, lineVars, reviewVars, cutVars, ruleVars, draftVars>>
=============================================================================
