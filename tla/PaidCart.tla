-------------------------------- MODULE PaidCart --------------------------------
(***************************************************************************)
(* The cart in the browser's storage and what is taken out of it when an   *)
(* order is paid.  The cart changes while the order is submitted and paid, *)
(* in other tabs too; a snapshot kept with the cart says which units an    *)
(* order may still take.  Units of one product are alike: the ones that    *)
(* came first are counted as leaving first.                                *)
(***************************************************************************)
EXTENDS Absent, Integers, Sequences, FiniteSets

CONSTANTS
    Skus,
    Keys,       \* retry keys of submissions; a key also names its order at the server
    MaxUnits,   \* bound: units of a product that are ever put into the cart
    Limit       \* orders one background check asks about (12 in the code)

ASSUME CartAssumption ==
    /\ MaxUnits \in Nat /\ Limit \in Nat
    /\ None \notin [key : Keys, lines : [Skus -> Nat]]

VARIABLES
    cart,       \* sku -> units
    snapshots,  \* key -> None or what the cart held for the order
    receipts,   \* the keys that have a snapshot, oldest first
    drawn,      \* keys drawn
    form,       \* None or the submission under way
    attempt,    \* None or the last attempt, which a retry with the same data repeats
    accepted,   \* key -> None or the lines of the order at the server
    paidOrders, \* keys of paid orders
    gone,       \* bookkeeping: sku -> units that have ever left the cart
    upTo        \* bookkeeping: key -> sku -> units that had ever come when the snapshot was made

cartVars == <<cart, snapshots, receipts, drawn, form, attempt, accepted, paidOrders, gone, upTo>>

Lines == [Skus -> 0 .. MaxUnits]
Nothing == [s \in Skus |-> 0]

Snapshots == [lines : Lines, remaining : Lines, bound : BOOLEAN, cleaned : BOOLEAN]
Forms == [key : Keys, lines : Lines, step : {"captured", "selected", "accepted"}]

CartInit ==
    /\ cart = Nothing /\ gone = Nothing
    /\ snapshots = [k \in Keys |-> None] /\ receipts = <<>> /\ drawn = {}
    /\ form = None /\ attempt = None
    /\ accepted = [k \in Keys |-> None] /\ paidOrders = {}
    /\ upTo = [k \in Keys |-> Nothing]

Less(a, b) == IF a < b THEN a ELSE b
Minus(a, b) == IF a > b THEN a - b ELSE 0

\* A mistaken reduceSnapshots: only the snapshots that are bound to an order.
ReducedIfBound(removed) ==
    [k \in Keys |-> IF snapshots[k] = None \/ ~snapshots[k].bound THEN snapshots[k]
        ELSE [snapshots[k] EXCEPT !.remaining = [s \in Skus |-> Minus(snapshots[k].remaining[s], removed[s])]]]

\* reduceSnapshots for every product: what leaves the cart leaves every snapshot.
Reduced(removed) ==
    [k \in Keys |-> IF snapshots[k] = None THEN None
        ELSE [snapshots[k] EXCEPT !.remaining = [s \in Skus |-> Minus(snapshots[k].remaining[s], removed[s])]]]

Removed(new) == [s \in Skus |-> Minus(cart[s], new[s])]

\* A bound of the model: no more than MaxUnits units of a product ever come.
Room(new) == \A s \in Skus : gone[s] + new[s] + Removed(new)[s] <= MaxUnits

\* The cart becomes new and what left it is noted.
Leave(removed) == gone' = [s \in Skus |-> gone[s] + removed[s]]

RestOfCart == UNCHANGED <<receipts, drawn, form, attempt, accepted, paidOrders, upTo>>

-----------------------------------------------------------------------------
(* The cart page and the catalogue.  A write that fails changes nothing.     *)

\* addLine
AddLine(s) ==
    LET New == [cart EXCEPT ![s] = cart[s] + 1] IN
    /\ Room(New)
    /\ cart' = New
    /\ UNCHANGED <<snapshots, gone>> /\ RestOfCart

\* setLineQuantity
SetLineQuantity(s, n) ==
    LET New == [cart EXCEPT ![s] = n] IN
    /\ cart[s] > 0 /\ Room(New)
    /\ cart' = New
    /\ snapshots' = Reduced(Removed(New)) /\ Leave(Removed(New))
    /\ RestOfCart

\* clearCart
ClearCart ==
    /\ cart' = Nothing
    /\ snapshots' = Reduced(cart) /\ Leave(cart)
    /\ RestOfCart

\* writeCart: whatever replaces the cart counts as new.
WriteCart(new) ==
    /\ \A s \in Skus : gone[s] + cart[s] + new[s] <= MaxUnits
    /\ cart' = new
    /\ snapshots' = Reduced(cart) /\ Leave(cart)
    /\ RestOfCart

-----------------------------------------------------------------------------
(* The checkout form.                                                        *)

\* submit begins: capturePaymentCart under a new key.  The lines are those the page
\* shows, which another tab may have changed since; the write may fail.
Capture(k, lines) ==
    /\ form = None /\ k \notin drawn /\ lines # Nothing
    /\ drawn' = drawn \union {k}
    /\ form' = [key |-> k, lines |-> lines, step |-> "captured"]
    /\ upTo' = [upTo EXCEPT ![k] = [s \in Skus |-> gone[s] + cart[s]]]
    /\ \/ /\ snapshots' = [snapshots EXCEPT ![k] =
                [lines |-> lines, remaining |-> [s \in Skus |-> Less(lines[s], cart[s])],
                 bound |-> FALSE, cleaned |-> FALSE]]
          /\ receipts' = Append(receipts, k)
       \/ UNCHANGED <<snapshots, receipts>>
    /\ UNCHANGED <<cart, attempt, accepted, paidOrders, gone>>

\* selectPaymentCartAttempt: the same data keep the key of the last attempt, and the
\* snapshot just made goes.
Select ==
    /\ form # None /\ form.step = "captured"
    /\ \/ /\ attempt' = [key |-> form.key, lines |-> form.lines]
          /\ form' = [form EXCEPT !.step = "selected"]
          /\ UNCHANGED <<snapshots, receipts>>
       \/ /\ attempt # None /\ attempt.lines = form.lines
          /\ form' = [form EXCEPT !.key = attempt.key, !.step = "selected"]
          /\ \/ /\ snapshots' = [snapshots EXCEPT ![form.key] = None]
                /\ receipts' = SelectSeq(receipts, LAMBDA k : k # form.key)
             \/ UNCHANGED <<snapshots, receipts>>
          /\ UNCHANGED attempt
    /\ UNCHANGED <<cart, drawn, accepted, paidOrders, gone, upTo>>

\* POST /api/order-requests: accepted once per key; the answer may not arrive.
Accept ==
    /\ form # None /\ form.step = "selected"
    /\ \/ /\ accepted' = [accepted EXCEPT ![form.key] = form.lines]
          /\ \/ form' = [form EXCEPT !.step = "accepted"]
             \/ form' = None
       \/ form' = None /\ UNCHANGED accepted
    /\ UNCHANGED <<cart, snapshots, receipts, drawn, attempt, paidOrders, gone, upTo>>

\* bindPaymentCart, which may fail.
Bind ==
    /\ form # None /\ form.step = "accepted"
    /\ \/ /\ snapshots[form.key] # None
          /\ snapshots' = [snapshots EXCEPT ![form.key].bound = TRUE]
       \/ UNCHANGED snapshots
    /\ form' = None
    /\ UNCHANGED <<cart, receipts, drawn, attempt, accepted, paidOrders, gone, upTo>>

\* The page is closed or loaded again; the attempt may be remembered for the tab.
Reload ==
    /\ form' = None /\ attempt' \in {None, attempt}
    /\ <<form, attempt>>' # <<form, attempt>>
    /\ UNCHANGED <<cart, snapshots, receipts, drawn, accepted, paidOrders, gone, upTo>>

-----------------------------------------------------------------------------
(* Payment.                                                                  *)

\* The server learns that an order is paid.
BecomePaid(k) ==
    /\ accepted[k] # None /\ k \notin paidOrders
    /\ paidOrders' = paidOrders \union {k}
    /\ UNCHANGED <<cart, snapshots, receipts, drawn, form, attempt, accepted, gone, upTo>>

\* What reconcilePaidCartItems takes out.
Taken(k) == [s \in Skus |-> Less(cart[s], snapshots[k].remaining[s])]

\* applyConfirmedPayment and reconcilePaidCartItems: only an order whose snapshot has
\* its number and its lines, and only once.
CleanPaid(k) ==
    /\ k \in paidOrders
    /\ snapshots[k] # None /\ snapshots[k].bound
    /\ snapshots[k].lines = accepted[k] /\ ~snapshots[k].cleaned
    /\ cart' = [s \in Skus |-> cart[s] - Taken(k)[s]]
    /\ snapshots' = [Reduced(Taken(k)) EXCEPT ![k].cleaned = TRUE]
    /\ Leave(Taken(k))
    /\ RestOfCart

\* A mistaken list: only orders of which everything is still there.
PendingIfWhole ==
    {k \in Keys : /\ snapshots[k] # None /\ snapshots[k].bound /\ ~snapshots[k].cleaned
                  /\ snapshots[k].remaining = snapshots[k].lines}

\* pendingPaymentRequestIds before it is cut
Pending ==
    {k \in Keys : /\ snapshots[k] # None /\ snapshots[k].bound /\ ~snapshots[k].cleaned
                  /\ \E s \in Skus : snapshots[k].remaining[s] > 0}

Before(j, k) == \E m, n \in DOMAIN receipts : receipts[m] = j /\ receipts[n] = k /\ m < n

\* reconcilePendingPaidCart: the background check of every page asks about the first of them.
Sync(k) ==
    /\ k \in Pending
    /\ Cardinality({j \in Pending : Before(j, k)}) < Limit
    /\ CleanPaid(k)

CartNext ==
    \/ \E s \in Skus : AddLine(s) \/ \E n \in 0 .. MaxUnits : SetLineQuantity(s, n)
    \/ ClearCart \/ \E new \in Lines : WriteCart(new)
    \/ \E k \in Keys, lines \in Lines : Capture(k, lines)
    \/ Select \/ Accept \/ Bind \/ Reload
    \/ \E k \in Keys : BecomePaid(k) \/ CleanPaid(k) \/ Sync(k)

CartSpec == CartInit /\ [][CartNext]_cartVars

-----------------------------------------------------------------------------
\* The types, but for the order of the receipts, a sequence of keys.
CartTypeOK ==
    /\ cart \in Lines /\ gone \in Lines
    /\ snapshots \in [Keys -> Snapshots \union {None}]
    /\ drawn \subseteq Keys
    /\ form \in Forms \union {None}
    /\ attempt \in [key : Keys, lines : Lines] \union {None}
    /\ accepted \in [Keys -> Lines \union {None}] /\ paidOrders \subseteq Keys
    /\ upTo \in [Keys -> Lines]

\* A paid order takes only units that were in the cart when it was submitted: what came
\* later stays, though the cart changed in between, another order took some of the same
\* units, or the cart was emptied and filled again (reduceSnapshots on every path).
LaterUnitsStay ==
    [][\A k \in Keys, s \in Skus :
          CleanPaid(k) /\ gone'[s] > gone[s] => gone'[s] <= upTo[k][s]]_cartVars

\* The paid orders that still have units in the cart take them out in the end, if the
\* background check can ask about them all, without the customer coming back to the success
\* page (reconcilePendingPaidCart), unless the customer removes them first.
Owed(k) ==
    /\ k \in paidOrders /\ snapshots[k] # None /\ snapshots[k].bound /\ ~snapshots[k].cleaned
    /\ \E s \in Skus : snapshots[k].remaining[s] > 0

PaidIsCleaned == []<>(Cardinality(Keys) <= Limit => \A k \in Keys : ~Owed(k))
=============================================================================
