----------------------------- MODULE Shop_proofs -----------------------------
(***************************************************************************)
(* Proofs about the shop.  PaidCart: for any number of products, orders    *)
(* and units, and whatever the customer does to the cart while an order is *)
(* paid, the order takes only units that were in the cart when it was      *)
(* submitted.  OrderPayments: for any number of pages, payments, shipments *)
(* and failures, no more parcels are shipped than payments were made.      *)
(***************************************************************************)
EXTENDS PaidCart, OrderPayments, FiniteSetTheorems, TLAPS

-----------------------------------------------------------------------------
(* PaidCart.                                                                *)

\* No product ever gets more units than the bound.
Bounded == \A s \in Skus : gone[s] + cart[s] <= MaxUnits

\* Only a key that was drawn has a snapshot, and what it still may take came before it was
\* made: the units that came first are counted as leaving first.
SnapshotOld(k) ==
    snapshots[k] # None =>
        /\ k \in drawn
        /\ \A s \in Skus :
              snapshots[k].remaining[s] > 0 => gone[s] + snapshots[k].remaining[s] <= upTo[k][s]

Inductive ==
    /\ CartTypeOK
    /\ Bounded
    /\ \A k \in Keys : SnapshotOld(k)

-----------------------------------------------------------------------------
LEMMA NothingTyped == Nothing \in Lines
BY CartAssumption DEF Nothing, Lines

LEMMA InitialState == CartInit => Inductive
<1> SUFFICES ASSUME CartInit PROVE Inductive
  OBVIOUS
<1>1. CartTypeOK
  BY NothingTyped DEF CartInit, CartTypeOK
<1>2. Bounded
  BY CartAssumption DEF CartInit, Bounded, Nothing
<1>3. QED
  BY <1>1, <1>2 DEF CartInit, Inductive, SnapshotOld

\* What leaves the cart leaves every snapshot too, and nothing less than all of it.
LEMMA ReducedSnapshots ==
  ASSUME Inductive, NEW removed \in [Skus -> Nat]
  PROVE  /\ Reduced(removed) \in [Keys -> Snapshots \union {None}]
         /\ \A k \in Keys : snapshots[k] = None => Reduced(removed)[k] = None
         /\ \A k \in Keys : snapshots[k] # None =>
               /\ Reduced(removed)[k] \in Snapshots
               /\ \A s \in Skus :
                     Reduced(removed)[k].remaining[s] = Minus(snapshots[k].remaining[s], removed[s])
<1> DEFINE rest(k) == [s \in Skus |-> Minus(snapshots[k].remaining[s], removed[s])]
<1>1. ASSUME NEW k \in Keys, snapshots[k] # None
      PROVE  /\ Reduced(removed)[k] \in Snapshots
             /\ \A s \in Skus :
                   Reduced(removed)[k].remaining[s] = Minus(snapshots[k].remaining[s], removed[s])
  <2>1. snapshots[k] \in Snapshots
    BY <1>1 DEF Inductive, CartTypeOK
  <2>2. rest(k) \in Lines
    BY <2>1, CartAssumption DEF Snapshots, Lines, Minus
  <2>3. Reduced(removed)[k] = [snapshots[k] EXCEPT !.remaining = rest(k)]
    BY <1>1 DEF Reduced
  <2>4. \A s \in Skus : rest(k)[s] = Minus(snapshots[k].remaining[s], removed[s])
    OBVIOUS
  <2> HIDE DEF rest
  <2>5. QED
    BY <2>1, <2>2, <2>3, <2>4 DEF Snapshots
<1>2. \A k \in Keys : snapshots[k] = None => Reduced(removed)[k] = None
  BY DEF Reduced
<1>3. Reduced(removed) = [k \in Keys |-> Reduced(removed)[k]]
  BY DEF Reduced
<1>4. QED
  BY <1>1, <1>2, <1>3

\* The cart becomes another one: what has left it is gone, from the snapshots too.
LEMMA CartReplaced ==
  ASSUME Inductive, NEW removed \in [Skus -> Nat], cart' \in Lines, Leave(removed), RestOfCart,
         \A s \in Skus : gone[s] + removed[s] + cart'[s] <= MaxUnits,
         snapshots' \in [Keys -> Snapshots \union {None}],
         \A k \in Keys : snapshots'[k] # None =>
            /\ snapshots[k] # None
            /\ \A s \in Skus :
                  snapshots'[k].remaining[s] = Minus(snapshots[k].remaining[s], removed[s])
  PROVE  Inductive'
<1>1. \A s \in Skus : gone'[s] = gone[s] + removed[s] /\ gone[s] \in Nat
  BY DEF Leave, Inductive, CartTypeOK, Lines
<1>2. gone' \in Lines
  BY <1>1, CartAssumption DEF Leave, Lines
<1>3. CartTypeOK'
  BY <1>2 DEF Inductive, CartTypeOK, RestOfCart
<1>4. Bounded'
  BY <1>1 DEF Bounded
<1>5. ASSUME NEW k \in Keys, snapshots'[k] # None
      PROVE  /\ k \in drawn'
             /\ \A s \in Skus :
                   snapshots'[k].remaining[s] > 0 => gone'[s] + snapshots'[k].remaining[s] <= upTo'[k][s]
  <2>1. snapshots[k] \in Snapshots /\ k \in drawn
    BY <1>5 DEF Inductive, CartTypeOK, SnapshotOld
  <2>2. ASSUME NEW s \in Skus, snapshots'[k].remaining[s] > 0
        PROVE  gone'[s] + snapshots'[k].remaining[s] <= upTo'[k][s]
    <3>1. snapshots[k].remaining[s] \in Nat /\ removed[s] \in Nat /\ upTo[k][s] \in Nat
      BY <2>1 DEF Snapshots, Lines, Inductive, CartTypeOK
    <3>2. snapshots'[k].remaining[s] = Minus(snapshots[k].remaining[s], removed[s])
      BY <1>5
    <3>3. snapshots[k].remaining[s] > removed[s]
          /\ snapshots'[k].remaining[s] = snapshots[k].remaining[s] - removed[s]
      BY <2>2, <3>1, <3>2 DEF Minus
    <3>4. gone[s] + snapshots[k].remaining[s] <= upTo[k][s]
      BY <1>5, <3>1, <3>3 DEF Inductive, SnapshotOld
    <3>5. upTo' = upTo
      BY DEF RestOfCart
    <3>6. QED
      BY <1>1, <3>1, <3>3, <3>4, <3>5
  <2>3. QED
    BY <2>1, <2>2 DEF RestOfCart
<1>6. QED
  BY <1>3, <1>4, <1>5 DEF Inductive, SnapshotOld

-----------------------------------------------------------------------------
(* The cart page.                                                            *)

LEMMA AddStep ==
  ASSUME Inductive, NEW s \in Skus, AddLine(s)
  PROVE  Inductive'
<1> DEFINE New == [cart EXCEPT ![s] = cart[s] + 1]
<1>1. cart' = New /\ Room(New) /\ UNCHANGED <<snapshots, gone>> /\ RestOfCart
  BY DEF AddLine
<1>2. \A t \in Skus : cart[t] \in Nat /\ gone[t] \in Nat /\ New[t] \in Nat
  BY DEF Inductive, CartTypeOK, Lines
<1>3. \A t \in Skus : gone[t] + New[t] <= MaxUnits
  BY <1>1, <1>2, CartAssumption DEF Room, Removed, Minus
<1>4. New \in Lines
  BY <1>2, <1>3, CartAssumption DEF Inductive, CartTypeOK, Lines
<1> HIDE DEF New
<1>5. CartTypeOK'
  BY <1>1, <1>4 DEF Inductive, CartTypeOK, RestOfCart
<1>6. Bounded'
  BY <1>1, <1>3 DEF Bounded
<1>7. \A k \in Keys : SnapshotOld(k)'
  BY <1>1 DEF Inductive, SnapshotOld, RestOfCart
<1>8. QED
  BY <1>5, <1>6, <1>7 DEF Inductive

LEMMA ReplaceStep ==
  ASSUME Inductive,
         \/ \E s \in Skus, n \in 0 .. MaxUnits : SetLineQuantity(s, n)
         \/ ClearCart
         \/ \E new \in Lines : WriteCart(new)
  PROVE  Inductive'
<1>1. cart \in Lines /\ gone \in Lines /\ cart \in [Skus -> Nat] /\ gone \in [Skus -> Nat]
  BY DEF Inductive, CartTypeOK, Lines
<1>2. CASE \E s \in Skus, n \in 0 .. MaxUnits : SetLineQuantity(s, n)
  <2>1. PICK s \in Skus, n \in 0 .. MaxUnits : SetLineQuantity(s, n)
    BY <1>2
  <2> DEFINE New == [cart EXCEPT ![s] = n]
             removed == Removed(New)
  <2>2. New \in Lines
    BY <1>1, CartAssumption DEF Lines
  <2>3. cart' = New /\ Room(New) /\ snapshots' = Reduced(removed) /\ Leave(removed) /\ RestOfCart
    BY <2>1 DEF SetLineQuantity
  <2> HIDE DEF New
  <2>4. removed \in [Skus -> Nat]
    BY <1>1, <2>2, CartAssumption DEF Removed, Minus, Lines
  <2>5. \A t \in Skus : gone[t] + removed[t] + New[t] <= MaxUnits
    BY <1>1, <2>2, <2>3, <2>4, CartAssumption DEF Room, Lines
  <2> HIDE DEF removed
  <2>6. QED
    BY <2>2, <2>3, <2>4, <2>5, ReducedSnapshots, CartReplaced
<1>3. CASE ClearCart
  <2>1. \A t \in Skus : gone[t] + cart[t] + Nothing[t] <= MaxUnits
    BY <1>1 DEF Inductive, Bounded, Nothing
  <2>2. QED
    BY <1>1, <1>3, <2>1, NothingTyped, ReducedSnapshots, CartReplaced DEF ClearCart
<1>4. CASE \E new \in Lines : WriteCart(new)
  BY <1>1, <1>4, ReducedSnapshots, CartReplaced DEF WriteCart
<1>5. QED
  BY <1>2, <1>3, <1>4

-----------------------------------------------------------------------------
(* The checkout form.                                                        *)

\* A new snapshot: its key is new, so there was none, and all it may take has come.
LEMMA CaptureStep ==
  ASSUME Inductive, NEW k \in Keys, NEW lines \in Lines, Capture(k, lines)
  PROVE  Inductive'
<1> DEFINE remaining == [s \in Skus |-> Less(lines[s], cart[s])]
           snapshot == [lines |-> lines, remaining |-> remaining, bound |-> FALSE, cleaned |-> FALSE]
           come == [s \in Skus |-> gone[s] + cart[s]]
<1>1. \A s \in Skus : cart[s] \in Nat /\ gone[s] \in Nat /\ lines[s] \in 0 .. MaxUnits
                     /\ gone[s] + cart[s] <= MaxUnits
  BY CartAssumption DEF Inductive, CartTypeOK, Bounded, Lines
<1>2. remaining \in Lines /\ come \in Lines
      /\ \A s \in Skus : gone[s] + remaining[s] <= come[s]
  BY <1>1, CartAssumption DEF Lines, Less
<1>3. snapshot \in Snapshots /\ snapshot.remaining = remaining
  BY <1>2 DEF Snapshots
<1>4. k \notin drawn /\ drawn' = drawn \union {k} /\ snapshots[k] = None
  BY DEF Capture, Inductive, SnapshotOld
<1>5. upTo' = [upTo EXCEPT ![k] = come] /\ UNCHANGED <<cart, attempt, accepted, paidOrders, gone>>
      /\ form' = [key |-> k, lines |-> lines, step |-> "captured"]
  BY DEF Capture
<1>6. snapshots' = [snapshots EXCEPT ![k] = snapshot] \/ UNCHANGED snapshots
  BY DEF Capture
<1> HIDE DEF remaining, snapshot, come
<1>7. upTo' \in [Keys -> Lines] /\ upTo'[k] = come /\ \A j \in Keys \ {k} : upTo'[j] = upTo[j]
  BY <1>2, <1>5 DEF Inductive, CartTypeOK
<1>8. /\ snapshots' \in [Keys -> Snapshots \union {None}]
      /\ snapshots'[k] \in {None, snapshot} /\ \A j \in Keys \ {k} : snapshots'[j] = snapshots[j]
  BY <1>3, <1>4, <1>6 DEF Inductive, CartTypeOK
<1>9. form' \in Forms
  BY <1>5 DEF Forms
<1>10. CartTypeOK'
  BY <1>4, <1>5, <1>7, <1>8, <1>9 DEF Inductive, CartTypeOK
<1>11. Bounded'
  BY <1>5 DEF Inductive, Bounded
<1>12. SnapshotOld(k)'
  BY <1>2, <1>3, <1>4, <1>5, <1>7, <1>8 DEF SnapshotOld
<1>13. ASSUME NEW j \in Keys \ {k} PROVE SnapshotOld(j)'
  BY <1>4, <1>5, <1>7, <1>8 DEF Inductive, SnapshotOld
<1>14. QED
  BY <1>10, <1>11, <1>12, <1>13 DEF Inductive

\* A step that leaves the cart alone and of the snapshots what they may take.
LEMMA SnapshotsKept ==
  ASSUME Inductive, UNCHANGED <<cart, drawn, gone, upTo>>, CartTypeOK',
         \A k \in Keys : snapshots'[k] # None =>
            snapshots[k] # None /\ snapshots'[k].remaining = snapshots[k].remaining
  PROVE  Inductive'
<1>1. Bounded'
  BY DEF Inductive, Bounded
<1>2. \A k \in Keys : SnapshotOld(k)'
  BY DEF Inductive, SnapshotOld
<1>3. QED
  BY <1>1, <1>2 DEF Inductive

LEMMA SelectStep ==
  ASSUME Inductive, Select
  PROVE  Inductive'
<1>1. form \in Forms /\ UNCHANGED <<cart, drawn, accepted, paidOrders, gone, upTo>>
  BY DEF Select, Inductive, CartTypeOK
<1>2. form.key \in Keys /\ form.lines \in Lines
  BY <1>1 DEF Forms
<1>3. CASE /\ attempt' = [key |-> form.key, lines |-> form.lines]
           /\ form' = [form EXCEPT !.step = "selected"]
           /\ UNCHANGED snapshots
  <2>1. form' \in Forms /\ attempt' \in [key : Keys, lines : Lines]
    BY <1>1, <1>2, <1>3 DEF Forms
  <2>2. CartTypeOK'
    BY <1>1, <1>3, <2>1 DEF Inductive, CartTypeOK
  <2>3. QED
    BY <1>1, <1>3, <2>2, SnapshotsKept
<1>4. CASE /\ attempt # None /\ attempt.lines = form.lines
           /\ form' = [form EXCEPT !.key = attempt.key, !.step = "selected"]
           /\ snapshots' = [snapshots EXCEPT ![form.key] = None] \/ UNCHANGED snapshots
           /\ UNCHANGED attempt
  <2>1. attempt.key \in Keys
    BY <1>4 DEF Inductive, CartTypeOK
  <2>2. form' \in Forms
    BY <1>1, <1>4, <2>1 DEF Forms
  <2>3. snapshots' \in [Keys -> Snapshots \union {None}]
        /\ \A k \in Keys : snapshots'[k] # None => snapshots'[k] = snapshots[k]
    BY <1>2, <1>4 DEF Inductive, CartTypeOK
  <2>4. CartTypeOK'
    BY <1>1, <1>4, <2>2, <2>3 DEF Inductive, CartTypeOK
  <2>5. QED
    BY <1>1, <2>3, <2>4, SnapshotsKept
<1>5. QED
  BY <1>3, <1>4 DEF Select

LEMMA FormStep ==
  ASSUME Inductive, Accept \/ Bind \/ Reload \/ \E k \in Keys : BecomePaid(k)
  PROVE  Inductive'
<1>1. CASE Accept
  <2>1. form \in Forms /\ form.key \in Keys /\ form.lines \in Lines
    BY <1>1 DEF Accept, Inductive, CartTypeOK, Forms
  <2>2. form' \in Forms \union {None}
    BY <1>1, <2>1 DEF Accept, Forms
  <2>3. accepted' \in [Keys -> Lines \union {None}]
    BY <1>1, <2>1 DEF Accept, Inductive, CartTypeOK
  <2>4. CartTypeOK'
    BY <1>1, <2>2, <2>3 DEF Accept, Inductive, CartTypeOK
  <2>5. QED
    BY <1>1, <2>4, SnapshotsKept DEF Accept
<1>2. CASE Bind
  <2>1. form.key \in Keys
    BY <1>2 DEF Bind, Inductive, CartTypeOK, Forms
  <2>2. \/ UNCHANGED snapshots
        \/ /\ snapshots[form.key] # None /\ snapshots[form.key] \in Snapshots
           /\ snapshots' = [snapshots EXCEPT ![form.key].bound = TRUE]
    BY <1>2, <2>1 DEF Bind, Inductive, CartTypeOK
  <2> DEFINE bound == [snapshots[form.key] EXCEPT !.bound = TRUE]
  <2>3. snapshots[form.key] \in Snapshots =>
          bound \in Snapshots /\ bound.remaining = snapshots[form.key].remaining
    BY DEF Snapshots
  <2>4. \/ UNCHANGED snapshots
        \/ /\ snapshots[form.key] # None /\ snapshots[form.key] \in Snapshots
           /\ snapshots' = [snapshots EXCEPT ![form.key] = bound]
    BY <2>2
  <2> HIDE DEF bound
  <2>5. /\ snapshots' \in [Keys -> Snapshots \union {None}]
        /\ \A k \in Keys : snapshots'[k] # None =>
              snapshots[k] # None /\ snapshots'[k].remaining = snapshots[k].remaining
    BY <2>1, <2>3, <2>4 DEF Inductive, CartTypeOK
  <2>6. CartTypeOK'
    BY <1>2, <2>5 DEF Bind, Inductive, CartTypeOK
  <2>7. QED
    BY <1>2, <2>5, <2>6, SnapshotsKept DEF Bind
<1>3. CASE Reload
  <2>1. CartTypeOK'
    BY <1>3 DEF Reload, Inductive, CartTypeOK
  <2>2. QED
    BY <1>3, <2>1, SnapshotsKept DEF Reload
<1>4. CASE \E k \in Keys : BecomePaid(k)
  <2>1. CartTypeOK'
    BY <1>4 DEF BecomePaid, Inductive, CartTypeOK
  <2>2. QED
    BY <1>4, <2>1, SnapshotsKept DEF BecomePaid
<1>5. QED
  BY <1>1, <1>2, <1>3, <1>4

-----------------------------------------------------------------------------
(* Payment.                                                                  *)

\* What a paid order takes is in the cart, and no more than its snapshot has left.
LEMMA TakenBounds ==
  ASSUME Inductive, NEW k \in Keys, snapshots[k] # None
  PROVE  /\ Taken(k) \in [Skus -> Nat]
         /\ \A s \in Skus : Taken(k)[s] <= cart[s] /\ Taken(k)[s] <= snapshots[k].remaining[s]
<1>1. snapshots[k].remaining \in Lines /\ cart \in Lines
  BY DEF Inductive, CartTypeOK, Snapshots
<1>2. QED
  BY <1>1, CartAssumption DEF Taken, Less, Lines

LEMMA CleanStep ==
  ASSUME Inductive, NEW k \in Keys, CleanPaid(k)
  PROVE  Inductive'
<1> DEFINE removed == Taken(k)
<1>1. snapshots[k] # None /\ snapshots[k] \in Snapshots
  BY DEF CleanPaid, Inductive, CartTypeOK
<1>2. removed \in [Skus -> Nat] /\ \A s \in Skus : removed[s] <= cart[s]
  BY <1>1, TakenBounds
<1>3. /\ cart' = [s \in Skus |-> cart[s] - removed[s]] /\ Leave(removed) /\ RestOfCart
      /\ snapshots' = [Reduced(removed) EXCEPT ![k].cleaned = TRUE]
  BY DEF CleanPaid
<1>4. \A s \in Skus : cart[s] \in 0 .. MaxUnits /\ gone[s] \in Nat /\ gone[s] + cart[s] <= MaxUnits
  BY CartAssumption DEF Inductive, CartTypeOK, Bounded, Lines
<1> HIDE DEF removed
<1>5. cart' \in Lines /\ \A s \in Skus : gone[s] + removed[s] + cart'[s] <= MaxUnits
  BY <1>2, <1>3, <1>4, CartAssumption DEF Lines
<1> DEFINE cleaned == [Reduced(removed)[k] EXCEPT !.cleaned = TRUE]
<1>6. /\ Reduced(removed) \in [Keys -> Snapshots \union {None}]
      /\ \A j \in Keys : snapshots[j] = None => Reduced(removed)[j] = None
      /\ \A j \in Keys : snapshots[j] # None =>
            /\ Reduced(removed)[j] \in Snapshots
            /\ \A s \in Skus :
                  Reduced(removed)[j].remaining[s] = Minus(snapshots[j].remaining[s], removed[s])
  BY <1>2, ReducedSnapshots
<1>7. cleaned \in Snapshots /\ cleaned.remaining = Reduced(removed)[k].remaining
  BY <1>1, <1>6 DEF Snapshots
<1>8. snapshots' = [Reduced(removed) EXCEPT ![k] = cleaned]
  BY <1>3
<1> HIDE DEF cleaned
<1>9. /\ snapshots' \in [Keys -> Snapshots \union {None}]
      /\ \A j \in Keys : snapshots'[j] # None =>
            /\ snapshots[j] # None
            /\ \A s \in Skus :
                  snapshots'[j].remaining[s] = Minus(snapshots[j].remaining[s], removed[s])
  BY <1>1, <1>6, <1>7, <1>8
<1>10. QED
  BY <1>2, <1>3, <1>5, <1>9, CartReplaced

LEMMA Step ==
  ASSUME Inductive, [CartNext]_cartVars
  PROVE  Inductive'
<1>1. CASE UNCHANGED cartVars
  BY <1>1 DEF cartVars, Inductive, CartTypeOK, Bounded, SnapshotOld
<1>2. CASE CartNext
  BY <1>2, AddStep, ReplaceStep, CaptureStep, SelectStep, FormStep, CleanStep DEF CartNext, Sync
<1>3. QED
  BY <1>1, <1>2

LEMMA InductiveHolds == CartSpec => []Inductive
BY InitialState, Step, PTL DEF CartSpec

-----------------------------------------------------------------------------
\* Cart, snapshots and orders keep their types, and no bound on units is passed (PaidCart).
THEOREM TypeCorrect == CartSpec => []CartTypeOK
<1>1. Inductive => CartTypeOK
  BY DEF Inductive
<1>2. QED
  BY <1>1, InductiveHolds, PTL

\* A paid order takes only units that were in the cart when it was submitted, whatever was
\* added, removed or paid in between (reduceSnapshots, reconcilePaidCartItems).
THEOREM OnlyOwnUnits == CartSpec => LaterUnitsStay
<1> DEFINE Own == \A k \in Keys, s \in Skus :
                     CleanPaid(k) /\ gone'[s] > gone[s] => gone'[s] <= upTo[k][s]
<1>1. ASSUME Inductive, NEW k \in Keys, NEW s \in Skus, CleanPaid(k), gone'[s] > gone[s]
      PROVE  gone'[s] <= upTo[k][s]
  <2>1. snapshots[k] # None /\ snapshots[k].remaining \in Lines /\ upTo[k] \in Lines
        /\ gone \in Lines
    BY <1>1 DEF CleanPaid, Inductive, CartTypeOK, Snapshots
  <2>2. Taken(k)[s] \in Nat /\ Taken(k)[s] <= snapshots[k].remaining[s]
    BY <1>1, <2>1, TakenBounds
  <2>3. gone'[s] = gone[s] + Taken(k)[s]
    BY <1>1 DEF CleanPaid, Leave
  <2>4. gone[s] \in Nat /\ snapshots[k].remaining[s] \in Nat /\ upTo[k][s] \in Nat
    BY <2>1 DEF Lines
  <2>5. snapshots[k].remaining[s] > 0
    BY <1>1, <2>2, <2>3, <2>4
  <2>6. gone[s] + snapshots[k].remaining[s] <= upTo[k][s]
    BY <1>1, <2>1, <2>5 DEF Inductive, SnapshotOld
  <2>7. QED
    BY <2>2, <2>3, <2>4, <2>6
<1>2. Inductive /\ [CartNext]_cartVars => [Own]_cartVars
  BY <1>1
<1> HIDE DEF Own
<1>3. CartSpec => [][Own]_cartVars
  BY <1>2, InductiveHolds, PTL DEF CartSpec
<1>4. QED
  BY <1>3 DEF LaterUnitsStay, Own

-----------------------------------------------------------------------------
(* OrderPayments: the order's file is replaced over and over by what a page *)
(* or the worker has read some time ago.                                    *)

\* A record as the store keeps it: what is paid has a payment, what is shipped under a key is
\* paid, and the payment is one that Ozon has made.
GoodRecord(r) ==
    /\ r \in Records
    /\ r.payment = None => ~r.paid
    /\ r.payment # None => provider[r.payment] # "none"
    /\ r.key # 0 => r.paid
    /\ r.key <= keys

\* A payment that a page has made and not stored yet is in nobody's hands.
Unstored(c) ==
    /\ made[c] \in Payments /\ provider[made[c]] = "new" /\ made[c] \notin links
    /\ record.payment # made[c]
    /\ workerHeld # None => workerHeld.payment # made[c]
    /\ \A d \in Clients : page[d] = "store" /\ made[d] = made[c] => d = c

PagesInv ==
    \A c \in Clients :
        /\ page[c] \in {"create", "store"} =>
              record # None /\ GoodRecord(held[c]) /\ held[c].payment = None
        /\ page[c] = "store" => Unstored(c)

WorkerInv ==
    /\ step \in {"reconcile", "answer", "confirm", "confirmWrite", "deliver", "keyWrite", "create",
                 "created", "createdWrite"} => record # None
    /\ step \in {"confirmWrite", "keyWrite", "create", "created", "createdWrite"} =>
          workerHeld # None /\ workerHeld.payment # None
    /\ workerHeld # None => GoodRecord(workerHeld)
    /\ step = "answer" => asked \in Payments
    /\ step = "confirmWrite" => ~workerHeld.paid
    /\ step \in {"keyWrite", "create", "created", "createdWrite"} => workerHeld.paid
    /\ step \in {"create", "created", "createdWrite"} => workerHeld.key # 0

\* The payments that the customer has made; how many of them the order's file still waits
\* for; and how many more shipments it lets the worker make.
PaidFor == {p \in Payments : provider[p] = "paid"}
Reserved == IF record = None \/ record.paid \/ record.payment \notin PaidFor THEN 0 ELSE 1
Claims == IF record = None \/ ~record.paid \/ record.key \in shipments THEN 0 ELSE 1
Spare(n) == Cardinality(PaidFor) >= Cardinality(shipments) + Reserved + Claims + n

\* Each shipment, and the next one that the file or the worker allows, has a payment.
Balanced ==
    /\ IsFiniteSet(PaidFor)
    /\ Spare(0)
    /\ step \in {"confirm", "confirmWrite"} \/ (step = "answer" /\ asked \in PaidFor) =>
          Spare(1) \/ Reserved = 1
    /\ step = "keyWrite" => Spare(1) \/ (record.paid /\ record.key = 0)
    /\ step = "create" =>
          \/ workerHeld.key \in shipments \/ Spare(1)
          \/ record.paid /\ record.key = workerHeld.key
    /\ step \in {"created", "createdWrite"} => workerHeld.key \in shipments

StoreInv ==
    /\ OrdersTypeOK
    /\ record # None => GoodRecord(record)
    /\ \A p \in links : provider[p] # "none"
    /\ shipments \subseteq 1 .. keys

OrdersInv == StoreInv /\ PagesInv /\ WorkerInv /\ Balanced

-----------------------------------------------------------------------------
\* What is counted are numbers.
LEMMA Amounts ==
  ASSUME OrdersInv
  PROVE  /\ Cardinality(PaidFor) \in Nat /\ IsFiniteSet(shipments) /\ Cardinality(shipments) \in Nat
         /\ Reserved \in {0, 1} /\ Claims \in {0, 1} /\ keys \in Nat
<1>1. keys \in Nat
  BY OrdersAssumption DEF OrdersInv, StoreInv, OrdersTypeOK
<1>2. IsFiniteSet(1 .. keys)
  BY <1>1, FS_Interval
<1>3. IsFiniteSet(shipments)
  BY <1>2, FS_Subset DEF OrdersInv, StoreInv
<1>4. QED
  BY <1>1, <1>3, FS_CardinalityType DEF OrdersInv, Balanced, Reserved, Claims

\* What is in a record.
LEMMA KeysNumbers ==
  ASSUME NEW r \in Records
  PROVE  r.key \in Nat /\ r.payment \in Payments \union {None} /\ r.paid \in BOOLEAN
BY OrdersAssumption DEF Records

\* The counts depend on the order's file, on Ozon's payments and on its shipments.
LEMMA CountsKept ==
  ASSUME OrdersInv, UNCHANGED <<record, provider, shipments>>
  PROVE  UNCHANGED <<PaidFor, Reserved, Claims>> /\ Spare(0)' /\ (Spare(1) => Spare(1)')
         /\ IsFiniteSet(PaidFor)'
<1>1. UNCHANGED <<PaidFor, Reserved, Claims>>
  BY DEF PaidFor, Reserved, Claims
<1>2. QED
  BY <1>1 DEF Spare, OrdersInv, Balanced

\* The new state of letters.
LEMMA QueuedTyped ==
  ASSUME OrdersTypeOK, NEW letters
  PROVE  Queued(letters) \in [Letters -> {"none", "pending", "retry", "sent"}]
BY DEF OrdersTypeOK, Queued

\* A failure that is drawn from the budget.
LEMMA FaultsTyped ==
  ASSUME OrdersTypeOK, Fault \/ UNCHANGED faults
  PROVE  faults' \in 0 .. MaxOrderFaults
BY OrdersAssumption DEF OrdersTypeOK, Fault

LEMMA OrdersInitial == OrdersInit => OrdersInv
<1> SUFFICES ASSUME OrdersInit PROVE OrdersInv
  OBVIOUS
<1>1. OrdersTypeOK
  BY OrdersAssumption DEF OrdersInit, OrdersTypeOK, WorkerSteps, Letters
<1>2. PaidFor = {} /\ Reserved = 0 /\ Claims = 0
  BY DEF OrdersInit, PaidFor, Reserved, Claims
<1>3. Balanced
  BY <1>2, FS_EmptySet DEF OrdersInit, Balanced, Spare
<1>4. QED
  BY <1>1, <1>3 DEF OrdersInit, OrdersInv, StoreInv, PagesInv, WorkerInv

-----------------------------------------------------------------------------
\* The web process and the customer.

\* What a page does to itself, or the customer's links, is not the worker's business.
LEMMA WorkerUndisturbed ==
  ASSUME OrdersInv, UNCHANGED <<record, provider, shipments, worker, keys>>
  PROVE  WorkerInv' /\ Balanced' /\ (record' # None => GoodRecord(record)')
<1>1. WorkerInv' /\ (record' # None => GoodRecord(record)')
  BY DEF worker, OrdersInv, StoreInv, WorkerInv, GoodRecord
<1>2. Balanced'
  BY CountsKept DEF worker, OrdersInv, Balanced
<1>3. QED
  BY <1>1, <1>2

\* A request that is saved is the first version of the file.
LEMMA SubmitStep ==
  ASSUME OrdersInv, NEW c \in Clients, Submit(c)
  PROVE  OrdersInv'
<1>1. /\ page[c] = "idle" /\ page' \in [Clients -> {"idle", "receipt", "create", "store"}]
      /\ page'[c] \in {"idle", "receipt"} /\ \A d \in Clients \ {c} : page'[d] = page[d]
      /\ UNCHANGED <<outbox, provider, old, shipments, links, held, made, worker, keys>>
      /\ Fault \/ UNCHANGED faults
  BY DEF Submit, Save, Page, Try, OrdersInv, StoreInv, OrdersTypeOK
<1>2. faults' \in 0 .. MaxOrderFaults
  BY <1>1, FaultsTyped DEF OrdersInv, StoreInv
<1>3. CASE UNCHANGED record
  <2>1. WorkerInv' /\ Balanced' /\ (record' # None => GoodRecord(record)')
    BY <1>1, <1>3, WorkerUndisturbed
  <2>2. PagesInv'
    BY <1>1, <1>3 DEF worker, OrdersInv, PagesInv, GoodRecord, Unstored
  <2>3. QED
    BY <1>1, <1>2, <1>3, <2>1, <2>2 DEF worker, OrdersInv, StoreInv, OrdersTypeOK
<1>4. CASE ~UNCHANGED record
  <2>1. PICK pvz \in BOOLEAN :
          record' = [pvz |-> pvz, payment |-> None, paid |-> FALSE, key |-> 0, shipped |-> FALSE]
    BY <1>4 DEF Submit, Save, Try
  <2>2. record = None
    BY <1>4 DEF Submit
  <2>3. record' \in Records /\ record' # None
    <3>1. record' \in Records
      BY <2>1, OrdersAssumption DEF Records
    <3>2. QED
      BY <3>1, OrdersAssumption
  <2>4. GoodRecord(record)'
    BY <1>1, <2>1, <2>3, Amounts DEF GoodRecord
  <2>5. PaidFor' = PaidFor /\ Reserved' = 0 /\ Claims' = 0 /\ Reserved = 0 /\ Claims = 0
    BY <1>1, <2>1, <2>2, OrdersAssumption DEF PaidFor, Reserved, Claims
  <2>6. Balanced'
    BY <1>1, <2>2, <2>5 DEF worker, OrdersInv, Balanced, Spare, WorkerInv
  <2>7. PagesInv'
    BY <1>1, <2>2 DEF worker, OrdersInv, PagesInv
  <2>8. WorkerInv'
    BY <1>1, <2>2, <2>3 DEF worker, OrdersInv, WorkerInv, GoodRecord
  <2>9. QED
    BY <1>1, <1>2, <2>3, <2>4, <2>6, <2>7, <2>8 DEF worker, OrdersInv, StoreInv, OrdersTypeOK
<1>5. QED
  BY <1>3, <1>4

LEMMA ReceiptStep ==
  ASSUME OrdersInv, NEW c \in Clients, Receipt(c)
  PROVE  OrdersInv'
<1>1. /\ page'[c] = "idle" /\ \A d \in Clients \ {c} : page'[d] = page[d]
      /\ page' \in [Clients -> {"idle", "receipt", "create", "store"}]
      /\ outbox' \in [Letters -> {"none", "pending", "retry", "sent"}]
      /\ UNCHANGED <<record, provider, old, shipments, links, held, made, worker, keys>>
  BY QueuedTyped DEF Receipt, Page, OrdersInv, StoreInv, OrdersTypeOK
<1>2. faults' \in 0 .. MaxOrderFaults
  BY FaultsTyped DEF Receipt, OrdersInv, StoreInv
<1>3. WorkerInv' /\ Balanced' /\ (record' # None => GoodRecord(record)')
  BY <1>1, WorkerUndisturbed
<1>4. PagesInv'
  BY <1>1 DEF worker, OrdersInv, PagesInv, GoodRecord, Unstored
<1>5. QED
  BY <1>1, <1>2, <1>3, <1>4 DEF worker, OrdersInv, StoreInv, OrdersTypeOK

\* A page reads an order without a payment, or gives out the link of the one there is.
LEMMA BeginPaymentStep ==
  ASSUME OrdersInv, NEW c \in Clients, BeginPayment(c)
  PROVE  OrdersInv'
<1>1. /\ record # None /\ page[c] = "idle" /\ GoodRecord(record) /\ record \in Records
      /\ UNCHANGED <<record, outbox, provider, old, shipments, made, worker, keys, faults>>
  BY DEF BeginPayment, OrdersInv, StoreInv, GoodRecord
<1>2. WorkerInv' /\ Balanced' /\ GoodRecord(record)'
  BY <1>1, WorkerUndisturbed
<1>3. CASE record.payment # None
  <2>1. links' = links \union {record.payment} /\ UNCHANGED <<page, held>>
    BY <1>3 DEF BeginPayment
  <2>2. record.payment \in Payments /\ provider[record.payment] # "none"
    BY <1>1, <1>3 DEF GoodRecord, Records
  <2>3. PagesInv'
    BY <1>1, <2>1 DEF worker, OrdersInv, PagesInv, GoodRecord, Unstored
  <2>4. QED
    BY <1>1, <1>2, <2>1, <2>2, <2>3 DEF worker, OrdersInv, StoreInv, OrdersTypeOK
<1>4. CASE record.payment = None
  <2>1. /\ page'[c] = "create" /\ held'[c] = record /\ UNCHANGED links
        /\ \A d \in Clients \ {c} : page'[d] = page[d] /\ held'[d] = held[d]
        /\ page' \in [Clients -> {"idle", "receipt", "create", "store"}]
        /\ held' \in [Clients -> Records \union {None}]
    BY <1>1, <1>4 DEF BeginPayment, Page, OrdersInv, StoreInv, OrdersTypeOK
  <2>2. PagesInv'
    BY <1>1, <1>4, <2>1 DEF worker, OrdersInv, PagesInv, GoodRecord, Unstored
  <2>3. QED
    BY <1>1, <1>2, <2>1, <2>2 DEF worker, OrdersInv, StoreInv, OrdersTypeOK
<1>5. QED
  BY <1>3, <1>4

\* A page whose request has ended.
LEMMA IdlePage ==
  ASSUME OrdersTypeOK, NEW c \in Clients, Idle(c)
  PROVE  /\ page'[c] = "idle"
         /\ \A d \in Clients \ {c} : page'[d] = page[d] /\ held'[d] = held[d] /\ made'[d] = made[d]
         /\ page' \in [Clients -> {"idle", "receipt", "create", "store"}]
         /\ held' \in [Clients -> Records \union {None}]
         /\ made' \in [Clients -> Payments \union {None}]
BY DEF OrdersTypeOK, Idle

\* Ozon makes a payment that nobody has yet.
LEMMA CreatePaymentStep ==
  ASSUME OrdersInv, NEW c \in Clients, CreatePayment(c)
  PROVE  OrdersInv'
<1>types. OrdersTypeOK
  BY DEF OrdersInv, StoreInv
<1>1. page[c] = "create" /\ UNCHANGED <<record, outbox, old, shipments, links, worker, keys>>
  BY DEF CreatePayment
<1>2. faults' \in 0 .. MaxOrderFaults
  BY <1>types, FaultsTyped DEF CreatePayment
<1>3. CASE Idle(c) /\ UNCHANGED provider
  <2>1. WorkerInv' /\ Balanced' /\ (record' # None => GoodRecord(record)')
    BY <1>1, <1>3, WorkerUndisturbed
  <2>2. PagesInv'
    BY <1>types, <1>1, <1>3, IdlePage DEF worker, OrdersInv, PagesInv, GoodRecord, Unstored
  <2>3. QED
    BY <1>types, <1>1, <1>2, <1>3, <2>1, <2>2, IdlePage DEF worker, OrdersInv, StoreInv, OrdersTypeOK
<1>4. CASE ~(Idle(c) /\ UNCHANGED provider)
  <2>1. PICK p \in Payments :
          /\ provider[p] = "none" /\ provider' = [provider EXCEPT ![p] = "new"]
          /\ \/ Page(c, "store") /\ made' = [made EXCEPT ![c] = p] /\ UNCHANGED held
             \/ Idle(c)
    BY <1>4 DEF CreatePayment
  <2>2. /\ \A q \in Payments : provider'[q] = IF q = p THEN "new" ELSE provider[q]
        /\ provider' \in [Payments -> {"none", "new", "paid"}]
    BY <1>types, <2>1 DEF OrdersTypeOK
  <2>3. PaidFor' = PaidFor
    BY <2>1, <2>2 DEF PaidFor
  <2>4. Balanced'
    BY <1>1, <2>3 DEF worker, OrdersInv, Balanced, Spare, Reserved, Claims
  <2>5. \A r \in Records : GoodRecord(r) => GoodRecord(r)' /\ r.payment # p
    BY <1>1, <2>1, <2>2, KeysNumbers, OrdersAssumption DEF GoodRecord
  <2>6. WorkerInv' /\ (record' # None => GoodRecord(record)')
    BY <1>1, <2>5 DEF worker, OrdersInv, WorkerInv, StoreInv, GoodRecord
  <2>7. \A q \in links : provider'[q] # "none" /\ q # p
    BY <1>types, <2>1, <2>2 DEF OrdersInv, StoreInv, OrdersTypeOK
  <2>8. ASSUME NEW d \in Clients, page[d] = "store"
        PROVE  made[d] # p /\ provider'[made[d]] = "new"
    BY <2>1, <2>2, <2>8 DEF OrdersInv, PagesInv, Unstored
  <2>9. PagesInv'
    <3>1. ASSUME NEW d \in Clients, page'[d] \in {"create", "store"}, d # c \/ ~Idle(c)
          PROVE  record' # None /\ GoodRecord(held[d])' /\ held'[d].payment = None
      <4>1. page[d] \in {"create", "store"} /\ held'[d] = held[d]
        BY <1>types, <1>1, <2>1, <3>1, IdlePage DEF Page, OrdersTypeOK
      <4>2. QED
        BY <1>1, <2>5, <4>1 DEF OrdersInv, PagesInv, GoodRecord
    <3>2. CASE Idle(c)
      <4>1. ASSUME NEW d \in Clients, page'[d] = "store"
            PROVE  Unstored(d)'
        <5>1. d # c /\ page[d] = "store" /\ made'[d] = made[d]
          BY <1>types, <3>2, <4>1, IdlePage
        <5>2. QED
          BY <1>types, <1>1, <2>8, <3>2, <5>1, IdlePage DEF worker, OrdersInv, PagesInv, Unstored
      <4>2. QED
        BY <1>types, <3>1, <3>2, <4>1, IdlePage DEF PagesInv
    <3>3. CASE ~Idle(c)
      <4>1. /\ page'[c] = "store" /\ made'[c] = p
            /\ \A d \in Clients \ {c} : page'[d] = page[d] /\ made'[d] = made[d]
        BY <1>types, <2>1, <3>3 DEF Page, OrdersTypeOK
      <4>2. Unstored(c)'
        BY <1>1, <2>1, <2>2, <2>5, <2>7, <2>8, <4>1
           DEF worker, Unstored, OrdersInv, StoreInv, PagesInv, WorkerInv, GoodRecord
      <4>3. ASSUME NEW d \in Clients \ {c}, page'[d] = "store"
            PROVE  Unstored(d)'
        BY <1>1, <2>8, <4>1, <4>3 DEF worker, OrdersInv, PagesInv, Unstored
      <4>4. QED
        BY <3>1, <3>3, <4>2, <4>3 DEF PagesInv
    <3>4. QED
      BY <3>2, <3>3
  <2>10. /\ page' \in [Clients -> {"idle", "receipt", "create", "store"}]
         /\ held' \in [Clients -> Records \union {None}]
         /\ made' \in [Clients -> Payments \union {None}]
    BY <1>types, <2>1, IdlePage DEF Page, OrdersTypeOK
  <2>11. QED
    BY <1>types, <1>1, <1>2, <2>2, <2>4, <2>6, <2>7, <2>9, <2>10 DEF worker, OrdersInv, StoreInv, OrdersTypeOK
<1>5. QED
  BY <1>3, <1>4

\* A page replaces the order by what it has read, with a payment that is not paid yet:
\* whatever the file said of another payment is forgotten, so there is more to spare.
LEMMA StorePaymentStep ==
  ASSUME OrdersInv, NEW c \in Clients, StorePayment(c)
  PROVE  OrdersInv'
<1>types. OrdersTypeOK
  BY DEF OrdersInv, StoreInv
<1>1. /\ page[c] = "store" /\ Idle(c)
      /\ record' \in {[held[c] EXCEPT !.payment = made[c], !.paid = FALSE], record}
      /\ links' \in {links, links \union {made[c]}}
      /\ UNCHANGED <<outbox, provider, old, shipments, worker, keys>>
      /\ Fault \/ UNCHANGED faults
  BY DEF StorePayment, Try
<1>2. /\ record # None /\ GoodRecord(held[c]) /\ held[c].payment = None /\ ~held[c].paid
      /\ made[c] \in Payments /\ provider[made[c]] = "new" /\ made[c] \notin links
  BY <1>1 DEF OrdersInv, PagesInv, Unstored, GoodRecord
<1>3. PICK new \in Records :
          /\ new = [held[c] EXCEPT !.payment = made[c], !.paid = FALSE]
          /\ new.payment = made[c] /\ ~new.paid /\ new.key = 0
  <2> DEFINE r == [held[c] EXCEPT !.payment = made[c], !.paid = FALSE]
  <2>1. r \in Records /\ r.payment = made[c] /\ ~r.paid /\ r.key = 0
    BY <1>2 DEF GoodRecord, Records
  <2>2. QED
    BY <2>1
<1>4. GoodRecord(new)' /\ GoodRecord(new) /\ new # None
  BY <1>1, <1>2, <1>3, OrdersAssumption, Amounts DEF GoodRecord
<1>5. record' # None /\ GoodRecord(record)'
  BY <1>1, <1>2, <1>3, <1>4 DEF OrdersInv, StoreInv, GoodRecord
<1>6. Balanced'
  <2>1. CASE record' = record
    BY <1>1, <2>1, WorkerUndisturbed
  <2>2. CASE record' = new
    <3>1. PaidFor' = PaidFor /\ Reserved' = 0 /\ Claims' = 0
      BY <1>1, <1>2, <1>3, <2>2 DEF PaidFor, Reserved, Claims
    <3>2. step \in {"confirm", "confirmWrite"} \/ (step = "answer" /\ asked \in PaidFor) =>
            Spare(1) \/ Reserved = 1
      BY DEF OrdersInv, Balanced
    <3>3. step = "keyWrite" => Spare(1) \/ Claims = 1
      BY <1>2 DEF OrdersInv, StoreInv, Balanced, Claims
    <3>4. step = "create" => workerHeld.key \in shipments \/ Spare(1) \/ Claims = 1
      BY <1>2 DEF OrdersInv, Balanced, Claims
    <3>5. Spare(0)' /\ (Spare(1) \/ Claims = 1 \/ Reserved = 1 => Spare(1)')
      BY <1>1, <3>1, Amounts DEF OrdersInv, Balanced, Spare
    <3>6. QED
      BY <1>1, <3>1, <3>2, <3>3, <3>4, <3>5 DEF worker, OrdersInv, Balanced
  <2>3. QED
    BY <1>1, <1>3, <2>1, <2>2
<1>7. WorkerInv'
  BY <1>1, <1>2, <1>5 DEF worker, OrdersInv, WorkerInv, GoodRecord
<1>8. PagesInv'
  <2>1. ASSUME NEW d \in Clients, d # c, page[d] = "store"
        PROVE  made[d] # made[c]
    BY <1>1, <2>1 DEF OrdersInv, PagesInv, Unstored
  <2>2. ASSUME NEW d \in Clients, page'[d] = "store"
        PROVE  Unstored(d)'
    <3>1. d # c /\ page[d] = "store" /\ Unstored(d) /\ made'[d] = made[d]
      BY <1>types, <1>1, <2>2, IdlePage DEF OrdersInv, PagesInv
    <3>2. made[d] \notin links' /\ record'.payment # made[d]
      BY <1>1, <1>3, <2>1, <3>1 DEF Unstored
    <3>3. QED
      BY <1>types, <1>1, <3>1, <3>2, IdlePage DEF worker, Unstored
  <2>3. ASSUME NEW d \in Clients, page'[d] \in {"create", "store"}
        PROVE  record' # None /\ GoodRecord(held[d])' /\ held'[d].payment = None
    BY <1>types, <1>1, <1>5, <2>3, IdlePage DEF OrdersInv, PagesInv, GoodRecord
  <2>4. QED
    BY <2>2, <2>3 DEF PagesInv
<1>9. \A p \in links' : provider'[p] # "none"
  BY <1>1, <1>2 DEF OrdersInv, StoreInv
<1>10. links' \subseteq Payments /\ record' \in Records \union {None} /\ faults' \in 0 .. MaxOrderFaults
  BY <1>types, <1>1, <1>2, <1>3, FaultsTyped DEF OrdersTypeOK
<1>11. QED
  BY <1>types, <1>1, <1>5, <1>6, <1>7, <1>8, <1>9, <1>10, IdlePage
     DEF worker, OrdersInv, StoreInv, OrdersTypeOK

\* The customer pays: there is one more to spare, or the order's file waits for this one.
LEMMA PayStep ==
  ASSUME OrdersInv, NEW p \in Payments, Pay(p)
  PROVE  OrdersInv'
<1>types. OrdersTypeOK
  BY DEF OrdersInv, StoreInv
<1>1. /\ p \in links /\ provider[p] = "new"
      /\ UNCHANGED <<record, outbox, old, shipments, links, web, worker, keys, faults>>
      /\ \A q \in Payments : provider'[q] = IF q = p THEN "paid" ELSE provider[q]
      /\ provider' \in [Payments -> {"none", "new", "paid"}]
  BY <1>types DEF Pay, OrdersTypeOK
<1>2. PaidFor' = PaidFor \union {p} /\ p \notin PaidFor
  BY <1>1 DEF PaidFor
<1>3. IsFiniteSet(PaidFor)' /\ Cardinality(PaidFor') = Cardinality(PaidFor) + 1
  BY <1>2, FS_AddElement DEF OrdersInv, Balanced
<1>4. Claims' = Claims /\ Reserved' \in {0, 1} /\ (Reserved = 1 => Reserved' = 1)
  BY <1>1, <1>2 DEF Claims, Reserved
<1>5. Spare(0)' /\ (Spare(1) => Spare(1)') /\ (Spare(1)' \/ Reserved' = 1)
  BY <1>1, <1>3, <1>4, Amounts DEF OrdersInv, Balanced, Spare
<1>6. Balanced'
  BY <1>1, <1>3, <1>4, <1>5 DEF worker, OrdersInv, Balanced
<1>7. \A r \in Records : GoodRecord(r) => GoodRecord(r)'
  BY <1>1 DEF GoodRecord, Records
<1>8. WorkerInv' /\ (record' # None => GoodRecord(record)')
  BY <1>1, <1>7 DEF worker, OrdersInv, WorkerInv, StoreInv, GoodRecord
<1>9. PagesInv'
  BY <1>1, <1>7 DEF web, worker, OrdersInv, PagesInv, Unstored, GoodRecord
<1>10. QED
  BY <1>types, <1>1, <1>6, <1>8, <1>9 DEF web, worker, OrdersInv, StoreInv, OrdersTypeOK

\* Time passes for a payment; the delay of a letter ends; the web process dies.
LEMMA ElsewhereStep ==
  ASSUME OrdersInv, (\E p \in Payments : GetOld(p)) \/ (\E l \in Letters : DelayEnds(l)) \/ WebDies
  PROVE  OrdersInv'
<1>types. OrdersTypeOK
  BY DEF OrdersInv, StoreInv
<1>1. /\ UNCHANGED <<record, provider, shipments, links, worker, keys>>
      /\ old' \subseteq Payments /\ outbox' \in [Letters -> {"none", "pending", "retry", "sent"}]
      /\ faults' \in 0 .. MaxOrderFaults
  BY <1>types, FaultsTyped DEF GetOld, DelayEnds, WebDies, OrdersTypeOK
<1>2. \/ UNCHANGED web
      \/ /\ page' = [c \in Clients |-> "idle"] /\ held' = [c \in Clients |-> None]
         /\ made' = [c \in Clients |-> None]
  BY DEF GetOld, DelayEnds, WebDies
<1>3. WorkerInv' /\ Balanced' /\ (record' # None => GoodRecord(record)')
  BY <1>1, WorkerUndisturbed
<1>4. PagesInv'
  BY <1>1, <1>2 DEF web, worker, OrdersInv, PagesInv, Unstored, GoodRecord
<1>5. QED
  BY <1>types, <1>1, <1>2, <1>3, <1>4 DEF web, worker, OrdersInv, StoreInv, OrdersTypeOK

-----------------------------------------------------------------------------
\* The worker.

\* Whatever the worker writes to the order's file, or has read from it, is not in the way
\* of the payment a page is about to store.
LEMMA PagesUndisturbed ==
  ASSUME OrdersInv, UNCHANGED <<provider, links, web>>, keys' \in {keys, keys + 1},
         record # None => record' # None,
         record' # record => workerHeld # None /\ record'.payment = workerHeld.payment,
         workerHeld' # None =>
            \/ record # None /\ workerHeld'.payment = record.payment
            \/ workerHeld # None /\ workerHeld'.payment = workerHeld.payment
  PROVE  PagesInv'
<1>1. \A r : GoodRecord(r) => GoodRecord(r)'
  BY Amounts, KeysNumbers DEF GoodRecord
<1>2. ASSUME NEW c \in Clients, page'[c] = "store"
      PROVE  Unstored(c)'
  BY <1>2 DEF web, OrdersInv, PagesInv, Unstored
<1>3. QED
  BY <1>1, <1>2 DEF web, OrdersInv, PagesInv, GoodRecord

\* The worker goes on to a step for which it holds no record: to look at the order again it
\* must be there, and to confirm a payment it must have been made.
Calm == {"list", "notify", "confirmMail", "createdMail", "failed", "outbox", "deliver"}

LEMMA WorkerGoesOn ==
  ASSUME OrdersInv, UNCHANGED <<record, provider, old, shipments, links, web, keys>>,
         workerHeld' = None, asked' = None,
         step' \in Calm \union {"reconcile", "confirm"},
         step' \in {"reconcile", "confirm", "deliver"} => record # None,
         step' = "confirm" => Spare(1) \/ Reserved = 1,
         outbox' \in [Letters -> {"none", "pending", "retry", "sent"}],
         Fault \/ UNCHANGED faults
  PROVE  OrdersInv'
<1>1. OrdersTypeOK'
  BY FaultsTyped DEF OrdersInv, StoreInv, OrdersTypeOK, web, WorkerSteps, Calm
<1>2. record' # None => GoodRecord(record)'
  BY DEF OrdersInv, StoreInv, GoodRecord
<1>3. PagesInv'
  BY PagesUndisturbed
<1>4. WorkerInv'
  BY DEF OrdersInv, WorkerInv, Calm
<1>5. Balanced'
  BY CountsKept DEF OrdersInv, Balanced, Calm
<1>6. QED
  BY <1>1, <1>2, <1>3, <1>4, <1>5 DEF OrdersInv, StoreInv

LEMMA Forgets ==
  ASSUME NEW s \in Calm \union {"reconcile", "confirm"}, WorkerTo(s)
  PROVE  step' = s /\ workerHeld' = None /\ asked' = None
BY DEF WorkerTo, Calm

\* The order has been read, and the worker remembers it and nothing else.
LEMMA WorkerReads ==
  ASSUME OrdersInv, UNCHANGED <<record, provider, old, shipments, links, web, keys, outbox, faults>>,
         record # None, record.payment # None,
         workerHeld' = record, asked' = None,
         \/ step' = "confirmWrite" /\ ~record.paid /\ (Spare(1) \/ Reserved = 1)
         \/ step' = "keyWrite" /\ record.paid /\ record.key = 0
         \/ step' = "create" /\ record.paid /\ record.key # 0
         \/ step' = "createdWrite" /\ record.paid /\ record.key # 0 /\ record.key \in shipments
  PROVE  OrdersInv'
<1>1. OrdersTypeOK'
  BY DEF OrdersInv, StoreInv, OrdersTypeOK, web, WorkerSteps
<1>2. GoodRecord(record) /\ GoodRecord(record)'
  BY DEF OrdersInv, StoreInv, GoodRecord
<1>3. PagesInv'
  BY PagesUndisturbed
<1>4. WorkerInv'
  BY <1>2 DEF OrdersInv, WorkerInv, GoodRecord
<1>5. Balanced'
  BY CountsKept DEF OrdersInv, Balanced
<1>6. QED
  BY <1>1, <1>2, <1>3, <1>4, <1>5 DEF OrdersInv, StoreInv

\* The worker may have replaced the order by one that allows no shipment without a payment,
\* and lets go of it.
LEMMA WorkerReplaces ==
  ASSUME OrdersInv, UNCHANGED <<provider, old, shipments, links, web, outbox>>,
         keys' \in {keys, keys + 1} /\ keys' <= MaxKeys, workerHeld # None, record # None,
         NEW new \in Records, record' \in {new, record},
         GoodRecord(new)', new.payment = workerHeld.payment, new.paid,
         Cardinality(PaidFor) >= Cardinality(shipments) + (IF new.key \in shipments THEN 0 ELSE 1),
         asked' \in Payments \union {None},
         \/ workerHeld' = None /\ step' \in Calm \ {"deliver"}
         \/ workerHeld' = new /\ record' = new /\ step' = "create" /\ new.key # 0 /\ new.payment # None,
         Fault \/ UNCHANGED faults
  PROVE  OrdersInv'
<1>1. new # None /\ keys' \in 0 .. MaxKeys
  BY OrdersAssumption, Amounts
<1>2. OrdersTypeOK'
  BY <1>1, FaultsTyped DEF OrdersInv, StoreInv, OrdersTypeOK, web, WorkerSteps, Calm
<1>3. GoodRecord(record)'
  BY Amounts, KeysNumbers DEF OrdersInv, StoreInv, GoodRecord
<1>4. PagesInv'
  BY <1>1, PagesUndisturbed
<1>5. WorkerInv'
  BY <1>1 DEF WorkerInv, Calm
<1>6. Spare(0)'
  <2>1. CASE record' = record
    BY <2>1, CountsKept
  <2>2. CASE record' = new
    <3>1. PaidFor' = PaidFor /\ Reserved' = 0 /\ Claims' = IF new.key \in shipments THEN 0 ELSE 1
      BY <1>1, <2>2 DEF PaidFor, Reserved, Claims
    <3>2. QED
      BY <3>1, Amounts DEF Spare
  <2>3. QED
    BY <2>1, <2>2
<1>7. IsFiniteSet(PaidFor)'
  BY DEF OrdersInv, Balanced, PaidFor
<1>8. Balanced'
  BY <1>6, <1>7 DEF Balanced, Calm
<1>9. shipments' \subseteq 1 .. keys'
  BY Amounts DEF OrdersInv, StoreInv
<1>10. QED
  BY <1>2, <1>3, <1>4, <1>5, <1>8, <1>9 DEF OrdersInv, StoreInv

-----------------------------------------------------------------------------
\* Its steps, one by one.

LEMMA ListOrdersStep ==
  ASSUME OrdersInv, ListOrders
  PROVE  OrdersInv'
<1>1. PICK s \in {"reconcile", "notify"} : WorkerTo(s) /\ (s = "reconcile" => record # None)
  BY DEF ListOrders
<1>2. step' = s /\ workerHeld' = None /\ asked' = None
  BY <1>1, Forgets DEF Calm
<1>3. QED
  BY <1>1, <1>2, WorkerGoesOn DEF ListOrders, Elsewhere, Calm, OrdersInv, StoreInv, OrdersTypeOK

LEMMA ReconcileStep ==
  ASSUME OrdersInv, Reconcile
  PROVE  OrdersInv'
<1>1. record # None /\ record \in Records /\ UNCHANGED <<record, outbox, faults>> /\ Elsewhere
  BY DEF Reconcile, OrdersInv, WorkerInv, StoreInv, GoodRecord
<1>2. ASSUME NEW s \in {"notify", "confirmMail"}, WorkerTo(s)
      PROVE  OrdersInv'
  <2>1. step' = s /\ workerHeld' = None /\ asked' = None
    BY <1>2, Forgets DEF Calm
  <2>2. QED
    BY <1>1, <2>1, WorkerGoesOn DEF Elsewhere, Calm, OrdersInv, StoreInv, OrdersTypeOK
<1>3. CASE step' = "answer" /\ asked' = record.payment /\ workerHeld' = None /\ record.payment # None
  <2>1. asked' \in Payments
    BY <1>1, <1>3 DEF Records
  <2>2. OrdersTypeOK'
    BY <1>1, <1>3, <2>1 DEF Elsewhere, web, OrdersInv, StoreInv, OrdersTypeOK, WorkerSteps
  <2>3. PagesInv'
    BY <1>1, <1>3, PagesUndisturbed DEF Elsewhere
  <2>4. WorkerInv' /\ GoodRecord(record)'
    BY <1>1, <1>3, <2>1 DEF Elsewhere, OrdersInv, StoreInv, WorkerInv, GoodRecord
  <2>5. CASE ~record.paid
    <3>1. record.payment \in PaidFor => Reserved = 1
      BY <1>1, <2>5 DEF Reserved
    <3>2. UNCHANGED <<PaidFor, Reserved>> /\ Spare(0)' /\ IsFiniteSet(PaidFor)'
      BY <1>1, CountsKept DEF Elsewhere
    <3>3. Balanced'
      BY <1>3, <3>1, <3>2 DEF Balanced
    <3>4. QED
      BY <1>1, <2>2, <2>3, <2>4, <3>3 DEF Elsewhere, OrdersInv, StoreInv
  <2>6. QED
    BY <1>2, <1>3, <2>5 DEF Reconcile
<1>4. QED
  BY <1>2, <1>3 DEF Reconcile

\* A payment that was asked about is paid: the file still waits for it, or not any more, and
\* then there is one to spare.
LEMMA AskStep ==
  ASSUME OrdersInv, Ask
  PROVE  OrdersInv'
<1>1. /\ UNCHANGED <<record, outbox>> /\ Elsewhere
      /\ Fault \/ UNCHANGED faults
      /\ step = "answer" /\ record # None
  BY DEF Ask, OrdersInv, WorkerInv
<1>2. CASE WorkerTo("notify")
  <2>1. step' = "notify" /\ workerHeld' = None /\ asked' = None
    BY <1>2, Forgets DEF Calm
  <2>2. QED
    BY <1>1, <2>1, WorkerGoesOn DEF Elsewhere, Calm, OrdersInv, StoreInv, OrdersTypeOK
<1>3. CASE WorkerTo("confirm") /\ provider[asked] = "paid"
  <2>1. step' = "confirm" /\ workerHeld' = None /\ asked' = None
    BY <1>3, Forgets
  <2>2. Spare(1) \/ Reserved = 1
    BY <1>1, <1>3 DEF OrdersInv, Balanced, WorkerInv, PaidFor
  <2>3. QED
    BY <1>1, <2>1, <2>2, WorkerGoesOn DEF Elsewhere, Calm, OrdersInv, StoreInv, OrdersTypeOK
<1>4. QED
  BY <1>2, <1>3 DEF Ask

\* The order is read again: the file waits for a payment that was made, or one is to spare.
LEMMA ConfirmStep ==
  ASSUME OrdersInv, Confirm
  PROVE  OrdersInv'
<1>1. /\ step = "confirm" /\ record # None /\ UNCHANGED <<record, outbox, faults>> /\ Elsewhere
      /\ Spare(1) \/ Reserved = 1
  BY DEF Confirm, OrdersInv, WorkerInv, Balanced
<1>2. ASSUME NEW s \in {"notify", "confirmMail"}, WorkerTo(s)
      PROVE  OrdersInv'
  <2>1. step' = s /\ workerHeld' = None /\ asked' = None
    BY <1>2, Forgets DEF Calm
  <2>2. QED
    BY <1>1, <2>1, WorkerGoesOn DEF Elsewhere, Calm, OrdersInv, StoreInv, OrdersTypeOK
<1>3. CASE /\ step' = "confirmWrite" /\ workerHeld' = record /\ asked' = None
           /\ record.payment # None /\ ~record.paid
  BY <1>1, <1>3, WorkerReads DEF Elsewhere
<1>4. QED
  BY <1>2, <1>3 DEF Confirm

\* A write of the worker that works is not a fault.
LEMMA Wrote ==
  ASSUME OrdersTypeOK, NEW new, Try(record' = new, UNCHANGED record)
  PROVE  /\ record' \in {new, record} /\ (Fault \/ UNCHANGED faults)
         /\ faults' = faults => record' = new
<1>1. faults \in Nat
  BY OrdersAssumption DEF OrdersTypeOK
<1>2. QED
  BY <1>1 DEF Try, Fault

\* The order is marked as paid.
LEMMA ConfirmWriteStep ==
  ASSUME OrdersInv, ConfirmWrite
  PROVE  OrdersInv'
<1>1. /\ step = "confirmWrite" /\ record # None /\ workerHeld # None /\ workerHeld.payment # None
      /\ GoodRecord(workerHeld) /\ workerHeld.key = 0 /\ Elsewhere /\ UNCHANGED outbox
  BY DEF ConfirmWrite, Replace, OrdersInv, WorkerInv, GoodRecord
<1>2. PICK new \in Records :
          /\ new = [workerHeld EXCEPT !.paid = TRUE]
          /\ new.payment = workerHeld.payment /\ new.paid /\ new.key = 0
  <2> DEFINE r == [workerHeld EXCEPT !.paid = TRUE]
  <2>1. r \in Records /\ r.payment = workerHeld.payment /\ r.paid /\ r.key = 0
    BY <1>1 DEF GoodRecord, Records
  <2>2. QED
    BY <2>1
<1>3. /\ record' \in {new, record} /\ (Fault \/ UNCHANGED faults)
  BY <1>2, Wrote DEF ConfirmWrite, Replace, OrdersInv, StoreInv
<1>4. GoodRecord(new)'
  BY <1>1, <1>2, Amounts DEF GoodRecord, Elsewhere
<1>5. 0 \notin shipments
  BY Amounts DEF OrdersInv, StoreInv
<1>6. Cardinality(PaidFor) >= Cardinality(shipments) + 1
  BY <1>1, Amounts DEF OrdersInv, Balanced, Spare
<1>7. asked' = None /\ workerHeld' = None /\ step' \in {"confirmMail", "notify"}
  BY Forgets DEF ConfirmWrite, Replace, WorkerTo, Calm
<1>8. keys' = keys /\ keys <= MaxKeys
  BY <1>1, OrdersAssumption DEF Elsewhere, OrdersInv, StoreInv, OrdersTypeOK
<1>9. QED
  BY <1>1, <1>2, <1>3, <1>4, <1>5, <1>6, <1>7, <1>8, WorkerReplaces DEF Elsewhere, Calm

\* Letters are queued, and the worker goes on.
LEMMA LettersStep ==
  ASSUME OrdersInv, NEW letters, NEW next \in Calm, NEW otherwise \in Calm,
         next = "deliver" \/ otherwise = "deliver" => record # None,
         QueueThen(letters, next, otherwise), Elsewhere
  PROVE  OrdersInv'
<1>1. PICK s \in {next, otherwise} : step' = s /\ workerHeld' = None /\ asked' = None
  BY Forgets DEF QueueThen
<1>2. /\ outbox' \in [Letters -> {"none", "pending", "retry", "sent"}]
      /\ Fault \/ UNCHANGED faults
      /\ UNCHANGED record
  BY QueuedTyped DEF QueueThen, OrdersInv, StoreInv
<1>3. QED
  BY <1>1, <1>2, WorkerGoesOn DEF Elsewhere, Calm

LEMMA MailStep ==
  ASSUME OrdersInv, ConfirmMail \/ CreatedMail \/ DeliveryFailed \/ Notify
  PROVE  OrdersInv'
<1>1. CASE ConfirmMail
  BY <1>1, LettersStep DEF ConfirmMail, Calm
<1>2. CASE CreatedMail
  BY <1>2, LettersStep DEF CreatedMail, Calm
<1>3. CASE DeliveryFailed
  BY <1>3, LettersStep DEF DeliveryFailed, Calm
<1>4. CASE Notify
  <2>1. AfterNotify \in Calm /\ (AfterNotify = "deliver" => record # None)
    BY DEF AfterNotify, Calm, Paid
  <2>2. QED
    BY <1>4, <2>1, LettersStep DEF Notify
<1>5. QED
  BY <1>1, <1>2, <1>3, <1>4

LEMMA OutboxStep ==
  ASSUME OrdersInv, (\E l \in Letters : SendLetter(l)) \/ EndTick \/ WorkerDies
  PROVE  OrdersInv'
<1>1. /\ outbox' \in [Letters -> {"none", "pending", "retry", "sent"}]
      /\ Fault \/ UNCHANGED faults
      /\ UNCHANGED record /\ Elsewhere
  BY DEF SendLetter, EndTick, WorkerDies, OrdersInv, StoreInv, OrdersTypeOK
<1>2. step' \in {"outbox", "list"} /\ workerHeld' = None /\ asked' = None
  BY Forgets DEF SendLetter, EndTick, WorkerDies, WorkerTo
<1>3. QED
  BY <1>1, <1>2, WorkerGoesOn DEF Elsewhere, Calm

\* Only a paid order is delivered, under the key it has or a new one.
LEMMA CreateDeliveryStep ==
  ASSUME OrdersInv, CreateDelivery
  PROVE  OrdersInv'
<1>1. record # None /\ GoodRecord(record) /\ UNCHANGED <<record, outbox, faults>> /\ Elsewhere
  BY DEF CreateDelivery, OrdersInv, StoreInv, WorkerInv
<1>2. ASSUME NEW s \in {"failed", "outbox"}, WorkerTo(s)
      PROVE  OrdersInv'
  <2>1. step' = s /\ workerHeld' = None /\ asked' = None
    BY <1>2, Forgets DEF Calm
  <2>2. QED
    BY <1>1, <2>1, WorkerGoesOn DEF Elsewhere, Calm, OrdersInv, StoreInv, OrdersTypeOK
<1>3. CASE /\ record.paid /\ workerHeld' = record /\ asked' = None
           /\ step' = IF record.key = 0 THEN "keyWrite" ELSE "create"
  BY <1>1, <1>3, WorkerReads DEF Elsewhere, GoodRecord
<1>4. QED
  BY <1>2, <1>3 DEF CreateDelivery

\* The order's file has a key of its own before Ozon is called with it.
LEMMA KeyWriteStep ==
  ASSUME OrdersInv, KeyWrite
  PROVE  OrdersInv'
<1>1. /\ step = "keyWrite" /\ record # None /\ workerHeld # None /\ workerHeld.payment # None
      /\ GoodRecord(workerHeld) /\ workerHeld.paid
      /\ UNCHANGED <<outbox, provider, old, shipments, links, web>>
  BY DEF KeyWrite, OrdersInv, WorkerInv
<1>2. CASE WorkerTo("failed") /\ UNCHANGED <<record, keys, faults>>
  <2>1. step' = "failed" /\ workerHeld' = None /\ asked' = None
    BY <1>2, Forgets DEF Calm
  <2>2. QED
    BY <1>1, <1>2, <2>1, WorkerGoesOn DEF Calm, OrdersInv, StoreInv, OrdersTypeOK
<1>3. CASE ~(WorkerTo("failed") /\ UNCHANGED <<record, keys, faults>>)
  <2>1. /\ keys < MaxKeys /\ keys' = keys + 1 /\ asked' = asked
        /\ keys \in Nat /\ MaxKeys \in Nat
    BY <1>3, Amounts, OrdersAssumption DEF KeyWrite
  <2>2. PICK new \in Records :
            /\ new = [workerHeld EXCEPT !.key = keys + 1]
            /\ new.payment = workerHeld.payment /\ new.paid /\ new.key = keys + 1
    <3> DEFINE r == [workerHeld EXCEPT !.key = keys + 1]
    <3>1. keys + 1 \in 0 .. MaxKeys
      BY <2>1
    <3>2. r \in Records /\ r.payment = workerHeld.payment /\ r.paid /\ r.key = keys + 1
      BY <1>1, <3>1 DEF GoodRecord, Records
    <3>3. QED
      BY <3>2
  <2>3. /\ record' \in {new, record} /\ (Fault \/ UNCHANGED faults)
        /\ faults' = faults => record' = new
    BY <1>3, <2>2, Wrote DEF KeyWrite, OrdersInv, StoreInv
  <2>4. GoodRecord(new)'
    BY <1>1, <2>1, <2>2 DEF GoodRecord
  <2>5. new.key \notin shipments /\ new.key # 0 /\ 0 \notin shipments
    BY <2>1, <2>2 DEF OrdersInv, StoreInv
  <2>6. Cardinality(PaidFor) >= Cardinality(shipments) + 1
    <3>1. Spare(0) /\ (Spare(1) \/ Claims = 1)
      BY <1>1, <2>5 DEF OrdersInv, Balanced, Claims
    <3>2. QED
      BY <3>1, Amounts DEF Spare
  <2>7. \/ workerHeld' = None /\ step' = "failed"
        \/ workerHeld' = new /\ record' = new /\ step' = "create"
    BY <1>3, <2>2, <2>3 DEF KeyWrite
  <2>8. asked' \in Payments \union {None}
    BY <2>1 DEF OrdersInv, StoreInv, OrdersTypeOK
  <2>9. keys' \in {keys, keys + 1} /\ keys' <= MaxKeys
    BY <2>1
  <2>10. QED
    BY <1>1, <2>2, <2>3, <2>4, <2>5, <2>6, <2>7, <2>8, <2>9, WorkerReplaces DEF Calm
<1>4. QED
  BY <1>2, <1>3

\* Ozon makes a shipment under the key: the order's file or a payment to spare allows it, and
\* does so for one key only.
LEMMA CreateShipmentStep ==
  ASSUME OrdersInv, CreateShipment
  PROVE  OrdersInv'
<1> DEFINE k == workerHeld.key
<1>types. OrdersTypeOK
  BY DEF OrdersInv, StoreInv
<1>1. /\ step = "create" /\ record # None /\ workerHeld # None /\ workerHeld.payment # None
      /\ GoodRecord(workerHeld) /\ workerHeld.paid /\ k # 0
      /\ UNCHANGED <<record, outbox, provider, old, links, web, keys>>
      /\ Fault \/ UNCHANGED faults
      /\ k \in shipments \/ Spare(1) \/ (record.paid /\ record.key = k)
  BY DEF CreateShipment, OrdersInv, WorkerInv, Balanced
<1>2. /\ asked' = None
      /\ \/ step' = "failed" /\ workerHeld' = None /\ shipments' \in {shipments, shipments \union {k}}
         \/ step' = "created" /\ workerHeld' = workerHeld /\ shipments' = shipments \union {k}
  BY Forgets DEF CreateShipment, WorkerTo, Calm
<1>3. k \in 1 .. keys /\ keys \in 0 .. MaxKeys
  BY <1>types, <1>1, KeysNumbers, Amounts DEF GoodRecord, OrdersTypeOK
<1>4. shipments' \subseteq 1 .. keys /\ shipments' \subseteq 1 .. MaxKeys
  <2>1. shipments \subseteq 1 .. keys
    BY DEF OrdersInv, StoreInv
  <2>2. shipments' \subseteq 1 .. keys
    BY <1>2, <1>3, <2>1
  <2>3. 1 .. keys \subseteq 1 .. MaxKeys
    BY <1>3, OrdersAssumption
  <2>4. QED
    BY <2>2, <2>3
<1>5. PaidFor' = PaidFor /\ Reserved' = Reserved
  BY <1>1 DEF PaidFor, Reserved
<1>6. Spare(0)'
  <2>1. CASE shipments' = shipments
    BY <1>1, <2>1, CountsKept
  <2>2. CASE shipments' = shipments \union {k} /\ k \notin shipments
    <3>1. Cardinality(shipments') = Cardinality(shipments) + 1
      BY <2>2, Amounts, FS_AddElement
    <3>2. Claims' \in {0, Claims}
      BY <1>1, <2>2 DEF Claims
    <3>3. record.paid /\ record.key = k => Claims = 1 /\ Claims' = 0
      BY <1>1, <2>2 DEF Claims
    <3>4. QED
      BY <1>1, <1>5, <2>2, <3>1, <3>2, <3>3, Amounts DEF OrdersInv, Balanced, Spare
  <2>3. QED
    BY <1>2, <2>1, <2>2
<1>7. Balanced'
  BY <1>2, <1>5, <1>6 DEF OrdersInv, Balanced
<1>8. PagesInv'
  BY <1>1, <1>2, PagesUndisturbed
<1>9. WorkerInv' /\ GoodRecord(record)'
  BY <1>1, <1>2 DEF OrdersInv, StoreInv, WorkerInv, GoodRecord
<1>10. OrdersTypeOK'
  BY <1>types, <1>1, <1>2, <1>4, FaultsTyped DEF web, OrdersTypeOK, WorkerSteps
<1>11. QED
  BY <1>1, <1>4, <1>7, <1>8, <1>9, <1>10 DEF OrdersInv, StoreInv

\* The order still has the key of the shipment, or the delivery fails.
LEMMA CreatedStep ==
  ASSUME OrdersInv, Created
  PROVE  OrdersInv'
<1>1. /\ step = "created" /\ record # None /\ GoodRecord(record)
      /\ UNCHANGED <<record, outbox, faults>> /\ Elsewhere
      /\ workerHeld.key # 0 /\ workerHeld.key \in shipments
  BY DEF Created, OrdersInv, StoreInv, WorkerInv, Balanced
<1>2. CASE WorkerTo("failed")
  <2>1. step' = "failed" /\ workerHeld' = None /\ asked' = None
    BY <1>2, Forgets DEF Calm
  <2>2. QED
    BY <1>1, <2>1, WorkerGoesOn DEF Elsewhere, Calm, OrdersInv, StoreInv, OrdersTypeOK
<1>3. CASE /\ step' = "createdWrite" /\ workerHeld' = record /\ asked' = None
           /\ record.key = workerHeld.key
  BY <1>1, <1>3, WorkerReads DEF Elsewhere, GoodRecord
<1>4. QED
  BY <1>2, <1>3 DEF Created

\* The order is marked as shipped, under a key that has its shipment.
LEMMA CreatedWriteStep ==
  ASSUME OrdersInv, CreatedWrite
  PROVE  OrdersInv'
<1>1. /\ step = "createdWrite" /\ record # None /\ workerHeld # None /\ workerHeld.payment # None
      /\ GoodRecord(workerHeld) /\ workerHeld.paid /\ workerHeld.key \in shipments
      /\ Elsewhere /\ UNCHANGED outbox
  BY DEF CreatedWrite, Replace, OrdersInv, WorkerInv, Balanced
<1>2. PICK new \in Records :
          /\ new = [workerHeld EXCEPT !.shipped = TRUE]
          /\ new.payment = workerHeld.payment /\ new.paid /\ new.key = workerHeld.key
  <2> DEFINE r == [workerHeld EXCEPT !.shipped = TRUE]
  <2>1. r \in Records /\ r.payment = workerHeld.payment /\ r.paid /\ r.key = workerHeld.key
    BY <1>1 DEF GoodRecord, Records
  <2>2. QED
    BY <2>1
<1>3. /\ record' \in {new, record} /\ (Fault \/ UNCHANGED faults)
  BY <1>2, Wrote DEF CreatedWrite, Replace, OrdersInv, StoreInv
<1>4. GoodRecord(new)'
  BY <1>1, <1>2 DEF GoodRecord, Elsewhere
<1>5. Cardinality(PaidFor) >= Cardinality(shipments)
  BY Amounts DEF OrdersInv, Balanced, Spare
<1>6. asked' = None /\ workerHeld' = None /\ step' \in {"createdMail", "failed"}
  BY Forgets DEF CreatedWrite, Replace, WorkerTo, Calm
<1>7. keys' = keys /\ keys <= MaxKeys
  BY <1>1, OrdersAssumption DEF Elsewhere, OrdersInv, StoreInv, OrdersTypeOK
<1>8. Cardinality(PaidFor) >= Cardinality(shipments) + (IF new.key \in shipments THEN 0 ELSE 1)
  BY <1>1, <1>2, <1>5, Amounts
<1>9. QED
  BY <1>1, <1>2, <1>3, <1>4, <1>6, <1>7, <1>8, WorkerReplaces DEF Elsewhere, Calm

-----------------------------------------------------------------------------
LEMMA OrdersStep == OrdersInv /\ [OrdersNext]_orderVars => OrdersInv'
<1> SUFFICES ASSUME OrdersInv, [OrdersNext]_orderVars PROVE OrdersInv'
  OBVIOUS
<1>1. CASE \E c \in Clients : Serve(c)
  BY <1>1, SubmitStep, ReceiptStep, BeginPaymentStep, CreatePaymentStep, StorePaymentStep DEF Serve
<1>2. CASE \E p \in Payments : Pay(p)
  BY <1>2, PayStep
<1>3. CASE (\E p \in Payments : GetOld(p)) \/ (\E l \in Letters : DelayEnds(l)) \/ WebDies
  BY <1>3, ElsewhereStep
<1>4. CASE Tick \/ WorkerDies
  BY <1>4, ListOrdersStep, ReconcileStep, AskStep, ConfirmStep, ConfirmWriteStep, MailStep,
     CreateDeliveryStep, KeyWriteStep, CreateShipmentStep, CreatedStep, CreatedWriteStep, OutboxStep
     DEF Tick
<1>5. CASE UNCHANGED orderVars
  <2>1. /\ UNCHANGED <<record, outbox, provider, old, shipments, links, page, held, made,
                       step, workerHeld, asked, keys, faults>>
    BY <1>5 DEF orderVars, web, worker
  <2>2. WorkerInv' /\ Balanced' /\ (record' # None => GoodRecord(record)')
    BY <2>1, WorkerUndisturbed DEF worker
  <2>3. PagesInv'
    BY <2>1 DEF OrdersInv, PagesInv, Unstored, GoodRecord
  <2>4. QED
    BY <2>1, <2>2, <2>3 DEF OrdersInv, StoreInv, OrdersTypeOK
<1>6. QED
  BY <1>1, <1>2, <1>3, <1>4, <1>5 DEF OrdersNext

LEMMA OrdersInvHolds == OrdersSpec => []OrdersInv
  BY OrdersInitial, OrdersStep, PTL DEF OrdersSpec

\* The order's file, the letters, Ozon's payments and shipments, the pages and the worker
\* stay within their types.
THEOREM OrdersTypeCorrect == OrdersSpec => []OrdersTypeOK
<1>1. OrdersInv => OrdersTypeOK
  BY DEF OrdersInv, StoreInv
<1>2. QED
  BY <1>1, OrdersInvHolds, PTL

\* Any number of pages and the worker may replace the order over each other, die and fail,
\* and retry: there are never more shipments than payments the customer has made.
THEOREM ShippedOnlyPaid == OrdersSpec => []ShipmentsPaidFor
<1>1. OrdersInv => ShipmentsPaidFor
  BY Amounts DEF OrdersInv, Balanced, Spare, ShipmentsPaidFor, PaidFor
<1>2. QED
  BY <1>1, OrdersInvHolds, PTL
=============================================================================
