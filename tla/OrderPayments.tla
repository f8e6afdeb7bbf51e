------------------------------ MODULE OrderPayments ------------------------------
(***************************************************************************)
(* One order of the shop: its request, the payment at Ozon, the shipment   *)
(* and the letters about them.  The web process serves the checkout pages  *)
(* and the worker goes round every few seconds; both read the order's file *)
(* and replace it whole, and neither locks it.                             *)
(*                                                                         *)
(* Either process may die and any call may fail; a call that failed may    *)
(* have had its effect.                                                    *)
(***************************************************************************)
EXTENDS Absent, Integers, FiniteSets

CONSTANTS
    Clients,       \* checkout pages of the customer
    Payments,      \* ids of payments at Ozon
    MaxKeys,       \* bound: idempotency keys of shipments
    MaxOrderFaults \* bound: deaths and failed calls

\* Files of the mail and of the notification outbox, one per order and event, in the order
\* in which a round goes through them: first the mail, each box by the names of its files.
Place == [mail_shipped |-> 1, mail_paid |-> 2, mail_received |-> 3,
          note_shipped |-> 4, note_failed |-> 5, note_paid |-> 6]
Letters == DOMAIN Place

\* The order's JSON record.
Records == [pvz : BOOLEAN, payment : Payments \union {None}, paid : BOOLEAN,
            key : 0 .. MaxKeys, shipped : BOOLEAN]

ASSUME OrdersAssumption ==
    MaxKeys \in Nat /\ MaxOrderFaults \in Nat /\ None \notin Payments /\ None \notin Records

WorkerSteps == {"list", "reconcile", "answer", "confirm", "confirmWrite", "confirmMail",
                "notify", "deliver", "keyWrite", "create", "created", "createdWrite",
                "createdMail", "failed", "outbox"}

VARIABLES
    record,     \* the order's file, None before the request is accepted
    outbox,     \* letter -> "none", "pending", "retry" (waits for its next attempt), "sent"
    provider,   \* payment -> "none", "new" or "paid", at Ozon
    old,        \* payments that began more than 24 hours ago
    shipments,  \* idempotency keys Ozon has made a shipment for
    links,      \* payments whose link the customer has
    page, held, made,         \* per page: its request's next step, the record read, the payment made
    step, workerHeld, asked,  \* of the worker: its next step, the record read, the payment asked about
    keys,       \* idempotency keys drawn
    faults

web == <<page, held, made>>
worker == <<step, workerHeld, asked>>
orderVars == <<record, outbox, provider, old, shipments, links, web, worker, keys, faults>>

OrdersInit ==
    /\ record = None
    /\ outbox = [l \in Letters |-> "none"]
    /\ provider = [p \in Payments |-> "none"]
    /\ old = {} /\ shipments = {} /\ links = {}
    /\ page = [c \in Clients |-> "idle"]
    /\ held = [c \in Clients |-> None] /\ made = [c \in Clients |-> None]
    /\ step = "list" /\ workerHeld = None /\ asked = None
    /\ keys = 0 /\ faults = 0

Fault == faults < MaxOrderFaults /\ faults' = faults + 1

\* A write works, or fails before or after the rename.
Try(Write, undone) == (Write /\ UNCHANGED faults) \/ (Fault /\ (Write \/ undone))

\* queueOrderMail, queueOrderNotification: the file is created unless it exists.
Queued(letters) == [l \in Letters |-> IF l \in letters /\ outbox[l] = "none" THEN "pending" ELSE outbox[l]]

-----------------------------------------------------------------------------
(* The web process.                                                         *)

Page(c, s) == page' = [page EXCEPT ![c] = s]

\* The request ends; what it has read is gone.
Idle(c) ==
    /\ page' = [page EXCEPT ![c] = "idle"]
    /\ held' = [held EXCEPT ![c] = None] /\ made' = [made EXCEPT ![c] = None]

\* store.save links a new file into place; stale stock, a changed price or an invalid
\* request ends the request before.
Save(c) ==
    \/ /\ Try(\E pvz \in BOOLEAN :
                  record' = [pvz |-> pvz, payment |-> None, paid |-> FALSE, key |-> 0, shipped |-> FALSE],
              UNCHANGED record)
       /\ Page(c, IF faults' = faults THEN "receipt" ELSE "idle")
    \/ UNCHANGED <<record, page, faults>>

\* POST /api/order-requests: a retry of an accepted request finds it, in its search or when
\* the file's retry key exists already, which is the same.
Submit(c) ==
    /\ page[c] = "idle"
    /\ \/ record # None /\ Page(c, "receipt") /\ UNCHANGED <<record, faults>>
       \/ record = None /\ Save(c)
    /\ UNCHANGED <<outbox, provider, old, shipments, links, held, made, worker, keys>>

\* The route queues the letter and answers; a failure of the queue is only logged.
Receipt(c) ==
    /\ page[c] = "receipt"
    /\ \/ outbox' = Queued({"mail_received"}) /\ UNCHANGED faults
       \/ Fault /\ UNCHANGED outbox
    /\ Page(c, "idle")
    /\ UNCHANGED <<record, provider, old, shipments, links, held, made, worker, keys>>

\* beginOzonPayment: an order with a payment has a link already.
BeginPayment(c) ==
    /\ page[c] = "idle" /\ record # None
    /\ IF record.payment # None
       THEN links' = links \union {record.payment} /\ UNCHANGED <<page, held>>
       ELSE Page(c, "create") /\ held' = [held EXCEPT ![c] = record] /\ UNCHANGED links
    /\ UNCHANGED <<record, outbox, provider, old, shipments, made, worker, keys, faults>>

\* Ozon makes a payment, of a new id; or the inventory is not fresh, or the call fails, perhaps
\* after Ozon has made one.
CreatePayment(c) ==
    /\ page[c] = "create"
    /\ \/ LET p == CHOOSE q \in Payments : provider[q] = "none" IN
            /\ \E q \in Payments : provider[q] = "none"
            /\ provider' = [provider EXCEPT ![p] = "new"]
            /\ \/ Page(c, "store") /\ made' = [made EXCEPT ![c] = p] /\ UNCHANGED <<held, faults>>
               \/ Idle(c) /\ Fault
       \/ Idle(c) /\ UNCHANGED <<provider, faults>>
    /\ UNCHANGED <<record, outbox, old, shipments, links, worker, keys>>

\* The order is replaced by what was read, with the new payment; the page gets the link.
StorePayment(c) ==
    LET New == [held[c] EXCEPT !.payment = made[c], !.paid = FALSE] IN
    /\ page[c] = "store"
    /\ Try(record' = New, UNCHANGED record)
    /\ links' = IF faults' = faults THEN links \union {made[c]} ELSE links
    /\ Idle(c)
    /\ UNCHANGED <<outbox, provider, old, shipments, worker, keys>>

\* The customer pays at Ozon by a link.
Pay(p) ==
    /\ p \in links /\ provider[p] = "new"
    /\ provider' = [provider EXCEPT ![p] = "paid"]
    /\ UNCHANGED <<record, outbox, old, shipments, links, web, worker, keys, faults>>

\* A day has passed since a payment began; it matters while the order waits for it.
GetOld(p) ==
    /\ record # None /\ record.payment = p /\ ~record.paid /\ p \notin old
    /\ old' = old \union {p}
    /\ UNCHANGED <<record, outbox, provider, shipments, links, web, worker, keys, faults>>

-----------------------------------------------------------------------------
(* The worker: reconciliation.                                              *)

\* What a function of the worker has read goes with it.
WorkerTo(s) ==
    /\ step' = s /\ asked' = None
    /\ workerHeld' = IF s \in {"create", "created"} THEN workerHeld ELSE None
Elsewhere == UNCHANGED <<provider, old, shipments, links, web, keys>>

\* tick lists the orders and passes over the ones without a recent unpaid payment.
ListOrders ==
    /\ step = "list"
    /\ WorkerTo(IF record # None /\ record.payment \notin {None} \union old /\ ~record.paid
                THEN "reconcile" ELSE "notify")
    /\ UNCHANGED <<record, outbox, faults>> /\ Elsewhere

\* reconcileOzonPayment reads the order again.
Reconcile ==
    /\ step = "reconcile"
    /\ IF record.payment = None THEN WorkerTo("notify")
       ELSE IF record.paid THEN WorkerTo("confirmMail")
       ELSE step' = "answer" /\ asked' = record.payment /\ workerHeld' = None
    /\ UNCHANGED <<record, outbox, faults>> /\ Elsewhere

\* getOzonOrderDetails
Ask ==
    /\ step = "answer"
    /\ \/ WorkerTo(IF provider[asked] = "paid" THEN "confirm" ELSE "notify") /\ UNCHANGED faults
       \/ Fault /\ WorkerTo("notify")
    /\ UNCHANGED <<record, outbox>> /\ Elsewhere

\* The order is read a third time and marked as paid, whatever payment it has by now.
Confirm ==
    /\ step = "confirm"
    /\ IF record.payment = None THEN WorkerTo("notify")
       ELSE IF record.paid THEN WorkerTo("confirmMail")
       ELSE step' = "confirmWrite" /\ workerHeld' = record /\ asked' = None
    /\ UNCHANGED <<record, outbox, faults>> /\ Elsewhere

\* The worker replaces the order and goes on, or fails and goes elsewhere.
Replace(new, next, otherwise) ==
    /\ Try(record' = new, UNCHANGED record)
    /\ WorkerTo(IF faults' = faults THEN next ELSE otherwise)
    /\ UNCHANGED outbox

ConfirmWrite ==
    /\ step = "confirmWrite"
    /\ Replace([workerHeld EXCEPT !.paid = TRUE], "confirmMail", "notify")
    /\ Elsewhere

\* Letters are queued, all or, when that fails, some of them.
QueueThen(letters, next, otherwise) ==
    /\ \/ outbox' = Queued(letters) /\ UNCHANGED faults /\ WorkerTo(next)
       \/ \E some \in SUBSET letters : outbox' = Queued(some) /\ Fault /\ WorkerTo(otherwise)
    /\ UNCHANGED record

ConfirmMail == step = "confirmMail" /\ QueueThen({"mail_paid"}, "notify", "notify") /\ Elsewhere

-----------------------------------------------------------------------------
(* The worker: notifications and the shipment.                              *)

Paid == record # None /\ record.paid

\* Only a paid order for a pick-up point is shipped.
AfterNotify ==
    IF Paid /\ record.pvz /\ ~record.shipped THEN "deliver" ELSE "outbox"

\* A mistaken tick: the owner's letter is queued where the payment is confirmed.
NotifyNothing ==
    /\ step = "notify"
    /\ QueueThen({}, AfterNotify, AfterNotify)
    /\ Elsewhere

\* The second half of tick: the owner's letters of a paid order, again in every round.
Notify ==
    /\ step = "notify"
    /\ QueueThen(IF ~Paid THEN {}
                 ELSE {"note_paid"} \union (IF record.shipped THEN {"note_shipped"} ELSE {}),
                 AfterNotify, AfterNotify)
    /\ Elsewhere

\* createOzonPickupDelivery: unless deliveries are switched off, or the parcel cannot be
\* packed or the order is not paid any more, which throws.  The order is read, and an
\* idempotency key is stored before Ozon is called.
CreateDelivery ==
    /\ step = "deliver"
    /\ \/ WorkerTo("failed")
       \/ WorkerTo("outbox")
       \/ /\ record.paid /\ record.shipped
          /\ WorkerTo("outbox")
       \/ /\ record.paid /\ ~record.shipped
          /\ step' = IF record.key = 0 THEN "keyWrite" ELSE "create"
          /\ workerHeld' = record /\ asked' = None
    /\ UNCHANGED <<record, outbox, faults>> /\ Elsewhere

\* A mistaken delivery: the key is not stored before the call.
KeyNotStored ==
    /\ step = "keyWrite" /\ keys < MaxKeys
    /\ keys' = keys + 1
    /\ workerHeld' = [workerHeld EXCEPT !.key = keys + 1]
    /\ step' = "create"
    /\ UNCHANGED <<record, outbox, provider, old, shipments, links, web, asked, faults>>

\* When the bound on keys is reached the delivery fails.
KeyWrite ==
    /\ step = "keyWrite"
    /\ \/ LET New == [workerHeld EXCEPT !.key = keys + 1] IN
          /\ keys < MaxKeys /\ keys' = keys + 1
          /\ Try(record' = New, UNCHANGED record)
          /\ step' = IF faults' = faults THEN "create" ELSE "failed"
          /\ workerHeld' = IF faults' = faults THEN New ELSE None
          /\ UNCHANGED asked
       \/ keys = MaxKeys /\ WorkerTo("failed") /\ UNCHANGED <<record, keys, faults>>
    /\ UNCHANGED <<outbox, provider, old, shipments, links, web>>

\* The shipment is quoted and created; Ozon makes one per key.
CreateShipment ==
    /\ step = "create"
    /\ \/ shipments' = shipments \union {workerHeld.key} /\ WorkerTo("created") /\ UNCHANGED faults
       \/ /\ Fault /\ WorkerTo("failed")
          /\ shipments' \in {shipments, shipments \union {workerHeld.key}}
    /\ UNCHANGED <<record, outbox, provider, old, links, web, keys>>

\* The order is read again: it must still have the key.
Created ==
    /\ step = "created"
    /\ IF record.key # workerHeld.key THEN WorkerTo("failed")
       ELSE step' = "createdWrite" /\ workerHeld' = record /\ asked' = None
    /\ UNCHANGED <<record, outbox, faults>> /\ Elsewhere

CreatedWrite ==
    /\ step = "createdWrite"
    /\ Replace([workerHeld EXCEPT !.shipped = TRUE], "createdMail", "failed")
    /\ Elsewhere

CreatedMail == step = "createdMail" /\ QueueThen({"mail_shipped"}, "outbox", "failed") /\ Elsewhere

\* tick's catch block.
DeliveryFailed == step = "failed" /\ QueueThen({"note_failed"}, "outbox", "outbox") /\ Elsewhere

-----------------------------------------------------------------------------
(* The worker: the outboxes.                                                *)

NextInTurn(l) ==
    \A k \in Letters : Place[k] < Place[l] => outbox[k] # "pending"

\* processMailOutbox, processOrderNotificationOutbox: a letter is sent and then noted
\* as sent; a failure is noted for a later attempt, or not at all, which ends the round.
SendLetter(l) ==
    /\ step = "outbox" /\ outbox[l] = "pending" /\ NextInTurn(l)
    /\ \/ outbox' = [outbox EXCEPT ![l] = "sent"] /\ UNCHANGED faults /\ WorkerTo("outbox")
       \/ outbox' = [outbox EXCEPT ![l] = "retry"] /\ Fault /\ WorkerTo("outbox")
       \/ UNCHANGED outbox /\ Fault /\ WorkerTo("list")
    /\ UNCHANGED record /\ Elsewhere

\* The delay of a letter that failed is over.
DelayEnds(l) ==
    /\ outbox[l] = "retry"
    /\ outbox' = [outbox EXCEPT ![l] = "pending"]
    /\ UNCHANGED <<record, provider, old, shipments, links, web, worker, keys, faults>>

EndTick ==
    /\ step = "outbox" /\ \A l \in Letters : outbox[l] # "pending"
    /\ WorkerTo("list")
    /\ UNCHANGED <<record, outbox, faults>> /\ Elsewhere

\* The worker dies and starts again.
WorkerDies ==
    /\ Fault
    /\ step' = "list" /\ workerHeld' = None /\ asked' = None
    /\ UNCHANGED <<record, outbox>> /\ Elsewhere

\* The web process dies with its requests.
WebDies ==
    /\ Fault
    /\ \E c \in Clients : page[c] # "idle"
    /\ page' = [c \in Clients |-> "idle"]
    /\ held' = [c \in Clients |-> None] /\ made' = [c \in Clients |-> None]
    /\ UNCHANGED <<record, outbox, provider, old, shipments, links, worker, keys>>

Serve(c) == Submit(c) \/ Receipt(c) \/ BeginPayment(c) \/ CreatePayment(c) \/ StorePayment(c)

Tick ==
    \/ ListOrders \/ Reconcile \/ Ask \/ Confirm \/ ConfirmWrite \/ ConfirmMail
    \/ Notify \/ CreateDelivery \/ KeyWrite \/ CreateShipment \/ Created \/ CreatedWrite
    \/ CreatedMail \/ DeliveryFailed
    \/ (\E l \in Letters : SendLetter(l)) \/ EndTick

OrdersNext ==
    \/ \E c \in Clients : Serve(c)
    \/ \E p \in Payments : Pay(p) \/ GetOld(p)
    \/ Tick \/ (\E l \in Letters : DelayEnds(l))
    \/ WorkerDies \/ WebDies

OrdersSpec == OrdersInit /\ [][OrdersNext]_orderVars

-----------------------------------------------------------------------------
OrdersTypeOK ==
    /\ record \in Records \union {None}
    /\ outbox \in [Letters -> {"none", "pending", "retry", "sent"}]
    /\ provider \in [Payments -> {"none", "new", "paid"}]
    /\ old \subseteq Payments /\ links \subseteq Payments
    /\ shipments \subseteq 1 .. MaxKeys
    /\ page \in [Clients -> {"idle", "receipt", "create", "store"}]
    /\ held \in [Clients -> Records \union {None}]
    /\ made \in [Clients -> Payments \union {None}]
    /\ step \in WorkerSteps
    /\ workerHeld \in Records \union {None} /\ asked \in Payments \union {None}
    /\ keys \in 0 .. MaxKeys /\ faults \in 0 .. MaxOrderFaults

\* Two pages and the worker replace the order over each other, and a shipment is tried
\* again after any failure: the shop never ships more parcels than the customer has paid
\* for.  The idempotency key that is stored before Ozon is called (createOzonPickupDelivery)
\* and the payment that must be confirmed anew after a stale replacement make it so.
ShipmentsPaidFor ==
    Cardinality(shipments) <= Cardinality({p \in Payments : provider[p] = "paid"})

\* An order marked as paid reaches the owner, whatever the worker dies of in between: tick
\* queues the notification of a paid order in every round (unlike the customer's mail,
\* which is queued once).  Unless a stale replacement takes the mark away.
PaidIsNotified == []<>(Paid => outbox["note_paid"] = "sent")
=============================================================================
