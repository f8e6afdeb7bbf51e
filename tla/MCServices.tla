------------------------------- MODULE MCServices -------------------------------
(***************************************************************************)
(* One run for seven parts that share no state: the shop's orders and      *)
(* payments, the cart in the customer's browser, the personal reminders,   *)
(* the owner's dialogue with Arthur, the shifts and the seller tasks of    *)
(* the KPI service, and Arthur's alerts about its figures.  A behaviour is *)
(* one part's, the one in focus, while the others rest.                    *)
(***************************************************************************)
EXTENDS PaidCart, PersonalReminders, KpiShifts, OrderPayments, SellerTasks, ArthurDialogue,
        KpiAlerts

VARIABLE focus

\* What the owner writes to Arthur is about one task, due at once or without a date.
Subject == CHOOSE t \in Titles : TRUE
Todo(due) == [title |-> Subject, due |-> due]
MCMessages ==
    [kind : {"create"}, todo : {<<Todo(Never)>>, <<Todo(1), Todo(Never)>>}]
    \union [kind : {"finish"}, task : {[by |-> "title", title |-> Subject], [by |-> "nothing"]}]
    \union [kind : {"move"}, task : {[by |-> "number", number |-> 1]}, due : {1}]
    \union [kind : {"mail", "yes"}] \union [kind : {"number"}, number : {1}]
    \union [kind : {"words"}, title : {Subject}]

MCProposals == {<<Subject>>, <<Subject, Subject>>}

Init ==
    /\ focus \in {"orders", "cart", "reminders", "shifts", "tasks", "dialogue", "alerts"}
    /\ OrdersInit /\ CartInit /\ RemindersInit /\ KpiInit /\ TasksInit
    /\ DialogueInit /\ AlertsInit
    /\ focus # "reminders" => task.remindAt = None
    /\ focus # "tasks" => recent

\* A step of one part, when it is in focus.
OrdersStep == focus = "orders" /\ OrdersNext
CartStep == focus = "cart" /\ CartNext
RemindersStep == focus = "reminders" /\ RemindersNext
ShiftsStep == focus = "shifts" /\ KpiNext
SellerStep == focus = "tasks" /\ TasksNext
DialogueStep == focus = "dialogue" /\ DialogueNext
AlertsStep == focus = "alerts" /\ AlertsNext

Next ==
    /\ UNCHANGED focus
    /\ \/ /\ OrdersStep
          /\ UNCHANGED <<cartVars, reminderVars, kpiVars, taskVars, dialogueVars, alertVars>>
       \/ /\ CartStep
          /\ UNCHANGED <<orderVars, reminderVars, kpiVars, taskVars, dialogueVars, alertVars>>
       \/ /\ RemindersStep
          /\ UNCHANGED <<orderVars, cartVars, kpiVars, taskVars, dialogueVars, alertVars>>
       \/ /\ ShiftsStep
          /\ UNCHANGED <<orderVars, cartVars, reminderVars, taskVars, dialogueVars, alertVars>>
       \/ /\ SellerStep
          /\ UNCHANGED <<orderVars, cartVars, reminderVars, kpiVars, dialogueVars, alertVars>>
       \/ /\ DialogueStep
          /\ UNCHANGED <<orderVars, cartVars, reminderVars, kpiVars, taskVars, alertVars>>
       \/ /\ AlertsStep
          /\ UNCHANGED <<orderVars, cartVars, reminderVars, kpiVars, taskVars, dialogueVars>>

\* The worker goes round for ever, and the delay of some letter that waits ends.
OrdersFair ==
    /\ WF_orderVars(focus = "orders" /\ Tick)
    /\ WF_orderVars(focus = "orders" /\ \E l \in Letters : DelayEnds(l))

\* Each page checks again every 30 seconds while it is visible.
CartFair == \A k \in Keys : WF_cartVars(focus = "cart" /\ Sync(k))

\* Time passes; a scheduler ticks every minute and goes on with what it has begun.
RemindersFair ==
    /\ WF_reminderVars(focus = "reminders" /\ TimePasses)
    /\ \A s \in Schedulers : WF_reminderVars(focus = "reminders" /\ Deliver(s))

\* The gateway's loop goes on, and every call it makes comes to an end.
DialogueFair == WF_dialogueVars(focus = "dialogue" /\ Loop)

Spec ==
    /\ Init
    /\ [][Next]_<<focus, orderVars, cartVars, reminderVars, kpiVars, taskVars, dialogueVars, alertVars>>
    /\ OrdersFair /\ CartFair /\ RemindersFair /\ DialogueFair
=============================================================================
