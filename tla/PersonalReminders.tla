--------------------------- MODULE PersonalReminders ---------------------------
(***************************************************************************)
(* A personal task of the owner, its reminder, and the ledger that keeps   *)
(* the reminder from being sent twice.  Scheduler processes (an old and a  *)
(* new one may overlap) look every minute for reminders that are due,      *)
(* claim one in the ledger for a limited time, send it by Telegram and     *)
(* note that it was sent.  Meanwhile the owner moves the reminder, or      *)
(* closes the task; Telegram may deliver a command of his twice.           *)
(***************************************************************************)
EXTENDS Absent, Integers, FiniteSets

CONSTANTS
    Schedulers, Commands,
    Statuses,       \* statuses the owner asks for
    ReminderTimes,  \* times a reminder may be set for
    Lease,          \* how long a claim holds; 5 minutes in the code
    RetryDelay,     \* how long a failed delivery waits; 1 minute
    MaxTime,        \* bound: the clock
    MaxFailures     \* bound: deaths and failed calls

Closed == {"done", "cancelled"}

\* Where a task may go from each status (ALLOWED_TRANSITIONS, canTransitionTask).
Allowed ==
    [new |-> {"new", "planned", "in_progress"} \union Closed,
     planned |-> {"planned", "in_progress", "waiting", "needs_confirmation"} \union Closed,
     in_progress |-> {"in_progress", "waiting", "needs_confirmation"} \union Closed,
     waiting |-> {"waiting", "in_progress", "needs_confirmation"} \union Closed,
     needs_confirmation |-> {"needs_confirmation", "in_progress", "waiting"} \union Closed,
     done |-> {"done"}, cancelled |-> {"cancelled"}]

VARIABLES
    now,        \* the clock
    task,       \* status and remindAt, None or a time
    processed,  \* commands that have a receipt
    ledger,     \* delivery key, which is the reminder's time -> None or its row
    sender,     \* per scheduler: None or its delivery under way
    delivered,  \* reminder times Telegram has accepted a message for
    failures

reminderVars == <<now, task, processed, ledger, sender, delivered, failures>>

Times == 0 .. MaxTime
\* The claim in a row is named by its scheduler, which makes one at a time.
LedgerRows == [state : {"sending", "retry", "sent"}, claim : Schedulers, leaseUntil : Times]
Deliveries == [key : ReminderTimes, at : Times, step : {"claim", "send", "finish", "retry"}]

ASSUME RemindersAssumption ==
    /\ MaxTime \in Nat /\ MaxFailures \in Nat /\ Lease \in Nat /\ RetryDelay \in Nat
    /\ None \notin LedgerRows

RemindersInit ==
    /\ now = 0
    /\ task \in [status : {"new"}, remindAt : ReminderTimes \union {None}]
    /\ processed = {} /\ delivered = {} /\ failures = 0
    /\ ledger = [k \in ReminderTimes |-> None]
    /\ sender = [s \in Schedulers |-> None]

\* A bound of the model: every claim has run out at the end of its time.
Until(t) == IF t < MaxTime THEN t ELSE MaxTime

Failure == failures < MaxFailures /\ failures' = failures + 1

-----------------------------------------------------------------------------
(* The owner.                                                               *)

OwnerOnly == UNCHANGED <<now, ledger, sender, delivered, failures>>

\* transitionTask, under the task's row lock: a new due time moves a reminder that is set.
TransitionTask(next, due) ==
    /\ next \in Allowed[task.status]
    /\ task' = [status |-> next,
                remindAt |-> IF due # None /\ task.remindAt # None THEN due ELSE task.remindAt]
    /\ UNCHANGED processed
    /\ OwnerOnly

\* setTaskReminder: once per command, and only for an open task that has a reminder.  A
\* command is made for one version of the task: current says whether it still is that one.
SetTaskReminder(c, at, current) ==
    /\ at # None => at > now
    /\ c \notin processed
    /\ processed' = processed \union {c}
    /\ task' = IF task.status \notin Closed /\ current /\ task.remindAt # None
               THEN [task EXCEPT !.remindAt = at] ELSE task
    /\ OwnerOnly

-----------------------------------------------------------------------------
(* The schedulers.                                                          *)

Goes(s, d) == sender' = [sender EXCEPT ![s] = d]
LedgerOnly == UNCHANGED <<now, task, processed>>

Due(t) == task.status \notin Closed /\ task.remindAt = t /\ t <= now

\* runTick lists the open tasks and begins to deliver a reminder that is due; the time is
\* the tick's.
RunTick(s) ==
    /\ sender[s] = None
    /\ \E t \in ReminderTimes :
          Due(t) /\ Goes(s, [key |-> t, at |-> now, step |-> "claim"])
    /\ UNCHANGED <<ledger, delivered, failures>> /\ LedgerOnly

\* A mistaken claim: only a delivery that waits for its retry is taken over.
ClaimableIfRetry(row, at) == row # None => (row.state = "retry" /\ row.leaseUntil <= at)

\* The condition of claim's ON CONFLICT clause.
Claimable(row, at) == row # None => (row.state # "sent" /\ row.leaseUntil <= at)

\* claim, one statement; it fails or finds nothing to claim.
Claim(s) ==
    LET d == sender[s] IN
    /\ d # None /\ d.step = "claim"
    /\ \/ /\ Claimable(ledger[d.key], d.at)
          /\ ledger' = [ledger EXCEPT ![d.key] =
                [state |-> "sending", claim |-> s, leaseUntil |-> Until(d.at + Lease)]]
          /\ \/ Goes(s, [d EXCEPT !.step = "send"]) /\ UNCHANGED failures
             \/ Goes(s, None) /\ Failure
       \/ /\ ~Claimable(ledger[d.key], d.at)
          /\ Goes(s, None) /\ UNCHANGED <<ledger, failures>>
    /\ UNCHANGED delivered /\ LedgerOnly

\* sendMessage: a failed call may have been delivered.
Send(s) ==
    LET d == sender[s] IN
    /\ d # None /\ d.step = "send"
    /\ \/ /\ delivered' = delivered \union {d.key}
          /\ Goes(s, [d EXCEPT !.step = "finish"]) /\ UNCHANGED failures
       \/ /\ delivered' \in {delivered, delivered \union {d.key}}
          /\ Goes(s, [d EXCEPT !.step = "retry"]) /\ Failure
    /\ UNCHANGED ledger /\ LedgerOnly

Owns(s) ==
    LET row == ledger[sender[s].key] IN row.claim = s /\ row.state = "sending"

\* finish, if the claim is still this sender's; otherwise, or when the statement fails,
\* retry follows.
Finish(s) ==
    LET d == sender[s]
        Sent == [ledger EXCEPT ![d.key].state = "sent"] IN
    /\ d # None /\ d.step = "finish"
    /\ \/ Owns(s) /\ ledger' = Sent /\ Goes(s, None) /\ UNCHANGED failures
       \/ ~Owns(s) /\ Goes(s, [d EXCEPT !.step = "retry"]) /\ UNCHANGED <<ledger, failures>>
       \/ /\ Failure /\ Goes(s, [d EXCEPT !.step = "retry"])
          /\ ledger' \in {ledger, IF Owns(s) THEN Sent ELSE ledger}
    /\ UNCHANGED delivered /\ LedgerOnly

Waiting(s) ==
    [ledger EXCEPT ![sender[s].key] = [@ EXCEPT !.state = "retry", !.leaseUntil = Until(now + RetryDelay)]]

\* A mistaken retry: whoever has the claim by now.
RetryAnyClaim(s) ==
    /\ sender[s] # None /\ sender[s].step = "retry"
    /\ \/ ledger' = IF ledger[sender[s].key].state = "sending" THEN Waiting(s) ELSE ledger
       \/ UNCHANGED ledger
    /\ Goes(s, None)
    /\ UNCHANGED <<delivered, failures>> /\ LedgerOnly

\* retry: only a claim that is still this sender's waits for its retry.
Retry(s) ==
    /\ sender[s] # None /\ sender[s].step = "retry"
    /\ \/ ledger' = (IF Owns(s) THEN Waiting(s) ELSE ledger) /\ UNCHANGED failures
       \/ UNCHANGED ledger /\ Failure
    /\ Goes(s, None)
    /\ UNCHANGED delivered /\ LedgerOnly

\* The process dies, and is started again.
Die(s) ==
    /\ sender[s] # None /\ Failure
    /\ Goes(s, None)
    /\ UNCHANGED <<ledger, delivered>> /\ LedgerOnly

TimePasses ==
    /\ now < MaxTime /\ now' = now + 1
    /\ UNCHANGED <<task, processed, ledger, sender, delivered, failures>>

Deliver(s) == RunTick(s) \/ Claim(s) \/ Send(s) \/ Finish(s) \/ Retry(s)

RemindersNext ==
    \/ \E next \in Statuses, due \in ReminderTimes \union {None} : TransitionTask(next, due)
    \/ \E c \in Commands, at \in ReminderTimes \union {None}, current \in BOOLEAN :
          SetTaskReminder(c, at, current)
    \/ \E s \in Schedulers : Deliver(s) \/ Die(s)
    \/ TimePasses

RemindersSpec == RemindersInit /\ [][RemindersNext]_reminderVars

-----------------------------------------------------------------------------
RemindersTypeOK ==
    /\ now \in Times /\ failures \in 0 .. MaxFailures
    /\ task \in [status : DOMAIN Allowed, remindAt : ReminderTimes \union {None}]
    /\ processed \subseteq Commands /\ delivered \subseteq ReminderTimes
    /\ ledger \in [ReminderTimes -> LedgerRows \union {None}]
    /\ sender \in [Schedulers -> Deliveries \union {None}]

HasLease(s) ==
    sender[s] # None /\ sender[s].step \in {"send", "finish"} /\ Until(sender[s].at + Lease) > now

\* No two schedulers send one reminder at a time while the claim of each still holds, though
\* one comes back late from Telegram, fails and reports that to the ledger: a late finish
\* or retry leaves the claim of another alone (claim_id in both statements).
LeaseExclusive ==
    \A s, t \in Schedulers : HasLease(s) /\ HasLease(t) /\ sender[s].key = sender[t].key => s = t

\* A reminder that is due reaches Telegram, whatever scheduler dies holding its claim, unless
\* the owner moves it or closes the task first.
DueReminderSent == []<>(\A t \in ReminderTimes : Due(t) => t \in delivered)
=============================================================================
