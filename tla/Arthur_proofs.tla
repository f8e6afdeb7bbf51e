------------------------- MODULE Arthur_proofs -------------------------
(***************************************************************************)
(* Proofs about Arthur.  PersonalReminders: for any number of schedulers,  *)
(* reminders and failures, and whatever the lease and the delay of a       *)
(* retry, no two schedulers are sending one reminder while the claim of    *)
(* each holds.  ArthurDialogue: for any messages, proposals, lost writes   *)
(* and restarts, an offer is used once and a command makes no double.      *)
(***************************************************************************)
EXTENDS PersonalReminders, ArthurDialogue, SequenceTheorems, TLAPS

-----------------------------------------------------------------------------
(* PersonalReminders.                                                       *)

\* A delivery began at a time that has been, and its reminder has a row once it was claimed.
\* While its claim holds that row is the one it wrote.
Begun(s) ==
    sender[s] # None =>
        /\ sender[s].at <= now
        /\ sender[s].step # "claim" => ledger[sender[s].key] \in LedgerRows

LeaseInLedger(s) ==
    HasLease(s) =>
        ledger[sender[s].key] =
            [state |-> "sending", claim |-> s, leaseUntil |-> Until(sender[s].at + Lease)]

Inductive ==
    /\ RemindersTypeOK
    /\ \A s \in Schedulers : Begun(s) /\ LeaseInLedger(s)

-----------------------------------------------------------------------------
LEMMA UntilTyped ==
  ASSUME NEW t \in Nat
  PROVE  Until(t) \in Times
BY RemindersAssumption DEF Until, Times

\* Where a task may go from a status is a status.
LEMMA AllowedStatuses ==
  ASSUME NEW from \in DOMAIN Allowed, NEW to \in Allowed[from]
  PROVE  to \in DOMAIN Allowed
BY DEF Allowed, Closed

LEMMA InitialState == RemindersInit => Inductive
<1> SUFFICES ASSUME RemindersInit PROVE Inductive
  OBVIOUS
<1>1. RemindersTypeOK
  BY RemindersAssumption DEF RemindersInit, RemindersTypeOK, Times, Allowed
<1>2. QED
  BY <1>1 DEF RemindersInit, Inductive, Begun, LeaseInLedger, HasLease

-----------------------------------------------------------------------------
(* The owner and the clock leave the ledger and the senders alone.          *)

LEMMA SendersRest ==
  ASSUME Inductive, UNCHANGED <<ledger, sender>>, now' \in Times, now <= now',
         NEW s \in Schedulers
  PROVE  (Begun(s) /\ LeaseInLedger(s))'
<1>1. HasLease(s)' => HasLease(s)
  <2>1. CASE sender[s] # None
    <3>1. sender[s] \in Deliveries
      BY <2>1 DEF Inductive, RemindersTypeOK
    <3>2. Until(sender[s].at + Lease) \in Times
      BY <3>1, UntilTyped, RemindersAssumption DEF Deliveries, Times
    <3>3. QED
      BY <3>2, RemindersAssumption DEF Inductive, RemindersTypeOK, HasLease, Until, Times
  <2>2. CASE sender[s] = None
    BY <2>2 DEF HasLease
  <2>3. QED
    BY <2>1, <2>2
<1>2. LeaseInLedger(s)'
  BY <1>1 DEF Inductive, LeaseInLedger, Until
<1>3. Begun(s)'
  <2>1. CASE sender[s] # None
    <3>1. sender[s] \in Deliveries
      BY <2>1 DEF Inductive, RemindersTypeOK
    <3>2. QED
      BY <3>1, RemindersAssumption DEF Inductive, RemindersTypeOK, Begun, Deliveries, Times
  <2>2. CASE sender[s] = None
    BY <2>2 DEF Begun
  <2>3. QED
    BY <2>1, <2>2
<1>4. QED
  BY <1>2, <1>3

LEMMA OwnerStep ==
  ASSUME Inductive,
         \/ \E next \in Statuses, due \in ReminderTimes \union {None} : TransitionTask(next, due)
         \/ \E c \in Commands, at \in ReminderTimes \union {None}, current \in BOOLEAN :
               SetTaskReminder(c, at, current)
  PROVE  Inductive'
<1> USE DEF OwnerOnly
<1>1. UNCHANGED <<now, ledger, sender>>
  BY DEF TransitionTask, SetTaskReminder
<1>2. task' \in [status : DOMAIN Allowed, remindAt : ReminderTimes \union {None}]
  <2>1. task \in [status : DOMAIN Allowed, remindAt : ReminderTimes \union {None}]
    BY DEF Inductive, RemindersTypeOK
  <2>2. CASE \E next \in Statuses, due \in ReminderTimes \union {None} : TransitionTask(next, due)
    BY <2>1, <2>2, AllowedStatuses DEF TransitionTask
  <2>3. CASE \E c \in Commands, at \in ReminderTimes \union {None}, current \in BOOLEAN :
                SetTaskReminder(c, at, current)
    BY <2>1, <2>3 DEF SetTaskReminder
  <2>4. QED
    BY <2>2, <2>3
<1>3. RemindersTypeOK'
  BY <1>1, <1>2 DEF Inductive, RemindersTypeOK, TransitionTask, SetTaskReminder
<1>4. now' \in Times /\ now <= now'
  BY <1>1, RemindersAssumption DEF Inductive, RemindersTypeOK, Times
<1>5. QED
  BY <1>1, <1>3, <1>4, SendersRest DEF Inductive

LEMMA ClockStep ==
  ASSUME Inductive, TimePasses
  PROVE  Inductive'
<1>1. now' \in Times /\ now <= now'
  BY RemindersAssumption DEF Inductive, RemindersTypeOK, TimePasses, Times
<1>2. RemindersTypeOK'
  BY <1>1 DEF Inductive, RemindersTypeOK, TimePasses
<1>3. QED
  BY <1>1, <1>2, SendersRest DEF Inductive, TimePasses

-----------------------------------------------------------------------------
(* A step of one scheduler.                                                 *)

\* A row is only replaced when no other scheduler's claim on it holds.
LEMMA OthersUndisturbed ==
  ASSUME Inductive, NEW s \in Schedulers, NEW t \in Schedulers, s # t,
         now' = now, sender'[t] = sender[t],
         sender[s] # None, sender[s] \in Deliveries,
         \A k \in ReminderTimes : ledger[k] \in LedgerRows => ledger'[k] \in LedgerRows,
         \/ UNCHANGED ledger
         \/ /\ \A k \in ReminderTimes \ {sender[s].key} : ledger'[k] = ledger[k]
            /\ Owns(s) \/ Claimable(ledger[sender[s].key], sender[s].at)
  PROVE  (Begun(t) /\ LeaseInLedger(t))'
<1>1. Begun(t)'
  BY DEF Inductive, RemindersTypeOK, Begun, Deliveries
<1>2. HasLease(t)' <=> HasLease(t)
  BY DEF HasLease, Until
<1>3. HasLease(t) => ledger'[sender[t].key] = ledger[sender[t].key]
  <2> SUFFICES ASSUME HasLease(t), ~UNCHANGED ledger
               PROVE  ledger'[sender[t].key] = ledger[sender[t].key]
    OBVIOUS
  <2> DEFINE row == ledger[sender[t].key]
  <2>1. sender[t] \in Deliveries /\ sender[t].key \in ReminderTimes /\ sender[t].at \in Times
    BY DEF Inductive, RemindersTypeOK, HasLease, Deliveries
  <2>2. row = [state |-> "sending", claim |-> t, leaseUntil |-> Until(sender[t].at + Lease)]
    BY DEF Inductive, LeaseInLedger
  <2>3. row \in LedgerRows
    BY <2>1, <2>2, UntilTyped, RemindersAssumption DEF LedgerRows, Times
  <2>4. row # None
    BY <2>3, RemindersAssumption
  <2>5. CASE sender[t].key = sender[s].key
    <3>1. ~Owns(s)
      BY <2>2, <2>5 DEF Owns
    <3>2. row.leaseUntil <= sender[s].at
      BY <2>4, <2>5, <3>1 DEF Claimable
    <3>3. sender[s].at <= now
      BY DEF Inductive, Begun
    <3>4. row.leaseUntil > now
      BY <2>2 DEF HasLease
    <3>5. row.leaseUntil \in Int /\ now \in Int /\ sender[s].at \in Int
      BY <2>3, RemindersAssumption DEF Inductive, RemindersTypeOK, LedgerRows, Times, Deliveries
    <3>6. QED
      BY <3>2, <3>3, <3>4, <3>5
  <2>6. CASE sender[t].key # sender[s].key
    BY <2>1, <2>6
  <2>7. QED
    BY <2>5, <2>6
<1>4. LeaseInLedger(t)'
  BY <1>2, <1>3 DEF Inductive, LeaseInLedger, Until
<1>5. QED
  BY <1>1, <1>4

\* RunTick: a delivery begins now, and claims nothing yet.
LEMMA TickStep ==
  ASSUME Inductive, NEW s \in Schedulers, RunTick(s)
  PROVE  Inductive'
<1>1. PICK k \in ReminderTimes : Goes(s, [key |-> k, at |-> now, step |-> "claim"])
  BY DEF RunTick
<1>2. UNCHANGED <<now, task, processed, ledger, delivered, failures>>
  BY DEF RunTick, LedgerOnly
<1> DEFINE d == [key |-> k, at |-> now, step |-> "claim"]
<1>3. d \in Deliveries /\ sender' = [sender EXCEPT ![s] = d] /\ sender'[s] = d
  BY <1>1 DEF Inductive, RemindersTypeOK, Deliveries, Goes
<1>4. RemindersTypeOK'
  BY <1>2, <1>3 DEF Inductive, RemindersTypeOK
<1>5. ASSUME NEW t \in Schedulers PROVE (Begun(t) /\ LeaseInLedger(t))'
  <2>1. CASE t = s
    BY <1>2, <1>3, <2>1, RemindersAssumption
    DEF Begun, LeaseInLedger, HasLease, Inductive, RemindersTypeOK, Times
  <2>2. CASE t # s
    <3>1. sender'[t] = sender[t]
      BY <1>3, <2>2 DEF Inductive, RemindersTypeOK
    <3>2. QED
      BY <1>2, <3>1 DEF Inductive, Begun, LeaseInLedger, HasLease, Until
  <2>3. QED
    BY <2>1, <2>2
<1>6. QED
  BY <1>4, <1>5 DEF Inductive

\* A delivery under way goes on, is given up, or is over; the row it writes is its own.
LEMMA DeliveryStep ==
  ASSUME Inductive, NEW s \in Schedulers, sender[s] # None, UNCHANGED <<now, task, processed>>,
         failures' \in 0 .. MaxFailures, delivered' \subseteq ReminderTimes,
         NEW d \in Deliveries \union {None}, Goes(s, d),
         d # None => d.at = sender[s].at,
         d # None /\ d.step # "claim" => ledger'[d.key] \in LedgerRows,
         NEW row \in LedgerRows,
         \/ UNCHANGED ledger
         \/ /\ ledger' = [ledger EXCEPT ![sender[s].key] = row]
            /\ Owns(s) \/ Claimable(ledger[sender[s].key], sender[s].at),
         HasLease(s)' =>
            ledger'[d.key] = [state |-> "sending", claim |-> s, leaseUntil |-> Until(d.at + Lease)]
  PROVE  Inductive'
<1>1. sender[s] \in Deliveries /\ sender[s].key \in ReminderTimes
  BY DEF Inductive, RemindersTypeOK, Deliveries
<1>2. sender' = [sender EXCEPT ![s] = d] /\ sender'[s] = d
  BY DEF Inductive, RemindersTypeOK, Goes
<1>3. ledger' \in [ReminderTimes -> LedgerRows \union {None}]
  BY <1>1 DEF Inductive, RemindersTypeOK
<1>4. RemindersTypeOK'
  BY <1>2, <1>3 DEF Inductive, RemindersTypeOK
<1>5. /\ \A k \in ReminderTimes : ledger[k] \in LedgerRows => ledger'[k] \in LedgerRows
      /\ \/ UNCHANGED ledger
         \/ /\ \A k \in ReminderTimes \ {sender[s].key} : ledger'[k] = ledger[k]
            /\ Owns(s) \/ Claimable(ledger[sender[s].key], sender[s].at)
  BY DEF Inductive, RemindersTypeOK
<1>6. ASSUME NEW t \in Schedulers, t # s PROVE (Begun(t) /\ LeaseInLedger(t))'
  <2>1. sender'[t] = sender[t]
    BY <1>2, <1>6 DEF Inductive, RemindersTypeOK
  <2>2. QED
    BY <1>1, <1>5, <1>6, <2>1, OthersUndisturbed
<1>7. Begun(s)' /\ LeaseInLedger(s)'
  BY <1>2 DEF Inductive, Begun, LeaseInLedger, Until
<1>8. QED
  BY <1>4, <1>6, <1>7 DEF Inductive

\* A failure stays within its bound.
LEMMA FailuresTyped ==
  ASSUME Inductive, Failure \/ UNCHANGED failures
  PROVE  failures' \in 0 .. MaxFailures
BY RemindersAssumption DEF Inductive, RemindersTypeOK, Failure

LEMMA ClaimStep ==
  ASSUME Inductive, NEW s \in Schedulers, Claim(s)
  PROVE  Inductive'
<1> DEFINE d == sender[s]
           row == [state |-> "sending", claim |-> s, leaseUntil |-> Until(d.at + Lease)]
<1>1. d # None /\ d \in Deliveries /\ d.step = "claim" /\ d.key \in ReminderTimes
      /\ d.at \in Times
  BY DEF Inductive, RemindersTypeOK, Claim, Deliveries
<1>2. UNCHANGED <<now, task, processed, delivered>> /\ delivered' \subseteq ReminderTimes
  BY DEF Claim, LedgerOnly, Inductive, RemindersTypeOK
<1>3. failures' \in 0 .. MaxFailures
  BY FailuresTyped DEF Claim
<1>4. row \in LedgerRows
  BY <1>1, UntilTyped, RemindersAssumption DEF LedgerRows, Times
<1>5. CASE /\ Claimable(ledger[d.key], d.at)
           /\ ledger' = [ledger EXCEPT ![d.key] = row]
           /\ Goes(s, [d EXCEPT !.step = "send"])
  <2> DEFINE next == [d EXCEPT !.step = "send"]
  <2>1. next \in Deliveries /\ next.at = d.at /\ next.key = d.key
    BY <1>1 DEF Deliveries
  <2>2. ledger'[d.key] = row
    BY <1>1, <1>5 DEF Inductive, RemindersTypeOK
  <2>3. ledger'[next.key] = [state |-> "sending", claim |-> s, leaseUntil |-> Until(next.at + Lease)]
    BY <2>1, <2>2
  <2>4. ledger'[next.key] \in LedgerRows
    BY <1>4, <2>1, <2>2
  <2>5. Goes(s, next)
    BY <1>5
  <2> HIDE DEF next, row
  <2>6. QED
    BY <1>1, <1>2, <1>3, <1>4, <1>5, <2>1, <2>3, <2>4, <2>5, DeliveryStep
<1>6. CASE /\ Claimable(ledger[d.key], d.at)
           /\ ledger' = [ledger EXCEPT ![d.key] = row]
           /\ Goes(s, None)
  <2>1. ~HasLease(s)'
    BY <1>6 DEF HasLease, Goes, Inductive, RemindersTypeOK
  <2> HIDE DEF row
  <2>2. QED
    BY <1>1, <1>2, <1>3, <1>4, <1>6, <2>1, DeliveryStep
<1>7. CASE UNCHANGED ledger /\ Goes(s, None)
  <2>1. ~HasLease(s)'
    BY <1>7 DEF HasLease, Goes, Inductive, RemindersTypeOK
  <2> HIDE DEF row
  <2>2. QED
    BY <1>1, <1>2, <1>3, <1>4, <1>7, <2>1, DeliveryStep
<1>8. QED
  BY <1>5, <1>6, <1>7 DEF Claim

\* While the message is sent the claim stays as it was written.
LEMMA SendStep ==
  ASSUME Inductive, NEW s \in Schedulers, Send(s)
  PROVE  Inductive'
<1> DEFINE d == sender[s]
<1>1. d # None /\ d \in Deliveries /\ d.step = "send" /\ d.key \in ReminderTimes
      /\ d.at \in Times
  BY DEF Inductive, RemindersTypeOK, Send, Deliveries
<1>2. UNCHANGED <<now, task, processed, ledger>> /\ delivered' \subseteq ReminderTimes
  BY <1>1 DEF Send, LedgerOnly, Inductive, RemindersTypeOK
<1>3. failures' \in 0 .. MaxFailures
  BY FailuresTyped DEF Send
<1>4. PICK row \in LedgerRows : TRUE
  <2>1. [state |-> "sent", claim |-> s, leaseUntil |-> 0] \in LedgerRows
    BY RemindersAssumption DEF LedgerRows, Times
  <2>2. QED
    BY <2>1
<1>5. ASSUME NEW next, next \in {[d EXCEPT !.step = "finish"], [d EXCEPT !.step = "retry"]},
             Goes(s, next)
      PROVE  Inductive'
  <2>1. next \in Deliveries /\ next.at = d.at /\ next.key = d.key
        /\ ledger'[d.key] \in LedgerRows
    BY <1>1, <1>2, <1>5 DEF Inductive, Begun, Deliveries
  <2>2. HasLease(s)' => HasLease(s)
    BY <1>1, <1>2, <1>5, <2>1 DEF HasLease, Goes, Inductive, RemindersTypeOK, Until
  <2>3. HasLease(s)' =>
          ledger'[next.key] = [state |-> "sending", claim |-> s, leaseUntil |-> Until(next.at + Lease)]
    BY <1>2, <2>1, <2>2 DEF Inductive, LeaseInLedger
  <2>4. QED
    BY <1>1, <1>2, <1>3, <1>4, <1>5, <2>1, <2>3, DeliveryStep
<1>6. QED
  BY <1>5 DEF Send

\* Only its owner finishes a row or lets it wait.
LEMMA FinishStep ==
  ASSUME Inductive, NEW s \in Schedulers, Finish(s)
  PROVE  Inductive'
<1> DEFINE d == sender[s]
           row == [ledger[d.key] EXCEPT !.state = "sent"]
<1>1. d # None /\ d \in Deliveries /\ d.key \in ReminderTimes /\ ledger[d.key] \in LedgerRows
  BY DEF Inductive, RemindersTypeOK, Begun, Finish, Deliveries
<1>2. UNCHANGED <<now, task, processed, delivered>> /\ delivered' \subseteq ReminderTimes
  BY DEF Finish, LedgerOnly, Inductive, RemindersTypeOK
<1>3. failures' \in 0 .. MaxFailures
  BY FailuresTyped DEF Finish
<1>4. PICK next \in Deliveries \union {None} :
        /\ Goes(s, next) /\ (next # None => next.at = d.at /\ next.key = d.key)
        /\ ~HasLease(s)'
  <2>1. [d EXCEPT !.step = "retry"] \in Deliveries
    BY <1>1 DEF Deliveries
  <2>2. CASE Goes(s, None)
    BY <2>2 DEF HasLease, Goes, Inductive, RemindersTypeOK
  <2>3. CASE Goes(s, [d EXCEPT !.step = "retry"])
    <3>1. sender'[s] = [d EXCEPT !.step = "retry"]
      BY <2>3 DEF Goes, Inductive, RemindersTypeOK
    <3>2. ~HasLease(s)'
      BY <1>1, <3>1 DEF HasLease, Deliveries
    <3>3. [d EXCEPT !.step = "retry"].at = d.at /\ [d EXCEPT !.step = "retry"].key = d.key
      BY <1>1 DEF Deliveries
    <3>4. QED
      BY <2>1, <2>3, <3>2, <3>3
  <2>4. QED
    BY <2>2, <2>3 DEF Finish
<1>5. CASE UNCHANGED ledger
  <2>1. PICK any \in LedgerRows : TRUE
    <3>1. [state |-> "sent", claim |-> s, leaseUntil |-> 0] \in LedgerRows
      BY RemindersAssumption DEF LedgerRows, Times
    <3>2. QED
      BY <3>1
  <2>2. QED
    BY <1>1, <1>2, <1>3, <1>4, <1>5, <2>1, DeliveryStep
<1>6. CASE Owns(s) /\ ledger' = [ledger EXCEPT ![d.key].state = "sent"]
  <2>1. row \in LedgerRows
    BY <1>1, <1>6 DEF Inductive, RemindersTypeOK, LedgerRows
  <2>2. ledger' = [ledger EXCEPT ![d.key] = row]
    BY <1>6
  <2> HIDE DEF row
  <2>3. QED
    BY <1>1, <1>2, <1>3, <1>4, <1>6, <2>1, <2>2, DeliveryStep DEF Inductive, RemindersTypeOK
<1>7. QED
  BY <1>5, <1>6 DEF Finish

LEMMA RetryStep ==
  ASSUME Inductive, NEW s \in Schedulers, Retry(s)
  PROVE  Inductive'
<1> DEFINE d == sender[s]
           row == [ledger[d.key] EXCEPT !.state = "retry", !.leaseUntil = Until(now + RetryDelay)]
<1>1. d # None /\ d \in Deliveries /\ d.key \in ReminderTimes /\ ledger[d.key] \in LedgerRows
  BY DEF Inductive, RemindersTypeOK, Begun, Retry, Deliveries
<1>2. UNCHANGED <<now, task, processed, delivered>> /\ delivered' \subseteq ReminderTimes
  BY DEF Retry, LedgerOnly, Inductive, RemindersTypeOK
<1>3. failures' \in 0 .. MaxFailures
  BY FailuresTyped DEF Retry
<1>4. Goes(s, None) /\ ~HasLease(s)'
  BY DEF Retry, HasLease, Goes, Inductive, RemindersTypeOK
<1>5. Until(now + RetryDelay) \in Times
  BY UntilTyped, RemindersAssumption DEF Inductive, RemindersTypeOK, Times
<1>6. row \in LedgerRows
  BY <1>1, <1>5 DEF LedgerRows
<1>7. CASE UNCHANGED ledger
  <2> HIDE DEF row
  <2>1. QED
    BY <1>1, <1>2, <1>3, <1>4, <1>6, <1>7, DeliveryStep
<1>8. CASE Owns(s) /\ ledger' = Waiting(s)
  <2>1. ledger' = [ledger EXCEPT ![d.key] = row]
    BY <1>8 DEF Waiting
  <2> HIDE DEF row
  <2>2. QED
    BY <1>1, <1>2, <1>3, <1>4, <1>6, <1>8, <2>1, DeliveryStep
<1>9. QED
  BY <1>7, <1>8 DEF Retry

LEMMA DieStep ==
  ASSUME Inductive, NEW s \in Schedulers, Die(s)
  PROVE  Inductive'
<1>1. PICK row \in LedgerRows : TRUE
  <2>1. [state |-> "sent", claim |-> s, leaseUntil |-> 0] \in LedgerRows
    BY RemindersAssumption DEF LedgerRows, Times
  <2>2. QED
    BY <2>1
<1>2. sender[s] # None /\ Goes(s, None) /\ ~HasLease(s)'
  BY DEF Die, HasLease, Goes, Inductive, RemindersTypeOK
<1>3. UNCHANGED <<now, task, processed, ledger, delivered>> /\ delivered' \subseteq ReminderTimes
  BY DEF Die, LedgerOnly, Inductive, RemindersTypeOK
<1>4. failures' \in 0 .. MaxFailures
  BY FailuresTyped DEF Die
<1>5. QED
  BY <1>1, <1>2, <1>3, <1>4, DeliveryStep

LEMMA ReminderStep ==
  ASSUME Inductive, [RemindersNext]_reminderVars
  PROVE  Inductive'
<1>1. CASE UNCHANGED reminderVars
  BY <1>1 DEF reminderVars, Inductive, RemindersTypeOK, Begun, LeaseInLedger, HasLease, Until
<1>2. CASE \E s \in Schedulers : Deliver(s) \/ Die(s)
  BY <1>2, TickStep, ClaimStep, SendStep, FinishStep, RetryStep, DieStep DEF Deliver
<1>3. QED
  BY <1>1, <1>2, OwnerStep, ClockStep DEF RemindersNext

LEMMA InductiveHolds == RemindersSpec => []Inductive
BY InitialState, ReminderStep, PTL DEF RemindersSpec

-----------------------------------------------------------------------------
\* Clock, task, ledger and deliveries keep their types (PersonalReminders).
THEOREM TypeCorrect == RemindersSpec => []RemindersTypeOK
<1>1. Inductive => RemindersTypeOK
  BY DEF Inductive
<1>2. QED
  BY <1>1, InductiveHolds, PTL

\* No two schedulers send one reminder while the claim of each holds: a row has one claim,
\* and nobody takes a row over before its lease has run out (claim, finish and retry of the
\* delivery ledger).
THEOREM LeasesExclude == RemindersSpec => []LeaseExclusive
<1>1. Inductive => LeaseExclusive
  <2> SUFFICES ASSUME Inductive, NEW s \in Schedulers, NEW t \in Schedulers,
                      HasLease(s), HasLease(t), sender[s].key = sender[t].key
               PROVE  s = t
    BY DEF LeaseExclusive
  <2>1. ASSUME NEW q \in Schedulers, HasLease(q) PROVE ledger[sender[q].key].claim = q
    <3>1. ledger[sender[q].key] =
            [state |-> "sending", claim |-> q, leaseUntil |-> Until(sender[q].at + Lease)]
      BY <2>1 DEF Inductive, LeaseInLedger
    <3>2. QED
      BY <3>1
  <2>2. QED
    BY <2>1
<1>2. QED
  BY <1>1, InductiveHolds, PTL

-----------------------------------------------------------------------------
(* ArthurDialogue: messages that are delivered again, offers in memory,     *)
(* and writes whose answer does not come.                                   *)

CreateSteps == [op : {"create"}, title : Titles, due : Dues]

\* A step of a plan, and the call that comes of it, keep to the titles and due dates.
GoodStep(s) ==
    /\ s.op \in {"create", "finish", "move", "mail"}
    /\ s.op = "create" => s \in CreateSteps
    /\ s.op \in {"finish", "move"} => s.due \in Dues

GoodCall(c) == c \in CreateSteps \/ (c.op \in {"finish", "move"} /\ c.due \in Dues)

\* A plan is one task after another to create, or a single step.
GoodPlan(steps) ==
    \/ steps \in Seq(CreateSteps) /\ steps # <<>>
    \/ \E s : steps = <<s>> /\ GoodStep(s)

\* No active task stands where the call is about to create one, but those that the owner
\* moved there and those of writes that were given up.
Clear(call) ==
    call.op = "create" =>
        \A i \in DOMAIN todos :
            todos[i].active /\ todos[i].title = call.title /\ todos[i].due = call.due
                => todos[i].moved \/ todos[i].late

\* The messages of a delivery are among those written.
DeliveryInv ==
    /\ written \in Seq(Messages \intersect (OwnerCommands \union Replies))
    /\ Len(written) <= MaxMessages
    /\ confirmed \in 1 .. MaxMessages + 1 /\ offset \in 0 .. MaxMessages + 1
    /\ batch \in Seq(1 .. Len(written))
    /\ restarts \in 0 .. MaxRestarts

\* The offer that stands has not been used.
GoodOffer(o) ==
    /\ {"id", "lapsed", "kind", "candidates"} \subseteq DOMAIN o
    /\ o.id \in DOMAIN acts /\ acts[o.id] = 0 /\ o.lapsed \in BOOLEAN
    /\ o.kind \in {"mail", "task"}
    /\ o.kind = "mail" => \A i \in DOMAIN o.candidates : o.candidates[i].title \in Titles
    /\ o.kind = "task" =>
          {"op", "due"} \subseteq DOMAIN o /\ o.op \in {"finish", "move"} /\ o.due \in Dues

\* Nor has the one because of which a message is carried out, which is a single step; and
\* it stands no longer.
Caused(t) ==
    t.cause # None =>
        /\ t.cause \in DOMAIN acts /\ acts[t.cause] = 0
        /\ Len(t.steps) = 1
        /\ offer # None => offer.id # t.cause

GoodTurn(t) ==
    /\ batch # <<>>
    /\ t = [steps |-> t.steps, call |-> t.call, cause |-> t.cause]
    /\ GoodPlan(t.steps) /\ Caused(t)
    /\ t.call # None => GoodCall(t.call) /\ Clear(t.call)

LateInv == \E S : late \in Seq(S) /\ Len(late) <= MaxLate /\ \A c \in S : c = None \/ GoodCall(c)

DialogueInv ==
    /\ DeliveryInv
    /\ acts \in Seq({0, 1})
    /\ offer # None => GoodOffer(offer)
    /\ turn # None => GoodTurn(turn)
    /\ todos \in Seq(Todos) /\ NoDoubles
    /\ LateInv

-----------------------------------------------------------------------------
LEMMA SingleStep == \A s : Len(<<s>>) = 1 /\ Head(<<s>>) = s /\ <<s>> # <<>>
OBVIOUS

\* A plan has a first step, and one with several goes on with tasks to create.
LEMMA PlanParts ==
  ASSUME NEW steps, GoodPlan(steps)
  PROVE  /\ steps # <<>> /\ GoodStep(Head(steps))
         /\ Len(steps) # 1 => GoodPlan(Tail(steps)) /\ Tail(steps) \in Seq(CreateSteps)
<1>1. CASE steps \in Seq(CreateSteps) /\ steps # <<>>
  <2>1. Head(steps) \in CreateSteps /\ Tail(steps) \in Seq(CreateSteps)
        /\ Len(Tail(steps)) = Len(steps) - 1 /\ Len(steps) \in Nat
    BY <1>1, HeadTailProperties
  <2>2. GoodStep(Head(steps))
    BY <2>1 DEF GoodStep, CreateSteps
  <2>3. Len(steps) # 1 => Tail(steps) # <<>>
    <3>1. Len(<<>>) = 0
      OBVIOUS
    <3>2. ASSUME Len(steps) # 1 PROVE Len(Tail(steps)) # 0
      BY <2>1, <3>2
    <3>3. QED
      BY <3>1, <3>2
  <2>4. QED
    BY <1>1, <2>1, <2>2, <2>3 DEF GoodPlan
<1>2. CASE \E s : steps = <<s>> /\ GoodStep(s)
  BY <1>2, SingleStep
<1>3. QED
  BY <1>1, <1>2 DEF GoodPlan

LEMMA DialogueInitial == DialogueInit => DialogueInv
<1> SUFFICES ASSUME DialogueInit PROVE DialogueInv
  OBVIOUS
<1>1. DeliveryInv
  BY DialogueAssumption DEF DialogueInit, DeliveryInv
<1>2. LateInv
  BY DialogueAssumption DEF DialogueInit, LateInv
<1>3. QED
  BY <1>1, <1>2 DEF DialogueInit, DialogueInv, NoDoubles

\* The message at hand is one the owner may write.
LEMMA MessageTyped ==
  ASSUME DialogueInv, batch # <<>>
  PROVE  Head(batch) \in 1 .. Len(written) /\ Message \in OwnerCommands \union Replies
BY DEF DialogueInv, DeliveryInv, Message

\* A handled message leaves the others of its delivery.
LEMMA HandledDelivery ==
  ASSUME DialogueInv, batch # <<>>, Handled, UNCHANGED <<written, confirmed, restarts>>
  PROVE  DeliveryInv' /\ turn' = None
<1>1. Head(batch) \in 1 .. Len(written) /\ Tail(batch) \in Seq(1 .. Len(written))
      /\ Len(written) \in Nat /\ MaxMessages \in Nat
  BY DialogueAssumption DEF DialogueInv, DeliveryInv
<1>2. QED
  BY <1>1 DEF Handled, DialogueInv, DeliveryInv

\* The end of a step: the message is handled, or the next task is to be created.
LEMMA StepEnded ==
  ASSUME DialogueInv, turn # None, StepEnds, UNCHANGED <<written, confirmed, restarts>>
  PROVE  /\ DeliveryInv'
         /\ \/ turn' = None
            \/ /\ turn.cause = None /\ batch' # <<>>
               /\ turn' = [steps |-> Tail(turn.steps), call |-> None, cause |-> None]
               /\ GoodPlan(Tail(turn.steps))
<1>1. GoodTurn(turn)
  BY DEF DialogueInv
<1>2. CASE Len(turn.steps) = 1
  BY <1>1, <1>2, HandledDelivery DEF StepEnds, GoodTurn
<1>3. CASE Len(turn.steps) # 1
  <2>1. turn.cause = None
    BY <1>1, <1>3 DEF GoodTurn, Caused
  <2>2. GoodPlan(Tail(turn.steps))
    BY <1>1, <1>3, PlanParts DEF GoodTurn
  <2>3. turn' = [steps |-> Tail(turn.steps), call |-> None, cause |-> None]
        /\ UNCHANGED <<batch, offset>>
    BY <1>1, <1>3, <2>1 DEF StepEnds, GoodTurn
  <2>4. DeliveryInv'
    BY <2>3 DEF DialogueInv, DeliveryInv
  <2>5. QED
    BY <1>1, <2>1, <2>2, <2>3, <2>4 DEF GoodTurn
<1>4. QED
  BY <1>2, <1>3

-----------------------------------------------------------------------------
\* A new message of the owner.
LEMMA WriteMessageStep ==
  ASSUME DialogueInv, Write
  PROVE  DialogueInv'
<1>1. PICK m \in Messages : written' = Append(written, m)
  BY DEF Write
<1>2. m \in Messages \intersect (OwnerCommands \union Replies)
  BY DialogueAssumption
<1>3. written' \in Seq(Messages \intersect (OwnerCommands \union Replies))
      /\ Len(written') = Len(written) + 1
  BY <1>1, <1>2 DEF DialogueInv, DeliveryInv
<1>4. Len(written) < MaxMessages /\ Len(written) \in Nat /\ MaxMessages \in Nat
  BY DialogueAssumption DEF DialogueInv, DeliveryInv, Write
<1>5. batch \in Seq(1 .. Len(written'))
  <2>1. 1 .. Len(written) \subseteq 1 .. Len(written')
    BY <1>3, <1>4
  <2>2. batch \in Seq(1 .. Len(written))
    BY DEF DialogueInv, DeliveryInv
  <2>3. QED
    BY <2>1, <2>2, SeqMonotonic
<1>6. DeliveryInv'
  BY <1>3, <1>4, <1>5 DEF DialogueInv, DeliveryInv, Write
<1>7. QED
  BY <1>6 DEF Write, DialogueInv, GoodOffer, GoodTurn, Caused, Clear, NoDoubles, LateInv

LEMMA Numbers ==
  ASSUME NEW c \in Nat, NEW i \in Int, NEW m \in Nat, c >= 1, 1 <= i, i <= m + 1 - c
  PROVE  c + i - 1 \in 1 .. m
OBVIOUS

\* A delivery of the messages that were not confirmed.
LEMMA GetUpdatesStep ==
  ASSUME DialogueInv, GetUpdates
  PROVE  DialogueInv'
<1> DEFINE n == Len(written) + 1 - confirmed'
<1>1. /\ Len(written) \in Nat /\ Len(written) <= MaxMessages /\ MaxMessages \in Nat
      /\ confirmed \in 1 .. MaxMessages + 1 /\ offset \in 0 .. MaxMessages + 1
  BY DialogueAssumption DEF DialogueInv, DeliveryInv
<1>2. confirmed' \in 1 .. MaxMessages + 1
  BY <1>1 DEF GetUpdates
<1>3. batch' \in Seq(1 .. Len(written))
  <2>1. ASSUME NEW i \in 1 .. n
        PROVE  confirmed' + i - 1 \in 1 .. Len(written)
    <3>1. confirmed' \in Nat /\ confirmed' >= 1 /\ i \in Int /\ 1 <= i /\ i <= Len(written) + 1 - confirmed'
      BY <1>1, <1>2
    <3>2. Len(written) \in Nat
      BY <1>1
    <3>3. QED
      BY <3>1, <3>2, Numbers
  <2>2. batch' = [i \in 1 .. n |-> confirmed' + i - 1]
    BY DEF GetUpdates
  <2>3. CASE n \in Nat
    BY <2>1, <2>2, <2>3
  <2>4. CASE n \notin Nat
    <3>1. 1 .. n = {}
      BY <1>1, <1>2, <2>4
    <3>2. batch' = <<>>
      BY <2>2, <3>1
    <3>3. QED
      BY <3>2
  <2>5. QED
    BY <2>3, <2>4
<1>4. DeliveryInv'
  BY <1>2, <1>3 DEF GetUpdates, DialogueInv, DeliveryInv
<1>5. turn = None
  BY DEF GetUpdates, DialogueInv, GoodTurn
<1>6. QED
  BY <1>4, <1>5 DEF GetUpdates, DialogueInv, GoodOffer, NoDoubles, LateInv

-----------------------------------------------------------------------------
\* The orchestrator.

\* The plan of a command keeps to the titles and due dates.
LEMMA PlanGood ==
  ASSUME DialogueInv, batch # <<>>, Plan # <<>>
  PROVE  GoodPlan(Plan)
<1>1. Message \in OwnerCommands \union Replies
  BY MessageTyped
<1>2. CASE Message.kind = "create"
  <2>1. PICK n \in 1 .. 2 : Message.todo \in [1 .. n -> [title : Titles, due : Dues]]
    BY <1>1, <1>2 DEF OwnerCommands, Replies
  <2>2. Plan = [i \in 1 .. n |-> [op |-> "create", title |-> Message.todo[i].title,
                                                   due |-> Message.todo[i].due]]
    BY <1>2, <2>1 DEF Plan
  <2>3. \A i \in 1 .. n : [op |-> "create", title |-> Message.todo[i].title,
                           due |-> Message.todo[i].due] \in CreateSteps
    BY <2>1 DEF CreateSteps
  <2>4. n \in Nat
    BY <2>1
  <2>5. Plan \in Seq(CreateSteps)
    BY <2>2, <2>3, <2>4
  <2>6. QED
    BY <2>5 DEF GoodPlan
<1>3. CASE Message.kind \in {"finish", "move"}
  <2> DEFINE s == [op |-> Message.kind, task |-> Message.task,
                   due |-> IF Message.kind = "move" THEN Message.due ELSE Never]
  <2>1. Plan = <<s>>
    BY <1>3 DEF Plan
  <2>2. Message.kind = "move" => Message.due \in Dues
    BY <1>1, <1>3 DEF OwnerCommands, Replies
  <2>3. GoodStep(s)
    BY <1>3, <2>2, DialogueAssumption DEF GoodStep, Dues
  <2>4. QED
    BY <2>1, <2>3 DEF GoodPlan
<1>4. CASE Message.kind = "mail"
  <2>1. Plan = <<[op |-> "mail"]>> /\ GoodStep([op |-> "mail"])
    BY <1>4 DEF Plan, GoodStep
  <2>2. QED
    BY <2>1 DEF GoodPlan
<1>5. QED
  BY <1>2, <1>3, <1>4 DEF Plan

\* So does what is done with a candidate of an offer.
LEMMA ContinuationGood ==
  ASSUME DialogueInv, offer # None, NEW i \in DOMAIN offer.candidates
  PROVE  GoodStep(Continuation(offer.candidates[i]))
<1>1. GoodOffer(offer)
  BY DEF DialogueInv
<1>2. CASE offer.kind = "mail"
  <2>1. offer.candidates[i].title \in Titles /\ Never \in Dues
    BY <1>1, <1>2, DialogueAssumption DEF GoodOffer, Dues
  <2>2. QED
    BY <1>2, <2>1 DEF Continuation, GoodStep, CreateSteps
<1>3. CASE offer.kind # "mail"
  BY <1>1, <1>3 DEF GoodOffer, Continuation, GoodStep
<1>4. QED
  BY <1>2, <1>3

LEMMA MeantCandidates == \A i \in Meant : i \in DOMAIN offer.candidates
BY DEF Meant

LEMMA UnderstandStep ==
  ASSUME DialogueInv, Understand
  PROVE  DialogueInv'
<1>1. batch # <<>> /\ turn = None /\ UNCHANGED <<written, confirmed, todos, late, acts, restarts>>
  BY DEF Understand
<1>2. todos' \in Seq(Todos) /\ NoDoubles' /\ LateInv' /\ acts' \in Seq({0, 1})
  BY <1>1 DEF DialogueInv, NoDoubles, LateInv
<1>3. CASE Choose
  <2>1. offer # None /\ offer' = None /\ UNCHANGED <<batch, offset>>
    BY <1>3 DEF Choose, Stands
  <2>2. PICK i \in Meant : BeginTurn(<<Continuation(offer.candidates[i])>>, offer.id)
    BY <1>3 DEF Choose
  <2>3. GoodStep(Continuation(offer.candidates[i]))
    BY <2>1, ContinuationGood, MeantCandidates
  <2> DEFINE steps == <<Continuation(offer.candidates[i])>>
  <2>4. GoodPlan(steps) /\ Len(steps) = 1
    BY <2>3 DEF GoodPlan
  <2>5. turn' = [steps |-> steps, call |-> None, cause |-> offer.id]
    BY <2>2 DEF BeginTurn
  <2> HIDE DEF steps
  <2>6. offer.id \in DOMAIN acts /\ acts[offer.id] = 0
    BY <2>1 DEF DialogueInv, GoodOffer
  <2>7. GoodTurn(turn)'
    BY <1>1, <2>1, <2>4, <2>5, <2>6 DEF GoodTurn, Caused
  <2>8. DeliveryInv'
    BY <1>1, <2>1 DEF DialogueInv, DeliveryInv
  <2>9. QED
    BY <1>2, <2>1, <2>7, <2>8 DEF DialogueInv
<1>4. CASE AnswerOnly
  <2>1. DeliveryInv' /\ turn' = None
    BY <1>1, <1>4, HandledDelivery DEF AnswerOnly
  <2>2. offer' # None => GoodOffer(offer)'
    BY <1>1, <1>4 DEF AnswerOnly, DialogueInv, GoodOffer
  <2>3. QED
    BY <1>2, <2>1, <2>2 DEF DialogueInv
<1>5. CASE Anew
  <2>1. offer' = None
    BY <1>5 DEF Anew
  <2>2. CASE Plan = <<>>
    BY <1>1, <1>2, <1>5, <2>1, <2>2, HandledDelivery DEF Anew, DialogueInv
  <2>3. CASE Plan # <<>>
    <3>1. turn' = [steps |-> Plan, call |-> None, cause |-> None] /\ UNCHANGED <<batch, offset>>
      BY <1>5, <2>3 DEF Anew, BeginTurn
    <3>2. GoodPlan(turn'.steps)
      BY <1>1, <2>3, <3>1, PlanGood
    <3>3. GoodTurn(turn)'
      BY <1>1, <3>1, <3>2 DEF GoodTurn, Caused, GoodPlan
    <3>4. DeliveryInv'
      BY <1>1, <3>1 DEF DialogueInv, DeliveryInv
    <3>5. QED
      BY <1>2, <2>1, <3>3, <3>4 DEF DialogueInv
  <2>4. QED
    BY <2>2, <2>3
<1>6. QED
  BY <1>3, <1>4, <1>5 DEF Understand

\* An offer that lapses stays the same offer.
LEMMA LapseStep ==
  ASSUME DialogueInv, Lapse
  PROVE  DialogueInv'
<1>1. offer # None /\ GoodOffer(offer) /\ offer' = [offer EXCEPT !.lapsed = TRUE]
  BY DEF Lapse, Stands, DialogueInv
<1>2. GoodOffer(offer)' /\ offer'.id = offer.id
  BY <1>1 DEF GoodOffer, Lapse
<1>3. turn # None => GoodTurn(turn)'
  BY <1>1, <1>2 DEF Lapse, DialogueInv, GoodTurn, Caused, Clear
<1>4. QED
  BY <1>2, <1>3 DEF Lapse, DialogueInv, DeliveryInv, NoDoubles, LateInv

-----------------------------------------------------------------------------
\* The skills.

LEMMA StepGood ==
  ASSUME DialogueInv, turn # None
  PROVE  GoodStep(Step)
BY PlanParts DEF DialogueInv, GoodTurn, Step

\* The rest of a plan is as good a turn as its whole.
LEMMA NextTask ==
  ASSUME NEW rest, GoodPlan(rest), batch' # <<>>,
         turn' = [steps |-> rest, call |-> None, cause |-> None]
  PROVE  GoodTurn(turn)'
<1>1. turn'.steps = rest /\ turn'.call = None /\ turn'.cause = None
  OBVIOUS
<1>2. GoodPlan(turn.steps)'
  BY <1>1 DEF GoodPlan, GoodStep, CreateSteps
<1>3. QED
  BY <1>1, <1>2 DEF GoodTurn, Caused

\* A step that ends without a write leaves the offer, or makes one of its own.
LEMMA EndsAfterReading ==
  ASSUME DialogueInv, turn # None, StepEnds,
         UNCHANGED <<written, confirmed, todos, late, restarts>>,
         \/ UNCHANGED <<offer, acts>>
         \/ /\ acts' = Append(acts, 0) /\ offer'.id = Len(acts) + 1
            /\ GoodOffer(offer)'
  PROVE  DialogueInv'
<1>1. /\ DeliveryInv'
      /\ \/ turn' = None
         \/ /\ turn.cause = None /\ batch' # <<>>
            /\ turn' = [steps |-> Tail(turn.steps), call |-> None, cause |-> None]
            /\ GoodPlan(Tail(turn.steps))
  BY StepEnded
<1>2. turn' # None => GoodTurn(turn)'
  BY <1>1, NextTask
<1>3. acts' \in Seq({0, 1}) /\ (offer' # None => GoodOffer(offer)')
  BY DEF DialogueInv, GoodOffer
<1>4. QED
  BY <1>1, <1>2, <1>3 DEF DialogueInv, NoDoubles, LateInv

\* A step that sends a call goes on with it.
LEMMA CallSent ==
  ASSUME DialogueInv, turn # None, NEW call, SendCall(call), GoodCall(call), Clear(call),
         UNCHANGED <<written, confirmed, todos, late, restarts>>
  PROVE  DialogueInv'
<1>1. turn' = [steps |-> turn.steps, call |-> call, cause |-> turn.cause]
      /\ UNCHANGED <<offset, batch, offer, acts>>
  BY DEF SendCall, DialogueInv, GoodTurn
<1>2. GoodTurn(turn)'
  BY <1>1 DEF DialogueInv, GoodTurn, Caused, Clear, GoodCall, GoodPlan
<1>3. QED
  BY <1>1, <1>2 DEF DialogueInv, DeliveryInv, GoodOffer, NoDoubles, LateInv

\* The offer a step makes.
LEMMA OfferMade ==
  ASSUME DialogueInv, NEW o, Offered(o),
         {"id", "lapsed", "kind", "candidates"} \subseteq DOMAIN o,
         o.id = NextOffer, o.lapsed = FALSE, o.kind \in {"mail", "task"},
         o.kind = "mail" => \A i \in DOMAIN o.candidates : o.candidates[i].title \in Titles,
         o.kind = "task" => {"op", "due"} \subseteq DOMAIN o /\ o.op \in {"finish", "move"} /\ o.due \in Dues
  PROVE  acts' = Append(acts, 0) /\ offer'.id = Len(acts) + 1 /\ GoodOffer(offer)'
<1>1. acts' = Append(acts, 0) /\ offer' = o
  BY DEF Offered
<1>2. Len(acts) + 1 \in DOMAIN Append(acts, 0) /\ Append(acts, 0)[Len(acts) + 1] = 0
  BY DEF DialogueInv
<1>3. QED
  BY <1>1, <1>2 DEF GoodOffer, NextOffer

LEMMA ReadStep ==
  ASSUME DialogueInv, Read
  PROVE  DialogueInv'
<1>1. turn # None /\ UNCHANGED <<written, confirmed, todos, late, restarts>> /\ GoodStep(Step)
  BY StepGood DEF Read
<1>2. CASE ReadFails
  BY <1>1, <1>2, EndsAfterReading DEF ReadFails
<1>3. CASE CreateListed
  <2>1. CASE IsDuplicate(Step)
    BY <1>1, <1>3, <2>1, EndsAfterReading DEF CreateListed
  <2>2. CASE ~IsDuplicate(Step)
    <3>1. SendCall(Step) /\ Step \in CreateSteps
      BY <1>1, <1>3, <2>2 DEF CreateListed, GoodStep
    <3>2. GoodCall(Step) /\ Clear(Step)
      BY <2>2, <3>1 DEF GoodCall, Clear, IsDuplicate
    <3>3. QED
      BY <1>1, <3>1, <3>2, CallSent
  <2>3. QED
    BY <2>1, <2>2
<1>4. CASE SelectListed
  <2> DEFINE fitting == Fitting(Step.task)
  <2>1. Step.op \in {"finish", "move"} /\ Step.due \in Dues
    BY <1>1, <1>4 DEF SelectListed, GoodStep
  <2>2. CASE SendCall([op |-> Step.op, id |-> fitting[1].id, due |-> Step.due])
    <3> DEFINE call == [op |-> Step.op, id |-> fitting[1].id, due |-> Step.due]
    <3>1. GoodCall(call) /\ Clear(call)
      BY <2>1 DEF GoodCall, Clear
    <3> HIDE DEF call
    <3>2. QED
      BY <1>1, <2>2, <3>1, CallSent DEF call
  <2>3. CASE StepEnds /\ Offered([id |-> NextOffer, lapsed |-> FALSE, kind |-> "task", op |-> Step.op,
                                  due |-> Step.due, candidates |-> fitting])
    <3> DEFINE o == [id |-> NextOffer, lapsed |-> FALSE, kind |-> "task", op |-> Step.op,
                     due |-> Step.due, candidates |-> fitting]
    <3> HIDE DEF fitting
    <3>1. /\ {"id", "lapsed", "kind", "candidates", "op", "due"} \subseteq DOMAIN o
          /\ o.id = NextOffer /\ o.lapsed = FALSE /\ o.kind = "task"
          /\ o.op \in {"finish", "move"} /\ o.due \in Dues
      BY <2>1
    <3> HIDE DEF o
    <3>2. acts' = Append(acts, 0) /\ offer'.id = Len(acts) + 1 /\ GoodOffer(offer)'
      BY <2>3, <3>1, OfferMade DEF o
    <3>3. QED
      BY <1>1, <2>3, <3>2, EndsAfterReading
  <2>4. CASE StepEnds /\ UNCHANGED <<offer, acts>>
    BY <1>1, <2>4, EndsAfterReading
  <2>5. QED
    BY <1>4, <2>2, <2>3, <2>4 DEF SelectListed
<1>5. CASE MailRead
  <2>1. PICK p \in MailProposals :
          \/ UNCHANGED <<offer, acts>>
          \/ Offered([id |-> NextOffer, lapsed |-> FALSE, kind |-> "mail",
                      candidates |-> [i \in DOMAIN p |-> [title |-> p[i]]]])
    BY <1>5 DEF MailRead
  <2>2. CASE UNCHANGED <<offer, acts>>
    BY <1>1, <1>5, <2>2, EndsAfterReading DEF MailRead
  <2>3. CASE ~UNCHANGED <<offer, acts>>
    <3> DEFINE o == [id |-> NextOffer, lapsed |-> FALSE, kind |-> "mail",
                     candidates |-> [i \in DOMAIN p |-> [title |-> p[i]]]]
    <3>1. p \in Seq(Titles)
      BY DialogueAssumption
    <3>2. /\ {"id", "lapsed", "kind", "candidates"} \subseteq DOMAIN o
          /\ o.id = NextOffer /\ o.lapsed = FALSE /\ o.kind = "mail"
          /\ \A i \in DOMAIN o.candidates : o.candidates[i].title \in Titles
      BY <3>1
    <3>3. Offered(o)
      BY <2>1, <2>3
    <3> HIDE DEF o
    <3>4. acts' = Append(acts, 0) /\ offer'.id = Len(acts) + 1 /\ GoodOffer(offer)'
      BY <3>2, <3>3, OfferMade
    <3>5. QED
      BY <1>1, <1>5, <3>4, EndsAfterReading DEF MailRead
  <2>4. QED
    BY <2>2, <2>3
<1>6. QED
  BY <1>2, <1>3, <1>4, <1>5 DEF Read

-----------------------------------------------------------------------------
\* Writes.

\* What Core makes of a write that is no creation: a task is closed, or moved, or nothing
\* happens; and the other tasks stay.
LEMMA ChangeKeeps ==
  ASSUME todos \in Seq(Todos), NoDoubles, NEW call, GoodCall(call), call.op # "create",
         NEW given, todos' = After(call, given)
  PROVE  /\ todos' \in Seq(Todos) /\ DOMAIN todos' = DOMAIN todos /\ NoDoubles'
         /\ \A i \in DOMAIN todos : \/ todos'[i] = todos[i]
                                    \/ ~todos'[i].active
                                    \/ todos'[i].moved
<1>1. call.op \in {"finish", "move"} /\ call.due \in Dues
  BY DEF GoodCall, CreateSteps
<1>2. CASE todos' = todos
  BY <1>2 DEF NoDoubles
<1>3. CASE todos' # todos
  <2> DEFINE new == IF call.op = "finish" THEN [todos[call.id] EXCEPT !.active = FALSE]
                    ELSE [todos[call.id] EXCEPT !.due = call.due, !.moved = TRUE]
  <2>1. todos' = [todos EXCEPT ![call.id] = new]
    BY <1>1, <1>3 DEF After
  <2>2. call.id \in DOMAIN todos
    BY <1>3, <2>1
  <2>3. todos[call.id] \in Todos
    BY <2>2
  <2>4. new \in Todos /\ (~new.active \/ new.moved)
    BY <1>1, <2>3 DEF Todos
  <2> HIDE DEF new
  <2>5. todos' \in Seq(Todos) /\ DOMAIN todos' = DOMAIN todos
        /\ \A i \in DOMAIN todos : todos'[i] = IF i = call.id THEN new ELSE todos[i]
    BY <2>1, <2>2, <2>4
  <2>6. QED
    BY <2>4, <2>5 DEF NoDoubles
<1>4. QED
  BY <1>2, <1>3

\* A creation adds a task; there is none of its title and due date but the excused ones, or
\* it is excused itself.
LEMMA CreateKeeps ==
  ASSUME todos \in Seq(Todos), NoDoubles, NEW call \in CreateSteps, NEW given \in BOOLEAN,
         given \/ Clear(call), todos' = After(call, given)
  PROVE  /\ todos' \in Seq(Todos) /\ NoDoubles'
         /\ DOMAIN todos' = DOMAIN todos \union {Len(todos) + 1}
         /\ \A i \in DOMAIN todos : todos'[i] = todos[i]
         /\ todos'[Len(todos) + 1].late = given
<1> DEFINE new == [title |-> call.title, due |-> call.due, active |-> TRUE, moved |-> FALSE, late |-> given]
           n == Len(todos) + 1
<1>1. new \in Todos /\ call.op = "create" /\ new.late = given
      /\ new.title = call.title /\ new.due = call.due
  BY DEF CreateSteps, Todos
<1>2. todos' = Append(todos, new)
  BY <1>1 DEF After
<1> HIDE DEF new
<1>3. /\ todos' \in Seq(Todos) /\ n \in Nat /\ n \notin DOMAIN todos
      /\ DOMAIN todos' = DOMAIN todos \union {n}
      /\ todos'[n] = new /\ \A i \in DOMAIN todos : todos'[i] = todos[i]
  BY <1>1, <1>2
<1>4. NoDoubles'
  <2>1. SUFFICES ASSUME NEW i \in DOMAIN todos', NEW j \in DOMAIN todos', i # j,
                        todos'[i].active, todos'[j].active,
                        todos'[i].title = todos'[j].title, todos'[i].due = todos'[j].due
                 PROVE  todos'[i].moved \/ todos'[j].moved \/ todos'[i].late \/ todos'[j].late
    BY DEF NoDoubles
  <2>2. CASE i # n /\ j # n
    BY <1>3, <2>1, <2>2 DEF NoDoubles
  <2>3. CASE i = n /\ j # n
    BY <1>1, <1>3, <2>1, <2>3 DEF Clear
  <2>4. CASE i # n /\ j = n
    BY <1>1, <1>3, <2>1, <2>4 DEF Clear
  <2>5. QED
    BY <2>1, <2>2, <2>3, <2>4
<1>5. QED
  BY <1>1, <1>3, <1>4

\* So a write keeps the tasks in order, and a creation that waits stays clear if the write
\* was given up.
LEMMA WriteKeeps ==
  ASSUME todos \in Seq(Todos), NoDoubles, NEW call, GoodCall(call), NEW given \in BOOLEAN,
         given \/ Clear(call), todos' = After(call, given)
  PROVE  /\ todos' \in Seq(Todos) /\ NoDoubles'
         /\ \A other : given /\ Clear(other) => Clear(other)'
<1>1. CASE call.op # "create"
  <2>1. /\ todos' \in Seq(Todos) /\ DOMAIN todos' = DOMAIN todos /\ NoDoubles'
        /\ \A i \in DOMAIN todos : \/ todos'[i] = todos[i]
                                   \/ ~todos'[i].active
                                   \/ todos'[i].moved
    BY <1>1, ChangeKeeps
  <2>2. QED
    BY <2>1 DEF Clear
<1>2. CASE call.op = "create"
  <2>1. call \in CreateSteps
    BY <1>2 DEF GoodCall
  <2>2. /\ todos' \in Seq(Todos) /\ NoDoubles'
        /\ DOMAIN todos' = DOMAIN todos \union {Len(todos) + 1}
        /\ \A i \in DOMAIN todos : todos'[i] = todos[i]
        /\ todos'[Len(todos) + 1].late = given
    BY <2>1, CreateKeeps
  <2>3. QED
    BY <2>2 DEF Clear
<1>3. QED
  BY <1>1, <1>2

\* A call is carried out, or fails, or is given up; its offer was not used before.
LEMMA CalledStep ==
  ASSUME DialogueInv, Called
  PROVE  DialogueInv'
<1>1. /\ turn # None /\ turn.call # None /\ StepEnds /\ UNCHANGED <<written, confirmed, offer, restarts>>
      /\ GoodTurn(turn) /\ GoodCall(turn.call) /\ Clear(turn.call)
  BY DEF Called, DialogueInv, GoodTurn
<1>2. /\ DeliveryInv'
      /\ \/ turn' = None
         \/ /\ turn.cause = None /\ batch' # <<>>
            /\ turn' = [steps |-> Tail(turn.steps), call |-> None, cause |-> None]
            /\ GoodPlan(Tail(turn.steps))
  BY <1>1, StepEnded
<1>3. turn' # None => GoodTurn(turn)'
  BY <1>2, NextTask
<1>4. acts' \in Seq({0, 1}) /\ (offer' # None => GoodOffer(offer)')
  <2>1. CASE turn.cause = None
    BY <1>1, <2>1 DEF Called, DialogueInv, GoodOffer
  <2>2. CASE turn.cause # None
    <3>1. turn.cause \in DOMAIN acts /\ acts[turn.cause] = 0 /\ (offer # None => offer.id # turn.cause)
      BY <1>1, <2>2 DEF GoodTurn, Caused
    <3>2. acts' = [acts EXCEPT ![turn.cause] = 1]
      BY <1>1, <2>2, <3>1 DEF Called
    <3>3. acts' \in Seq({0, 1}) /\ DOMAIN acts' = DOMAIN acts
          /\ \A n \in DOMAIN acts : n # turn.cause => acts'[n] = acts[n]
      BY <3>1, <3>2 DEF DialogueInv
    <3>4. QED
      BY <1>1, <3>1, <3>3 DEF DialogueInv, GoodOffer
  <2>3. QED
    BY <2>1, <2>2
<1>5. todos' \in Seq(Todos) /\ NoDoubles' /\ LateInv'
  <2>1. CASE todos' = After(turn.call, FALSE) /\ UNCHANGED late
    BY <1>1, <2>1, WriteKeeps DEF DialogueInv, LateInv
  <2>2. CASE UNCHANGED <<todos, late>>
    BY <2>2 DEF DialogueInv, NoDoubles, LateInv
  <2>3. CASE Len(late) < MaxLate /\ late' = Append(late, turn.call) /\ UNCHANGED todos
    <3>1. PICK S : late \in Seq(S) /\ \A c \in S : c = None \/ GoodCall(c)
      BY DEF DialogueInv, LateInv
    <3> DEFINE T == S \union {turn.call}
    <3>2. late \in Seq(T)
      BY <3>1, SeqMonotonic
    <3>3. turn.call \in T /\ \A c \in T : c = None \/ GoodCall(c)
      BY <1>1, <3>1
    <3> HIDE DEF T
    <3>4. late' \in Seq(T) /\ Len(late') <= MaxLate
      BY <2>3, <3>2, <3>3, DialogueAssumption
    <3>5. LateInv'
      BY <3>3, <3>4 DEF LateInv
    <3>6. QED
      BY <2>3, <3>5 DEF DialogueInv, NoDoubles
  <2>4. QED
    BY <2>1, <2>2, <2>3 DEF Called
<1>6. QED
  BY <1>2, <1>3, <1>4, <1>5 DEF DialogueInv

\* Core carries out a call that was given up, while another may be under way.
LEMMA CarriedOutLateStep ==
  ASSUME DialogueInv, CarriedOutLate
  PROVE  DialogueInv'
<1>1. PICK i \in DOMAIN late : late[i] # None /\ todos' = After(late[i], TRUE)
                                /\ late' = [late EXCEPT ![i] = None]
  BY DEF CarriedOutLate
<1>2. PICK S : late \in Seq(S) /\ Len(late) <= MaxLate /\ \A c \in S : c = None \/ GoodCall(c)
  BY DEF DialogueInv, LateInv
<1>3. GoodCall(late[i])
  BY <1>1, <1>2
<1>4. todos' \in Seq(Todos) /\ NoDoubles' /\ \A other : Clear(other) => Clear(other)'
  BY <1>1, <1>3, WriteKeeps DEF DialogueInv
<1>5. LateInv'
  <2> DEFINE T == S \union {None}
  <2>1. late \in Seq(T)
    BY <1>2, SeqMonotonic
  <2>2. None \in T /\ \A c \in T : c = None \/ GoodCall(c)
    BY <1>2
  <2> HIDE DEF T
  <2>3. late' \in Seq(T) /\ Len(late') = Len(late)
    BY <1>1, <2>1, <2>2
  <2>4. QED
    BY <1>2, <2>2, <2>3 DEF LateInv
<1>6. turn' # None => GoodTurn(turn)'
  BY <1>4 DEF CarriedOutLate, DialogueInv, GoodTurn, Caused
<1>7. QED
  BY <1>4, <1>5, <1>6 DEF CarriedOutLate, DialogueInv, DeliveryInv, GoodOffer

\* A restart: what the gateway has in memory is gone.
LEMMA RestartStep ==
  ASSUME DialogueInv, Restart
  PROVE  DialogueInv'
<1>1. offset' = 0 /\ batch' = <<>> /\ turn' = None /\ offer' = None
      /\ UNCHANGED <<written, confirmed, todos, late, acts>>
  BY DEF Restart
<1>2. restarts' \in 0 .. MaxRestarts
  BY DialogueAssumption DEF Restart, DialogueInv, DeliveryInv
<1>3. DeliveryInv'
  BY <1>1, <1>2, DialogueAssumption DEF DialogueInv, DeliveryInv
<1>4. QED
  BY <1>1, <1>3 DEF DialogueInv, NoDoubles, LateInv

LEMMA DialogueStep ==
  ASSUME DialogueInv, [DialogueNext]_dialogueVars
  PROVE  DialogueInv'
<1>1. CASE UNCHANGED dialogueVars
  BY <1>1 DEF dialogueVars, DialogueInv, DeliveryInv, GoodOffer, GoodTurn, Caused, Clear, NoDoubles, LateInv
<1>2. QED
  BY <1>1, WriteMessageStep, GetUpdatesStep, UnderstandStep, LapseStep, ReadStep, CalledStep,
     CarriedOutLateStep, RestartStep DEF DialogueNext

LEMMA DialogueInvHolds == DialogueSpec => []DialogueInv
BY DialogueInitial, DialogueStep, PTL DEF DialogueSpec

\* Messages, plans, offers, tasks and writes keep their types (ArthurDialogue).
THEOREM DialogueTypeCorrect == DialogueSpec => []DialogueTypeOK
<1>1. ASSUME DialogueInv PROVE DialogueTypeOK
  <2>1. 1 .. Len(written) \subseteq 1 .. MaxMessages
    BY <1>1, DialogueAssumption DEF DialogueInv, DeliveryInv
  <2>2. batch \in Seq(1 .. MaxMessages)
    BY <1>1, <2>1, SeqMonotonic DEF DialogueInv, DeliveryInv
  <2>3. acts \in Seq(Nat)
    <3>1. {0, 1} \subseteq Nat
      OBVIOUS
    <3>2. QED
      BY <1>1, <3>1, SeqMonotonic DEF DialogueInv
  <2>4. turn # None => turn.steps # <<>> /\ (turn.cause # None => turn.cause \in DOMAIN acts)
    BY <1>1, PlanParts DEF DialogueInv, GoodTurn, Caused
  <2>5. offer # None => offer.id \in DOMAIN acts /\ offer.lapsed \in BOOLEAN
    BY <1>1 DEF DialogueInv, GoodOffer
  <2>6. QED
    BY <1>1, <2>2, <2>3, <2>4, <2>5 DEF DialogueInv, DeliveryInv, LateInv, DialogueTypeOK
<1>2. QED
  BY <1>1, DialogueInvHolds, PTL

\* What was offered is done once at most, though the reply is delivered again, the write
\* is not answered or is carried out late, and the gateway starts again in between
\* (the orchestrator consumes the offer before the write).
THEOREM OffersUsedOnce == DialogueSpec => []OfferUsedOnce
<1>1. DialogueInv => OfferUsedOnce
  BY DEF DialogueInv, OfferUsedOnce
<1>2. QED
  BY <1>1, DialogueInvHolds, PTL

\* Two active tasks of one title and due date stand side by side only when the owner moved
\* one there or a write that was given up was carried out after all, however often the
\* command is delivered: each creation follows a look at the tasks there are (200 at most
\* in the code, all of them in the model).
THEOREM NoTaskDoubled == DialogueSpec => []NoDoubles
<1>1. DialogueInv => NoDoubles
  BY DEF DialogueInv
<1>2. QED
  BY <1>1, DialogueInvHolds, PTL
=============================================================================
