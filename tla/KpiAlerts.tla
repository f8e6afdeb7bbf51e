-------------------------------- MODULE KpiAlerts --------------------------------
(***************************************************************************)
(* The alerts about the shop's figures that Arthur sends to the owner: an  *)
(* evaluation judges the figures one after another, stores what it found   *)
(* and sends the messages when it has judged them all.  The process may    *)
(* die, and a call to the database or to Telegram may fail, with or        *)
(* without effect, at every step.  Two evaluations at once (one that takes *)
(* longer than the interval of the schedule) and rows written before       *)
(* alerts had digests are not modelled.                                    *)
(***************************************************************************)
EXTENDS Absent, Integers, Sequences

CONSTANTS
    Targets,     \* alerts that compare a figure with a target: they need both
    Trends,      \* alerts about the plan, a seller's KPI or the data's quality
    BadFigures,  \* figures that call for a warning, each with a digest of its own
    MaxSlips     \* bound: failed calls and deaths

Alerts == Targets \union Trends
Words == BadFigures \union {"ok"}
Figures == Words \union {"absent"}

\* A row of arthur_automation_alert_state, and a message to the owner.
AlertRows == [state : {"ok", "warning"}, digest : BadFigures]
AlertMessages == [alert : Alerts, word : Words]

VARIABLES
    row,    \* alert -> None or its stored state
    run,    \* None or the evaluation under way
    heard,  \* alert -> None or what the owner was told last
    known,  \* alert -> None or what was stored last
    missed, \* alerts whose last message may not have reached the owner
    slips

alertVars == <<row, run, heard, known, missed, slips>>

Evaluations == [todo : SUBSET Alerts, seen : [Alerts -> Figures], unsent : Seq(AlertMessages)]

\* The figures are digests, no other words, and nothing is mistaken for no value.
ASSUME AlertAssumption ==
    /\ {"ok", "absent"} \intersect BadFigures = {}
    /\ None \notin Words \union AlertRows \union Evaluations /\ MaxSlips \in Nat

AlertsInit ==
    /\ row = [a \in Alerts |-> None]
    /\ run = None
    /\ heard = [a \in Alerts |-> None] /\ known = [a \in Alerts |-> None]
    /\ missed = {}
    /\ slips = 0

\* What evaluateAlerts makes of a figure: an absent one raises no alert; a target's alert then
\* stays as it is, any other counts as recovered.
Judgement(a, figure) ==
    CASE figure # "absent" -> figure
      [] a \in Trends -> "ok"
      [] OTHER -> None

\* A mistaken order: the digest is compared before the state.
DigestFirst(previous, word) ==
    IF word = "ok" THEN previous # None /\ previous.state # "ok"
    ELSE previous = None \/ previous.digest # word

\* shouldSendAlert
ShouldSend(previous, word) ==
    IF word = "ok" THEN previous # None /\ previous.state # "ok"
    ELSE previous = None \/ previous.state = "ok" \/ previous.digest # word

\* resolveAlertState and upsertAlertState; the digest of a resolved alert stays.
Stored(previous, word) ==
    IF word # "ok" THEN [state |-> "warning", digest |-> word]
    ELSE IF previous = None THEN None ELSE [previous EXCEPT !.state = "ok"]

\* The schedule starts an evaluation, which reads the figures.
RunAlerts(seen) ==
    /\ run = None
    /\ run' = [todo |-> Alerts, seen |-> seen, unsent |-> <<>>]
    /\ UNCHANGED <<row, heard, known, missed, slips>>

Store(a, word) ==
    /\ row' = [row EXCEPT ![a] = Stored(@, word)]
    /\ known' = [known EXCEPT ![a] = IF word = "ok" /\ row[a] = None THEN @ ELSE word]

\* addAlert: the state is stored, and what is to be said waits for the end of the evaluation.
AddAlert(a) ==
    /\ run # None /\ a \in run.todo
    /\ LET word == Judgement(a, run.seen[a]) IN
       IF word = None THEN run' = [run EXCEPT !.todo = @ \ {a}] /\ UNCHANGED <<row, known>>
       ELSE /\ Store(a, word)
            /\ run' = [run EXCEPT !.todo = @ \ {a},
                         !.unsent = IF ShouldSend(row[a], word)
                                    THEN Append(@, [alert |-> a, word |-> word]) ELSE @]
    /\ UNCHANGED <<heard, missed, slips>>

Sending == run # None /\ run.todo = {} /\ run.unsent # <<>>

Hears(message) == heard' = [heard EXCEPT ![message.alert] = message.word]

\* sendToOwner, message by message.
SendToOwner ==
    /\ Sending
    /\ Hears(Head(run.unsent)) /\ missed' = missed \ {Head(run.unsent).alert}
    /\ run' = [run EXCEPT !.unsent = Tail(@)]
    /\ UNCHANGED <<row, known, slips>>

EndRun ==
    /\ run # None /\ run.todo = {} /\ run.unsent = <<>>
    /\ run' = None
    /\ UNCHANGED <<row, heard, known, missed, slips>>

\* The evaluation ends early, and with it the messages it has not sent.
Abandon(unsent) ==
    /\ slips < MaxSlips /\ slips' = slips + 1
    /\ run' = None
    /\ missed' = missed \union {unsent[i].alert : i \in DOMAIN unsent}

\* The process dies, or a call fails that then had no effect.
EvaluationFails == run # None /\ Abandon(run.unsent) /\ UNCHANGED <<row, heard, known>>

\* A call fails after it had its effect: a state was stored, or a message has arrived.
AnswerLost ==
    /\ run # None
    /\ \/ \E a \in run.todo :
             LET word == Judgement(a, run.seen[a]) IN
             /\ word # None /\ Store(a, word)
             /\ Abandon(IF ShouldSend(row[a], word)
                        THEN Append(run.unsent, [alert |-> a, word |-> word]) ELSE run.unsent)
             /\ UNCHANGED heard
       \/ Sending /\ Hears(Head(run.unsent)) /\ Abandon(run.unsent) /\ UNCHANGED <<row, known>>

AlertsNext ==
    \/ \E seen \in [Alerts -> Figures] : RunAlerts(seen)
    \/ \E a \in Alerts : AddAlert(a)
    \/ SendToOwner \/ EndRun \/ EvaluationFails \/ AnswerLost

AlertsSpec == AlertsInit /\ [][AlertsNext]_alertVars

-----------------------------------------------------------------------------
AlertsTypeOK ==
    /\ row \in [Alerts -> AlertRows \union {None}]
    /\ run = None \/ run \in Evaluations
    /\ heard \in [Alerts -> Words \union {None}] /\ known \in [Alerts -> Words \union {None}]
    /\ missed \subseteq Alerts
    /\ slips \in 0 .. MaxSlips

\* A message is delivered, though its alert was told so before.
Repeats(a) ==
    /\ Sending /\ Head(run.unsent) = [alert |-> a, word |-> heard[a]]
    /\ run' # None

\* The owner is told of every change of an alert, and told once: when an evaluation is over he
\* has last heard of each alert what is stored of it, and nothing was said to him twice in a
\* row, unless a message was lost (evaluateAlerts, shouldSendAlert, runAlerts).
ToldOnce ==
    [][/\ run' = None => \A a \in Alerts \ missed' : heard'[a] = known'[a]
       /\ \A a \in Alerts \ missed : ~Repeats(a)]_alertVars
=============================================================================
