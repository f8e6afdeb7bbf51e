----------------------------- MODULE ArthurDialogue -----------------------------
(***************************************************************************)
(* The owner's messages on their way through Arthur: Telegram keeps them   *)
(* until the gateway asks for later ones, the orchestrator takes a message *)
(* for a command or for the answer to choices it offered before, and the   *)
(* skills carry it out at Arthur Core by a read and a write.  Offers and   *)
(* the number of the next message live in the gateway's memory; a write    *)
(* whose answer does not come in time may still be carried out.            *)
(* Reminders and tasks that wait for somebody are left out.                *)
(***************************************************************************)
EXTENDS Absent, Integers, Sequences, FiniteSets

CONSTANTS
    Titles,       \* titles of tasks, normalized
    Never,        \* the due date of a task without one, which sorts last
    Messages,     \* what the owner may write, some of the commands and replies below
    MailProposals, \* sequences of titles a look into the mailbox may propose
    MaxMessages,  \* bound: messages written
    MaxLate,      \* bound: writes that are given up
    MaxRestarts   \* bound: restarts of the gateway

Dues == 1 .. Never

\* A task of Arthur Core, and how it came to its due date.
Todos == [title : Titles, due : Dues, active : BOOLEAN, moved : BOOLEAN, late : BOOLEAN]

\* How a command names its task: by its title or by its number in the list.
References == [by : {"title"}, title : Titles] \union [by : {"number"}, number : 1 .. 3]

OwnerCommands ==
    [kind : {"create"}, todo : UNION {[1 .. n -> [title : Titles, due : Dues]] : n \in 1 .. 2}]
        \union [kind : {"finish"}, task : References \union {[by |-> "nothing"]}]
        \union [kind : {"move"}, task : References, due : Dues \ {Never}]
        \union [kind : {"mail", "list"}]

\* Short replies; words are anything else the owner says, and may name a task.
Replies ==
    [kind : {"yes", "no"}] \union [kind : {"number"}, number : 1 .. 3]
        \union [kind : {"words"}, title : Titles \union {None}]

ASSUME DialogueAssumption ==
    /\ Messages \subseteq OwnerCommands \union Replies
    /\ MailProposals \subseteq Seq(Titles)
    /\ Never \in Nat \ {0} /\ {MaxMessages, MaxLate, MaxRestarts} \subseteq Nat

VARIABLES
    written,    \* the owner's messages, in order
    confirmed,  \* Telegram delivers a message again until one with a greater number is asked for
    offset,     \* gateway: the next message to ask for
    batch,      \* gateway: numbers of the messages delivered and not yet handled
    turn,       \* gateway: None or the plan of the first of them
    offer,      \* gateway: None or the choices offered last
    todos,      \* Core: its tasks
    late,       \* writes given up: None when carried out
    acts,       \* bookkeeping: per offer, how many writes were sent because of it
    restarts

dialogueVars == <<written, confirmed, offset, batch, turn, offer, todos, late, acts, restarts>>

DialogueInit ==
    /\ written = <<>> /\ confirmed = 1 /\ offset = 0 /\ batch = <<>> /\ turn = None /\ offer = None
    /\ todos = <<>> /\ late = <<>> /\ acts = <<>> /\ restarts = 0

-----------------------------------------------------------------------------
\* Telegram and the gateway's loop.

Write ==
    /\ Len(written) < MaxMessages
    /\ \E m \in Messages : written' = Append(written, m)
    /\ UNCHANGED <<confirmed, offset, batch, turn, offer, todos, late, acts, restarts>>

GetUpdates ==
    /\ batch = <<>>
    /\ confirmed' = IF offset > confirmed THEN offset ELSE confirmed
    /\ batch' = [i \in 1 .. Len(written) + 1 - confirmed' |-> confirmed' + i - 1]
    /\ UNCHANGED <<written, offset, turn, offer, todos, late, acts, restarts>>

\* A mistaken form of Handled: the message itself is asked for again.
HandledOnceMore == /\ offset' = Head(batch) /\ batch' = Tail(batch) /\ turn' = None

\* The message is answered, whether or not the answer arrives.
Handled == /\ offset' = Head(batch) + 1 /\ batch' = Tail(batch) /\ turn' = None

-----------------------------------------------------------------------------
\* The orchestrator.

Message == written[Head(batch)]
Stands == offer # None /\ ~offer.lapsed

\* The owner answers the offer of a task from a letter.
IsMailReply == Message.kind \in {"yes", "no", "number"}
IsCommand == Message \in OwnerCommands

\* The offered candidates that the reply may mean.
Meant ==
    CASE Message.kind = "number" -> {Message.number} \intersect DOMAIN offer.candidates
      [] Message.kind = "yes" /\ offer.kind = "mail" -> DOMAIN offer.candidates
      [] Message.kind = "words" /\ offer.kind = "task" ->
             {i \in DOMAIN offer.candidates : offer.candidates[i].title = Message.title}
      [] OTHER -> {}

\* The message is taken for the answer to the offer.
AnswersOffer ==
    IF offer = None THEN FALSE
    ELSE IF offer.kind = "mail" THEN IsMailReply ELSE Stands /\ ~IsCommand

\* The plan for a command; nothing is planned for what only asks, or is not understood.
Plan ==
    CASE Message.kind = "create" ->
             [i \in DOMAIN Message.todo |-> [op |-> "create", title |-> Message.todo[i].title,
                                             due |-> Message.todo[i].due]]
      [] Message.kind \in {"finish", "move"} ->
             <<[op |-> Message.kind, task |-> Message.task,
                due |-> IF Message.kind = "move" THEN Message.due ELSE Never]>>
      [] Message.kind = "mail" -> <<[op |-> "mail"]>>
      [] OTHER -> <<>>

\* What is done with the candidate chosen.
Continuation(c) ==
    IF offer.kind = "mail" THEN [op |-> "create", title |-> c.title, due |-> Never]
    ELSE [op |-> offer.op, task |-> [by |-> "shown", shown |-> c], due |-> offer.due]

BeginTurn(steps, cause) == turn' = [steps |-> steps, call |-> None, cause |-> cause]

\* A mistaken form of Choose: the offer stands until it is answered otherwise.
ChooseAndKeep ==
    /\ Stands /\ AnswersOffer /\ Cardinality(Meant) = 1
    /\ \E i \in Meant : BeginTurn(<<Continuation(offer.candidates[i])>>, offer.id)
    /\ UNCHANGED <<offer, batch, offset>>

\* One candidate is chosen: the offer is consumed before anything is written.
Choose ==
    /\ Stands /\ AnswersOffer /\ Cardinality(Meant) = 1
    /\ \E i \in Meant : BeginTurn(<<Continuation(offer.candidates[i])>>, offer.id)
    /\ offer' = None
    /\ UNCHANGED <<batch, offset>>

\* The offer is refused or has lapsed, or the owner is asked again.
AnswerOnly ==
    /\ AnswersOffer /\ ~(Stands /\ Cardinality(Meant) = 1)
    /\ offer' = IF Stands /\ Message.kind # "no" THEN offer ELSE None
    /\ Handled

\* Any other message ends the offer.
Anew ==
    /\ ~AnswersOffer
    /\ offer' = None
    /\ IF Plan = <<>> THEN Handled ELSE BeginTurn(Plan, None) /\ UNCHANGED <<batch, offset>>

Understand ==
    /\ batch # <<>> /\ turn = None
    /\ Choose \/ AnswerOnly \/ Anew
    /\ UNCHANGED <<written, confirmed, todos, late, acts, restarts>>

\* Its five or ten minutes are over.
Lapse ==
    /\ Stands
    /\ offer' = [offer EXCEPT !.lapsed = TRUE]
    /\ UNCHANGED <<written, confirmed, offset, batch, turn, todos, late, acts, restarts>>

-----------------------------------------------------------------------------
\* The skills.

Step == Head(turn.steps)
StepEnds ==
    IF Len(turn.steps) = 1 THEN Handled
    ELSE turn' = [turn EXCEPT !.steps = Tail(@), !.call = None] /\ UNCHANGED <<batch, offset>>

Listed(i) == [id |-> i, title |-> todos[i].title, due |-> todos[i].due]

\* The active tasks, by due date and age.
ActiveTasks ==
    LET ids == {i \in DOMAIN todos : todos[i].active}
        Before(i, j) == todos[i].due < todos[j].due \/ (todos[i].due = todos[j].due /\ i < j)
    IN [n \in 1 .. Cardinality(ids) |-> Listed(CHOOSE i \in ids : Cardinality({j \in ids : Before(j, i)}) = n - 1)]

\* A mistaken form of IsDuplicate: only a task with the same due date counts.
IsDuplicateExactly(step) ==
    \E i \in DOMAIN todos :
        /\ todos[i].active /\ todos[i].title = step.title
        /\ step.due # Never /\ todos[i].due = step.due

\* An active task of the title is there, with the due date if one is asked for. The skill looks
\* among the first 200 active tasks; an owner is taken to have no more.
IsDuplicate(step) ==
    \E i \in DOMAIN todos :
        /\ todos[i].active /\ todos[i].title = step.title
        /\ step.due = Never \/ todos[i].due = step.due

\* The active tasks a command's reference fits.
Fitting(ref) ==
    SelectSeq(ActiveTasks, LAMBDA t :
        CASE ref.by = "shown" -> t = ref.shown
          [] ref.by = "number" -> t.id = (IF ref.number \in DOMAIN ActiveTasks THEN ActiveTasks[ref.number].id ELSE 0)
          [] ref.by = "title" -> t.title = ref.title
          [] ref.by = "nothing" -> TRUE)

\* Without a title the owner is asked, also when there is one task only.
Unique(ref) == ref.by # "nothing" /\ Len(Fitting(ref)) = 1
NextOffer == Len(acts) + 1
Offered(choices) == acts' = Append(acts, 0) /\ offer' = choices

SendCall(call) ==
    /\ turn' = [turn EXCEPT !.call = call]
    /\ UNCHANGED <<offset, batch, offer, acts>>

CreateListed ==
    /\ Step.op = "create"
    /\ IF IsDuplicate(Step) THEN StepEnds /\ UNCHANGED <<offer, acts>> ELSE SendCall(Step)

SelectListed ==
    /\ Step.op \in {"finish", "move"}
    /\ LET fitting == Fitting(Step.task)
       IN \/ /\ Unique(Step.task)
             /\ SendCall([op |-> Step.op, id |-> fitting[1].id, due |-> Step.due])
          \/ /\ ~Unique(Step.task) /\ fitting # <<>> /\ StepEnds
             /\ Offered([id |-> NextOffer, lapsed |-> FALSE, kind |-> "task", op |-> Step.op,
                         due |-> Step.due, candidates |-> fitting])
          \/ /\ fitting = <<>> /\ StepEnds /\ UNCHANGED <<offer, acts>>

MailRead ==
    /\ Step.op = "mail" /\ StepEnds
    /\ \E p \in MailProposals :
           IF p = <<>> THEN UNCHANGED <<offer, acts>>
           ELSE Offered([id |-> NextOffer, lapsed |-> FALSE, kind |-> "mail",
                         candidates |-> [i \in DOMAIN p |-> [title |-> p[i]]]])

ReadFails == StepEnds /\ UNCHANGED <<offer, acts>>

Read ==
    /\ turn # None /\ turn.call = None
    /\ CreateListed \/ SelectListed \/ MailRead \/ ReadFails
    /\ UNCHANGED <<written, confirmed, todos, late, restarts>>

\* What Core makes of a write: a task that is closed is not changed.
After(call, given) ==
    IF call.op = "create"
    THEN Append(todos, [title |-> call.title, due |-> call.due, active |-> TRUE, moved |-> FALSE, late |-> given])
    ELSE IF ~todos[call.id].active THEN todos
    ELSE IF call.op = "finish" THEN [todos EXCEPT ![call.id].active = FALSE]
    ELSE [todos EXCEPT ![call.id].due = call.due, ![call.id].moved = TRUE]

\* The write is carried out and answered, or fails, or is given up.
Called ==
    /\ turn # None /\ turn.call # None
    /\ StepEnds
    /\ acts' = IF turn.cause = None THEN acts ELSE [acts EXCEPT ![turn.cause] = @ + 1]
    /\ \/ todos' = After(turn.call, FALSE) /\ UNCHANGED late
       \/ UNCHANGED <<todos, late>>
       \/ Len(late) < MaxLate /\ late' = Append(late, turn.call) /\ UNCHANGED todos
    /\ UNCHANGED <<written, confirmed, offer, restarts>>

\* Core carries out a write that the gateway has given up.
CarriedOutLate ==
    /\ \E i \in DOMAIN late :
           /\ late[i] # None
           /\ todos' = After(late[i], TRUE)
           /\ late' = [late EXCEPT ![i] = None]
    /\ UNCHANGED <<written, confirmed, offset, batch, turn, offer, acts, restarts>>

Restart ==
    /\ restarts < MaxRestarts
    /\ offset' = 0 /\ batch' = <<>> /\ turn' = None /\ offer' = None
    /\ restarts' = restarts + 1
    /\ UNCHANGED <<written, confirmed, todos, late, acts>>

DialogueNext ==
    Write \/ GetUpdates \/ Understand \/ Lapse \/ Read \/ Called \/ CarriedOutLate \/ Restart

DialogueSpec == DialogueInit /\ [][DialogueNext]_dialogueVars

\* The loop goes on, and every call it makes comes to an end.
Loop == GetUpdates \/ Understand \/ Read \/ Called

-----------------------------------------------------------------------------
\* Every variable has its type.
DialogueTypeOK ==
    /\ written \in Seq(Messages \intersect (OwnerCommands \union Replies)) /\ Len(written) <= MaxMessages
    /\ confirmed \in 1 .. MaxMessages + 1 /\ offset \in 0 .. MaxMessages + 1
    /\ batch \in Seq(1 .. MaxMessages) /\ acts \in Seq(Nat)
    /\ turn # None => turn.steps # <<>> /\ (turn.cause # None => turn.cause \in DOMAIN acts)
    /\ offer # None => offer.id \in DOMAIN acts /\ offer.lapsed \in BOOLEAN
    /\ todos \in Seq(Todos)
    /\ Len(late) <= MaxLate /\ restarts \in 0 .. MaxRestarts

\* However often a command is delivered, two tasks of one title and due date stand side by
\* side only when the owner moved one there, or one was written by a call that was given up:
\* the messages are handled one at a time, and each write follows a look at what there is
\* (at all of it as long as the owner has no more than 200 active tasks).
NoDoubles ==
    \A i, j \in DOMAIN todos :
        i # j /\ todos[i].active /\ todos[j].active
            /\ todos[i].title = todos[j].title /\ todos[i].due = todos[j].due =>
                todos[i].moved \/ todos[j].moved \/ todos[i].late \/ todos[j].late

\* What was offered is done once at most, though the reply comes twice, the write is not
\* answered, or the process starts again in between ("Consume before the write").
OfferUsedOnce == \A n \in DOMAIN acts : acts[n] <= 1

\* Every message is handled and done with in the end, whatever it asks for and whatever fails.
EveryMessageHandled == []<>(confirmed > Len(written))
=============================================================================
