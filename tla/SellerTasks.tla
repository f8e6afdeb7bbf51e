------------------------------- MODULE SellerTasks -------------------------------
(***************************************************************************)
(* The tasks proposed to one seller for one shift: the planner proposes    *)
(* library tasks, the owner approves, rejects or assigns them and marks    *)
(* the result.  Every request reads a proposal and then updates it by its  *)
(* id alone, without a transaction; of what two requests do to each other  *)
(* only the unique index of the table has a say.                           *)
(***************************************************************************)
EXTENDS Absent, Integers, FiniteSets

CONSTANTS
    Owners,        \* requests under way
    Tasks,         \* tasks of the library
    MaxProposals,  \* bound: proposals ever made
    MaxDeaths      \* bound: deaths and failed calls

ProposalIds == 1 .. MaxProposals
ProposalStatuses == {"PENDING", "APPROVED", "REJECTED", "COMPLETED", "NOT_COMPLETED"}

\* A row of seller_task_proposals: a one-off assignment has no task of the library; text says
\* whether its text for Bitrix is there.
ProposalRows == [task : Tasks \union {None}, status : ProposalStatuses, text : BOOLEAN]

Intentions ==
    [kind : {"create"}, todo : SUBSET Tasks]
    \union [kind : {"text", "approve", "reject", "mark"}, id : ProposalIds]

ASSUME TasksAssumption == MaxDeaths \in Nat /\ None \notin ProposalRows

VARIABLES
    recent,     \* the shift is within the 45 days of proposals that the planner reads
    proposals,  \* id -> None or its row
    intention,  \* per request: None or what it is about to do
    deaths

taskVars == <<recent, proposals, intention, deaths>>

TasksInit ==
    /\ recent \in BOOLEAN
    /\ proposals = [i \in ProposalIds |-> None]
    /\ intention = [q \in Owners |-> None]
    /\ deaths = 0

TaskFailure == deaths < MaxDeaths /\ deaths' = deaths + 1

TaskGoes(q, op) == intention' = [intention EXCEPT ![q] = op]

\* The proposals that count as assignments.
Standing == {i \in ProposalIds : proposals[i] # None /\ proposals[i].status # "REJECTED"}

\* A mistaken index: an assignment whose result is marked makes room for another.
AssignedWhileOpen(task, except) ==
    task # None /\ \E i \in Standing \ {except} :
        proposals[i].task = task /\ proposals[i].status \in {"PENDING", "APPROVED"}

\* The unique index business_kpi_task_proposal_identity; one-off tasks are not in it.
Assigned(task, except) == task # None /\ \E i \in Standing \ {except} : proposals[i].task = task

\* createProposal: a new row, unless the index has one.
Insert(i, task, status) ==
    /\ proposals[i] = None /\ \A j \in ProposalIds : j < i => proposals[j] # None
    /\ ~Assigned(task, i)
    /\ proposals' = [proposals EXCEPT ![i] = [task |-> task, status |-> status, text |-> FALSE]]

\* generateProposals reads the seller's proposals of the last 45 days; one who has an
\* assignment for the shift gets no other, and for the rest the planner chooses tasks.
Generate(q, chosen) ==
    /\ intention[q] = None /\ recent => Standing = {}
    /\ TaskGoes(q, [kind |-> "create", todo |-> chosen])
    /\ UNCHANGED <<proposals, deaths>>

\* It creates them one after another; a task that is taken by now is skipped.
CreateProposal(q) ==
    LET op == intention[q] IN
    /\ op # None /\ op.kind = "create"
    /\ \/ \E t \in op.todo :
             /\ TaskGoes(q, [op EXCEPT !.todo = @ \ {t}])
             /\ \/ \E i \in ProposalIds : Insert(i, t, "PENDING")
                \/ Assigned(t, 0) /\ UNCHANGED proposals
       \/ op.todo = {} /\ TaskGoes(q, None) /\ UNCHANGED proposals
    /\ UNCHANGED deaths

\* assignManual creates an approved proposal; its text follows in a statement of its own.
AssignManual(q, task) ==
    /\ intention[q] = None
    /\ \E i \in ProposalIds :
          Insert(i, task, "APPROVED") /\ TaskGoes(q, [kind |-> "text", id |-> i])
    /\ UNCHANGED deaths

WriteText(q) ==
    LET op == intention[q] IN
    /\ op # None /\ op.kind = "text"
    /\ proposals' = [proposals EXCEPT ![op.id].text = TRUE]
    /\ TaskGoes(q, None) /\ UNCHANGED deaths

\* approve, reject and markResult read the proposal and refuse another status.
Decide(q, i, kind) ==
    /\ intention[q] = None /\ proposals[i] # None
    /\ proposals[i].status = (IF kind = "mark" THEN "APPROVED" ELSE "PENDING")
    /\ TaskGoes(q, [kind |-> kind, id |-> i])
    /\ UNCHANGED <<proposals, deaths>>

\* updateProposal replaces the status, whatever it is by now; for one that has been rejected
\* meanwhile the index may refuse it, and the request fails.
Update(i, status, text) ==
    IF status # "REJECTED" /\ Assigned(proposals[i].task, i) THEN UNCHANGED proposals
    ELSE proposals' = [proposals EXCEPT ![i].status = status, ![i].text = @ \/ text]

WriteDecision(q) ==
    LET op == intention[q] IN
    /\ op # None
    /\ \/ op.kind = "approve" /\ Update(op.id, "APPROVED", TRUE)
       \/ op.kind = "reject" /\ Update(op.id, "REJECTED", FALSE)
       \/ op.kind = "mark" /\ \E result \in {"COMPLETED", "NOT_COMPLETED"} : Update(op.id, result, FALSE)
    /\ TaskGoes(q, None) /\ UNCHANGED deaths

\* A call fails and ends its request.
CallFails(q) ==
    /\ intention[q] # None /\ TaskFailure
    /\ TaskGoes(q, None) /\ UNCHANGED proposals

\* The process dies with its requests.
TasksDie ==
    /\ TaskFailure
    /\ intention' = [q \in Owners |-> None] /\ UNCHANGED proposals

TasksStep ==
    \/ \E q \in Owners :
          \/ \E chosen \in SUBSET Tasks \ {{}} : Generate(q, chosen)
          \/ \E task \in Tasks \union {None} : AssignManual(q, task)
          \/ \E i \in ProposalIds, kind \in {"approve", "reject", "mark"} : Decide(q, i, kind)
          \/ CreateProposal(q) \/ WriteText(q) \/ WriteDecision(q) \/ CallFails(q)
    \/ TasksDie

TasksNext == TasksStep /\ UNCHANGED recent

TasksSpec == TasksInit /\ [][TasksNext]_taskVars

-----------------------------------------------------------------------------
TasksTypeOK ==
    /\ recent \in BOOLEAN
    /\ proposals \in [ProposalIds -> ProposalRows \union {None}]
    /\ intention \in [Owners -> Intentions \union {None}]
    /\ deaths \in 0 .. MaxDeaths

\* A seller has a library task at most once for a shift: two requests may plan at once, and
\* a proposal that one request rejects another may approve after the task was proposed anew
\* (generateProposals, approve, reject).
OneAssignment ==
    \A i, j \in Standing :
        proposals[i].task = proposals[j].task /\ proposals[i].task # None => i = j
=============================================================================
