------------------------------ MODULE AuditTrail ------------------------------
(***************************************************************************)
(* What the management of rule statuses promises its owner: every change   *)
(* of a rule's status becomes one record of the audit log, records are     *)
(* never lost or invented, and a rule does not change again before its     *)
(* last change is on record.                                               *)
(***************************************************************************)
EXTENDS Integers

CONSTANTS Rules, None

VARIABLES
    status,      \* rule -> its status and the time it got it
    unrecorded,  \* rule -> the change that still has no record, or None
    log          \* the recorded changes

vars == <<status, unrecorded, log>>

Init ==
    /\ status \in [Rules -> [status : {"ABSENT", "DISABLED"}, updatedAt : {0}]]
    /\ unrecorded = [r \in Rules |-> None]
    /\ log = {}

\* Only r changes its status.
OnlyStatusOf(r) == status' = [status EXCEPT ![r] = status'[r]]

\* A rule comes into being, switched off.
Add(r) ==
    /\ status[r].status = "ABSENT"
    /\ status'[r].status = "DISABLED"
    /\ OnlyStatusOf(r)
    /\ UNCHANGED <<unrecorded, log>>

\* The owner switches the rule; the change is unrecorded at first.
Change(r) ==
    LET e == unrecorded'[r] IN
    /\ unrecorded[r] = None
    /\ e # None
    /\ e.rule = r
    /\ {status[r].status, e.to} = {"ACTIVE", "DISABLED"}
    /\ e.at > status[r].updatedAt
    /\ status'[r] = [status |-> e.to, updatedAt |-> e.at]
    /\ OnlyStatusOf(r)
    /\ unrecorded' = [unrecorded EXCEPT ![r] = e]
    /\ UNCHANGED log

\* The change goes on record.
Record(r) ==
    /\ unrecorded[r] # None
    /\ log' = log \union {unrecorded[r]}
    /\ unrecorded' = [unrecorded EXCEPT ![r] = None]
    /\ UNCHANGED status

Next == \E r \in Rules : Add(r) \/ Change(r) \/ Record(r)

Spec == Init /\ [][Next]_vars
=============================================================================
