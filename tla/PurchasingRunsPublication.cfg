\* A write of run.json that fails after the rename, and one more fault.
SPECIFICATION Spec
CONSTANTS
    None = None
    Requests = {q1, q2}
    Runs = {run1, run2}
    MaxFaults = 2
INVARIANTS CompletedRunIsWhole
\* The system stops when the requests are used up.
CHECK_DEADLOCK FALSE
