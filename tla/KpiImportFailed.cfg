\* Two requests, two employees' shifts, one workbook; no fault.
SPECIFICATION KpiSpec
CONSTANTS
    None = None
    Requests = {q1, q2}
    Slots = {e1, e2}
    Values = {v1}
    MaxShifts = 2
    MaxRuns = 1
    MaxFaults = 0
INVARIANTS FailedImportedNothing
CHECK_DEADLOCK FALSE
