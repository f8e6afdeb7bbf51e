\* One run of two rows, two decisions; nothing fails.
SPECIFICATION PageSpec
CONSTANTS
    None = None
    Rows = {1, 2}
    Decisions = {"buy"}
    Cards = {"final"}
    FetchSize = 2
    MaxRuns = 1
    MaxLoads = 1
    MaxSaves = 2
    MaxSimulations = 1
    MaxLost = 0
INVARIANTS CardsShowFinalOrder
\* The page stops when its bounds are used up.
CHECK_DEADLOCK FALSE
