\* Two processes on the same data directory: what still holds.  The page: two rows, two
\* runs, two decisions, one request that fails.
SPECIFICATION MCSpec
CONSTANTS
    None = None
    Rules = {r1}
    Servers = {p1, p2}
    PreviewTTL = 2
    LockRemovalCanFail = FALSE
    MaxClock = 4
    MaxProposals = 0
    MaxFaults = 2
    Rows = {1, 2}
    Decisions = {"buy"}
    MaxSaves = 2
    Cards = {}
    \* An answer of the backend has one row, so that the rows to decide fill pages.
    FetchSize = 1
    MaxRuns = 2
    MaxLoads = 2
    MaxSimulations = 0
    MaxLost = 1
INVARIANTS NoPhantomAudit NoLostStatusChange DecisionForShownRun NeedsTabTrue
