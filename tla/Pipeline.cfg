INIT Init
NEXT Next
CONSTANTS
    None = None
    Damaged = Damaged
    t1 = t1
    Runs <- MCRuns
    Offers <- MCOffers
    Earlier <- MCEarlier
    Tokens = {None, t1}
    Ttl = 1
    MaxBackups = 2
    MaxClock = 2
    MaxFaults = 1
    MaxDamage = 1
    Reports <- MCReports
    PolicyRules <- MCRules
    Minimums <- MCMinimums
    OwnerQuantity = 4
    Calculations <- MCCalculations
    Registries <- MCRegistries
    Simulations <- MCSimulations
    Configs <- MCConfigs
    Cases <- MCCases
    Drafts <- MCDrafts
    WordMemories <- MCWords
    Now = 40
INVARIANTS NeverBoughtBlind KeepsPolicy OwnerOrderStands DemandIsAnswered DecisionsSurvive FileFollowsOwner QueuesAgree BudgetKept RulesOnlyTakeAway ForecastComesTrue DraftIsReady WordKept
CHECK_DEADLOCK FALSE
