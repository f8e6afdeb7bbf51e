INIT ReviewInit
NEXT ReviewNext
CONSTANTS
    None = None
    Damaged = Damaged
    t1 = t1
    Runs <- BlindRuns
    Offers <- MCOffers
    Earlier <- MCEarlier
    Tokens = {None, t1}
    Ttl = 1
    MaxBackups = 2
    MaxClock = 2
    MaxFaults = 0
    MaxDamage = 0
INVARIANT NeedsDecisionIsIncomplete
CHECK_DEADLOCK FALSE
