\* Runs: two requests for two runs, three crashes or failed file operations.  Rules: two
\* candidates, each approved, withdrawn and approved again; one rule of another process;
\* two crashes or failed writes.  Learning: six decisions in 380 days, of three kinds.
\* Health: two rules, five events and two switches in a year.
SPECIFICATION MCSpec
CONSTANTS
    None = None
    Requests = {q1, q2}
    Runs = {run1, run2}
    MaxFaults = 3
    Candidates = {c1, c2}
    MaxEvents = 3
    MaxProposals = 1
    MaxRuleFaults = 2
    MaxEntries = 6
    LearningDays = 380
    Rules <- MCRules
    Outcomes <- MCOutcomes
    Leaps = {183}
    MaxEffects = 5
    MaxSwitches = 2
    MaxDay = 366
INVARIANTS PublishedRunKept OneRulePerCandidate VerdictsAgree
PROPERTIES LockFreed JournalRepaired OfferedOnAgreement
\* The system stops when the requests are used up.
CHECK_DEADLOCK FALSE
