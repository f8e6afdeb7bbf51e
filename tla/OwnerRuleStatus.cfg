\* One backend process (its port admits one), two rules, another process that
\* writes the registry, two crashes or failed file operations; the owner repeats
\* a request until its audit entry is written.
SPECIFICATION FairSpec
CONSTANTS
    None = None
    Rules = {r1, r2}
    Servers = {p1}
    PreviewTTL = 2
    LockRemovalCanFail = FALSE
    MaxClock = 3
    MaxProposals = 1
    MaxFaults = 2
INVARIANTS AuditComplete
PROPERTIES ImplementsAuditTrail RepairedEventually
