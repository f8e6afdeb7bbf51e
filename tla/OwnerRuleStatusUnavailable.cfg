\* As before, and the registry's lock file may resist its removal.
SPECIFICATION Spec
CONSTANTS
    None = None
    Rules = {r1}
    Servers = {p1}
    PreviewTTL = 2
    LockRemovalCanFail = TRUE
    MaxClock = 3
    MaxProposals = 0
    MaxFaults = 1
PROPERTIES UnavailableMeansUnchanged
