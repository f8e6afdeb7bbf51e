\* One process dies while it writes its lock file, or while it reclaims another's.
SPECIFICATION FairSpec
CONSTANTS
    None = None
    Procs = {p1, p2}
    Pids = {n1, n2, n3}
    Ids = {i1, i2, i3, i4}
    Versions = {v1, v2, v3}
    PidReuse = FALSE
    MaxFaults = 1
PROPERTIES AbandonedLockRemoved
