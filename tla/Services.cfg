SPECIFICATION Spec
CONSTANTS
    None = None
    Clients = {c1, c2}
    Payments = {p1, p2}
    MaxKeys = 2
    MaxOrderFaults = 1
    MaxFaults = 1
    Skus = {s1}
    Keys = {a, b}
    MaxUnits = 2
    Limit = 2
    Schedulers = {d1, d2}
    Commands = {command}
    ReminderTimes = {0, 2}
    MaxTime = 4
    Lease = 2
    RetryDelay = 1
    MaxFailures = 1
    Statuses = {"done"}
    Requests = {q1, q2}
    Slots = {e1, e2}
    Values = {v1}
    MaxShifts = 2
    MaxRuns = 1
    Owners = {o1, o2}
    Tasks = {t1}
    MaxProposals = 2
    MaxDeaths = 1
    Titles = {feed}
    Never = 2
    Messages <- MCMessages
    MailProposals <- MCProposals
    MaxMessages = 3
    MaxLate = 1
    MaxRestarts = 1
    Targets = {t}
    Trends = {p}
    BadFigures = {b1, b2}
    MaxSlips = 2
INVARIANTS ShipmentsPaidFor LeaseExclusive AuditShowsShift ImportsWhole OneAssignment NoDoubles OfferUsedOnce
PROPERTIES PaidIsNotified LaterUnitsStay PaidIsCleaned DueReminderSent EveryMessageHandled ToldOnce
CHECK_DEADLOCK FALSE
