\* Every delivery lives the life of an Outbox row and is decided; every window is summarised.
SPECIFICATION FairSpec
CONSTANTS
    e1 = e1  e2 = e2  e3 = e3  d1 = d1  d2 = d2  c1 = c1  c2 = c2
    w1 = w1  w2 = w2  t1 = t1
    Events = {e1}
    Devices = {d1}
    Channels = {c1}
    Windows = {w1}
    Tests = {}
    Groups = {"rack"}
    Scopes <- DeviceScopes
    MaxAttempts = 2
    EventLimit = 1
    DueLimit = 1
    Retention = 1
    CommitLag = 0
    StatementReads = FALSE
    Horizon = 1
PROPERTIES ImplementsOutbox DeliveriesDecided WindowsSummarized
CHECK_DEADLOCK FALSE
