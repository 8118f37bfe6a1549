\* Two events, one channel, no maintenance: late commits, crashes, retries, retention.
SPECIFICATION Spec
CONSTANTS
    e1 = e1  e2 = e2  e3 = e3  d1 = d1  d2 = d2  c1 = c1  c2 = c2
    w1 = w1  w2 = w2  t1 = t1
    Events = {e1, e2}
    Devices = {d1}
    Channels = {c1}
    Windows = {}
    Tests = {}
    Groups = {"rack"}
    Scopes = {}
    MaxAttempts = 2
    EventLimit = 1
    DueLimit = 1
    Retention = 1
    CommitLag = 1
    StatementReads = TRUE
    Horizon = 2
INVARIANTS AttemptsPaidFor EveryEventQueued
SYMMETRY Symmetry
CHECK_DEADLOCK FALSE
