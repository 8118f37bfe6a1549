SPECIFICATION Spec
CONSTANTS
    a = a
    b = b
    show = show
    reboot = reboot
    here = here
    there = there
    Devices = {a, b}
    Endpoints = {here, there}
    Commands = {show, reboot}
    Destructive = {reboot}
    MaxRevision = 3
    MaxProofs = 1
    MaxJobs = 2
    Deliveries = {1, 2}
CONSTRAINT Bounds
INVARIANTS AtMostOnce ConfirmedOnce SentAsQueued ReportsTruth
CHECK_DEADLOCK FALSE
