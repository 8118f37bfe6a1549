SPECIFICATION FairSpec
CONSTANTS
    a = a
    x = x
    Devices = {a}
    Alerts = {x}
    OpenAtFirst = {x}
    MaxContent = 1
    MaxMounts = 2
    MaxReloads = 2
    MaxMail = 1
    Waiting = Waiting
INVARIANTS StreamFaithful IndicatorHonest
PROPERTIES StaysLive
CHECK_DEADLOCK FALSE
