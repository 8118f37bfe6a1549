SPECIFICATION FairSpec
CONSTANTS
    cpu = cpu
    Metrics = {cpu}
    MaxValue = 2
    Rules <- AnyRules
INVARIANTS StreaksDecide EventsTellAlerts
PROPERTIES ChangesOnEvidence PersistentBadReported
