SPECIFICATION FairSpec
CONSTANTS
    k1 = k1
    k2 = k2
    Keys = {k1, k2}
    NoKey = NoKey
    MaxJobs = 1
    MaxProbes = 2
    Callers = {"dialog", "other"}
INVARIANTS SavedAsTrusted
PROPERTIES SecretsForgotten DialogMovesOn
CHECK_DEADLOCK FALSE
