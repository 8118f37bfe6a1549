SPECIFICATION FairSpec
CONSTANTS
    s1 = s1
    s2 = s2
    Samples = {s1, s2}
    Fine = 2
    Coarse = 4
    PassLimit = 4
    NarrowSpan = 2
    WideSpan = 6
    Policies <- ShortAndLong
    MaxDelay = 1
    Horizon = 6
INVARIANTS CountedOnce NeverConflicts KeptUnlessExpired QueriesFaithful
PROPERTIES EverySampleCounted
