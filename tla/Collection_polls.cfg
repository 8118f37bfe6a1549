SPECIFICATION FairSpec
CONSTANTS
    Targets = {A, B}
    Editors = {e1}
    Clusters = {"x"}
    Loops = {"system", "smart", "services", "rediscover"}
    MaxRevision = 3
CONSTRAINT RediscoverAlone
VIEW Compared
INVARIANT BothSourcesKept
PROPERTIES ChecksCatchOldEndpoints PausedPollsDropped SettlesOnEndpoint
