CONSTANTS
    Callers = {c1, c2}
    Lease = 1
    MaxTime = 2
    MaxCalls = 2
    MaxManagers = 2
    MaxFailures = 1
    Operators = {o1}
    Configs <- SomeConfigs
    Repo <- RepoConfig
    MaxUpdates = 2
SPECIFICATION SLiveSpec
INVARIANTS NothingForgotten HeldStays 
PROPERTY Lapses
CHECK_DEADLOCK FALSE
