CONSTANTS
    Clients = {f1, f2, f3}
    Dates = {0, 1}
    Concurrency = 2
    MaxCalls = 2
SPECIFICATION FairSpec
INVARIANTS TypeOK BoundedConcurrency ActiveIsExact NoLostWakeup NoPanic
PROPERTIES Priority WaitReadyReturns StopReleases ImplementsPool
