CONSTANTS
    f1 = f1
    NoWorker = NoWorker
    NumRuns = 1
    Workflows = {f1}
    WorkflowOf <- OneWorkflow
    Workers = {w1}
    UseLeases = TRUE
    Lease = 2
    Deadline = 1
    RenewEvery = 1
    MaxStall = 1
    MaxInflight = 2
    Limits = {1}
    Priorities = {0}
    ReplyLoss = TRUE
    MaxTries = 3
    MaxDelay = 1
    MaxPauses = 1
    MaxClaims = 6
    MaxFaults = 3
SPECIFICATION FairSpec
PROPERTY EveryRunEnds
