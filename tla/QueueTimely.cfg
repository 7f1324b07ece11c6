CONSTANTS
    f1 = f1
    NoWorker = NoWorker
    NumRuns = 1
    Workflows = {f1}
    WorkflowOf <- OneWorkflow
    Workers = {w1, w2}
    UseLeases = FALSE
    Lease = 2
    Deadline = 1
    RenewEvery = 1
    MaxStall = 1
    MaxInflight = 2
    Limits = {1}
    Priorities = {0}
    ReplyLoss = FALSE
    MaxTries = 3
    MaxDelay = 1
    MaxPauses = 1
    MaxClaims = 3
    MaxFaults = 2
SPECIFICATION MixedSpec
SYMMETRY SymWorkers
INVARIANT OneExecutor
PROPERTY ImplementsLifecycle
