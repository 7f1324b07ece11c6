SPECIFICATION BoundedSpec
CONSTANTS
    Nodes = {"n1", "n2", "n3"}
    Ghosts = {"ghost"}
    NoNode = "none"
    Graphs <- BothGraphs
    MaxTries = 2
    MaxFaults = 2
INVARIANTS
    EveryNodeIsJustified
    AttemptIsComplete
    NodeRunsAgree
    FailedRunHasDeadLetter
    UnbranchedRunIsComplete
PROPERTY EndingRunEnds
\* A run that has ended takes no more steps.
CHECK_DEADLOCK FALSE
