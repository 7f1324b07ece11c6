CONSTANTS
    f1 = f1
    f2 = f2
    r1 = r1
    r2 = r2
    r3 = r3
    h1 = h1
    h2 = h2
    MaxNotionRetries = 3
    MaxChanges = 2
    HttpHosts <- FourHosts
    InternalHosts <- TwoInternal
    IPv6Hosts <- OneIPv6
    HostPatterns <- Patterns
    HttpRuns <- TwoHttpRuns
    MaxRedirects = 1
    MaxRetries = 1
    MaxListEdits = 1
    Flows <- TwoFlows
    Rows <- ThreeRows
    Idents = {"a", "b"}
    Unknown = "unknown"
    First = First
    NoFlow = NoFlow
    NoRow = NoRow
    MaxDisturbances = 1
SPECIFICATION IntegrationsSpec
INVARIANT RevokedSlackIsKept
\* A call, a run and a flow end.
CHECK_DEADLOCK FALSE
