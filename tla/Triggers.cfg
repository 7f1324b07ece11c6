CONSTANTS
    s1 = s1
    s2 = s2
    v1 = v1
    v2 = v2
    Servers <- TwoServers
    Saves <- TwoSaves
    Configs <- OneShotOrRepeat
    NoConfig = NoConfig
    NoTime = NoTime
    SendsVersion = FALSE
    MaxClock = 2
    MaxSchedFaults = 1
    Rows = {1, 2, 3}
    Pollers <- TwoServers
    NotionKind = "new"
    NoRow = NoRow
    RowBudget = 1
    MaxMinute = 3
    MaxEdits = 1
    MaxPollFaults = 1
    Messages = {m}
    Deliveries = {d1, d2}
    NoMessage = NoMessage
    Windows = {0, 1}
    MaxSalt = 1
    MaxHookClock = 1
    MaxHookFaults = 1
    Letters = {l1, l2}
    Requeues = {q1, q2, q3}
    NoLetter = NoLetter
    MaxLetterFaults = 2
SPECIFICATION TriggersSpec
CHECK_DEADLOCK FALSE
CONSTRAINT NotionBound
INVARIANT OneRunPerTime
INVARIANT ScheduleFollowsWorkflow
INVARIANT RowStartsOneRun
INVARIANT RowIsNotPassedOver
INVARIANT SignedMessageRunsOnce
INVARIANT LetterBecomesOneRun
PROPERTY DueScheduleIsServed
