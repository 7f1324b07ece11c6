CONSTANTS
    r1 = r1
    r2 = r2
    r3 = r3
    k = k
    p1 = p1
    p2 = p2
    a1 = a1
    a2 = a2
    NoKey = NoKey
    NoRun = NoRun
    Requests <- Three
    Source <- Mixed
    KeyOf <- SharedKey
    Keys <- OneKey
    Plans <- BothPlans
    RunLimit = 1
    SoloLimit = 1
    RunawayLimit = 1
    ReplyLoss = TRUE
    MaxPeriod = 2
    MaxFaults = 2
    SignIns = {s1, s2}
    PasswordTries = {t1}
    ResetLinks = {l1}
    Resets = {q1, q2}
    FirstPassword = FirstPassword
    NoHash = NoHash
    NoLink = NoLink
    NoSignIn = NoSignIn
    MaxLoginFaults = 1
    UserDesk = {u1}
    AdminDesk <- TwoAdmins
    MaxMessages = 3
    MaxLost = 1
    WatchedNodes = {n1, n2}
    MaxChangesSeen = 2
    Places <- TwoPlaces
    NoPlace = NoPlace
    MaxShifts = 2
SPECIFICATION RoutesSpec
INVARIANTS
    UsageIsExact
    UsageIsSettled
    SameKeySameRun
    CallbackTakesNoOther
    LinkWorksOnce
    NoMessageIsOverlooked
    StatusTellsWhoIsNext
    SilenceMeansNoNews
    ReadsAreEntitled
\* A request ends.
CHECK_DEADLOCK FALSE
