CONSTANTS
    c1 = c1
    c2 = c2
    x1 = x1
    x2 = x2
    h1 = h1
    h2 = h2
    w1 = w1
    w2 = w2
    p1 = p1
    p2 = p2
    t1 = t1
    k1 = k1
    k2 = k2
    a1 = a1
    a2 = a2
    e1 = e1
    e2 = e2
    j1 = j1
    j2 = j2
    Users = {u0, u1, u2}
    Founder = u0
    Invites = {i1}
    Calls <- TwoCalls
    NoUser = NoUser
    NoInvite = NoInvite
    MemberLimit = 2
    MaxMemberFaults = 1
    Checkouts <- TwoCheckouts
    None = None
    Handlers <- TwoHandlers
    Requests = {q1}
    MaxBillFaults = 1
    Tokens = {t1}
    Conns <- TwoConns
    Tasks <- TwoTasks
    ServerOf <- OneServer
    PurgesRevoked = TRUE
    NoConn = NoConn
    NoToken = NoToken
    NoTask = NoTask
    MaxCredential = 2
    MaxConnFaults = 1
    SessionIds = {s}
    Hosts = {o1, o2}
    WebRequests <- TwoWebRequests
    NoSession = NoSession
    NoHost = NoHost
    MaxRenewals = 2
    MaxSessionFaults = 1
    Signups <- TwoSignups
    Errands = {errand}
    NoAccount = NoAccount
    MaxMails = 1
    MaxAccountFaults = 1
    Authors = {creator, member}
    Creator = creator
    EditRequests <- TwoEditRequests
    NoAuthor = NoAuthor
    MaxVersion = 3
    Holders = {holder1, holder2}
    Admins = {holder1}
    Names = {named, auto}
    AutoNames = {auto}
    SecretValues = {text}
    SettingsJobs <- TwoJobs
    NoHolder = NoHolder
    NoName = NoName
    NoSecret = NoSecret
    MaxSettingsWrites = 2
SPECIFICATION TenancySpec
CHECK_DEADLOCK FALSE
CONSTRAINT TenancyBound
INVARIANT WorkspaceHasOwner
INVARIANT DepartedShareNothing
INVARIANT SeatsWithinLimit
INVARIANT PlanFollowsStripe
INVARIANT SharedCopiesStayUsable
INVARIANT LoggedOutStaysOut
INVARIANT SignupIsAllOrNothing
INVARIANT SettingsKeepTheirFields
PROPERTY SavesRespectOthers
