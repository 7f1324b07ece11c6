CONSTANTS
    Signups = {a1}
    Errands = {e1}
    NoAccount = NoAccount
    MaxMails = 1
    MaxAccountFaults = 0
SPECIFICATION AccountsSpec
CHECK_DEADLOCK FALSE
INVARIANT CanceledAccountIsDeleted
