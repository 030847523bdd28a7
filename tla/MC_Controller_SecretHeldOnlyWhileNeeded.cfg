CONSTANTS
    u1 = u1
    u2 = u2
    NoUser = NoUser
    Users <- MCUsers
    Accounts <- MCAccounts
    MaxAttempts = 2
    LockoutDuration = 2
    MaxSessions = 2
    MaxTime = 5
SPECIFICATION FairSpec
CHECK_DEADLOCK FALSE
INVARIANT SecretHeldOnlyWhileNeeded
