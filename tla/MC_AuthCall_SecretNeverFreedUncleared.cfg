CONSTANTS
    u1 = u1
    u2 = u2
    NoUser = NoUser
    Users <- MCUsers
    MaxAttempts = 2
    LockoutDuration = 2
    MaxTime = 4
    MaxClockStepBack = 1
    MaxNumMsg = 2
    Conversations <- MCConversations
    MaxConvs = 2
SYMMETRY UserSymmetry
SPECIFICATION Spec
INVARIANT SecretNeverFreedUncleared
