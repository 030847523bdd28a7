CONSTANTS
    u1 = u1
    u2 = u2
    NoUser = NoUser
    Users <- MCUsers
    MaxAttempts = 2
    LockoutDuration = 2
    MaxTime = 6
    MaxClockStepBack = 2
SYMMETRY UserSymmetry
SPECIFICATION Spec
INVARIANT TypeOK
INVARIANT LockoutInv
