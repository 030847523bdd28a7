CONSTANTS
    TargetUid = 1000
    TargetGid = 1000
    TargetGroups = {27}
    RootGroups = {0, 4}
    InvokerUid = 1001
    InvokerGid = 1001
SPECIFICATION Spec
CHECK_DEADLOCK FALSE
INVARIANT TypeOK
INVARIANT SessionCannotRegainRoot
