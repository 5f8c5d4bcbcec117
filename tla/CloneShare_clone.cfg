SPECIFICATION Spec
CONSTANTS
    Dirs = 2
    Leads = {l1, l2}
    Noted = {l1}
    Phases = 3
    MaxUpdates = 2
    MaxFaults = 3
INVARIANTS
    TypeOK
    LaunchedFresh
    MissesWhileReplaced
    IdentityUnlessCut
    WorksInWorktree
CHECK_DEADLOCK FALSE
