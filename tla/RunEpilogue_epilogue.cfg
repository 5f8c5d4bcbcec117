SPECIFICATION Spec
CONSTANTS
    Runs = {r1, r2, r3}
    Repos = {p1, p2}
    MaxTasks = 4
    MaxLessons = 2
    MaxFaults = 1
SYMMETRY Interchangeable
INVARIANTS
    TypeOK
    FollowupsEnd
    TaskTellsLastRun
    FollowupTraceable
    RelevantIsBest
CHECK_DEADLOCK FALSE
