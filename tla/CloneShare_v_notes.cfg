SPECIFICATION Spec
CONSTANTS
    Dirs = 1
    Leads = {l1}
    Noted = {l1}
    Phases = 2
    MaxUpdates = 0
    MaxFaults = 0
INVARIANTS
    NotesReachPlanner
CHECK_DEADLOCK FALSE
