SPECIFICATION Spec
CONSTANTS
    i1 = i1
    i2 = i2
    ra = ra
    rb = rb
    Daemons = {d1}
    Repos = {ra}
    Issues = {i1}
    RepoOf <- OneIssue
    Triggers <- RaTakesAll
    BadRuntime = {}
    Runs = {r1, r2, r3}
    Operators = {o1, o2}
    MaxConcurrent = 2
    RepoMaxConcurrent = 2
    MaxRunsPerDay = 2
    RepoMaxRunsPerDay = 2
    MaxDay = 1
    MaxAdw = 1
    MaxRetries = 2
    MaxFaults = 1
    NoDaemon = NoDaemon
    NoIssue = NoIssue
    NoRun = NoRun
SYMMETRY CrewSymmetry
INVARIANTS
    StatusBackedByRun
    OneLeadPerIssue
    OneSlotPerFault
