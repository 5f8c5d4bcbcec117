SPECIFICATION Spec
CONSTANTS
    i1 = i1
    i2 = i2
    ra = ra
    rb = rb
    Daemons = {d1}
    Repos = {ra}
    Issues = {i1}
    RepoOf <- OneIssue
    Triggers <- CommentsOnly
    BadRuntime = {}
    Runs = {r1, r2, r3}
    Operators = {o1}
    MaxConcurrent = 3
    RepoMaxConcurrent = 3
    MaxRunsPerDay = 3
    RepoMaxRunsPerDay = 3
    MaxDay = 1
    MaxAdw = 1
    MaxRetries = 1
    MaxFaults = 0
    NoDaemon = NoDaemon
    NoIssue = NoIssue
    NoRun = NoRun
INVARIANTS
    EachTriggerOnce
