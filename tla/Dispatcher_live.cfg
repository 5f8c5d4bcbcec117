SPECIFICATION FairSpec
CONSTANTS
    i1 = i1
    i2 = i2
    ra = ra
    rb = rb
    Daemons = {d1}
    Repos = {ra}
    Issues = {i1}
    RepoOf <- OneIssue
    Triggers <- NewOrLabel
    BadRuntime = {}
    Runs = {r1, r2}
    Operators = {o1}
    MaxConcurrent = 2
    RepoMaxConcurrent = 1
    MaxRunsPerDay = 1
    RepoMaxRunsPerDay = 1
    MaxDay = 1
    MaxAdw = 0
    MaxRetries = 1
    MaxFaults = 1
    NoDaemon = NoDaemon
    NoIssue = NoIssue
    NoRun = NoRun
PROPERTIES
    EveryTrackedRunEnds
