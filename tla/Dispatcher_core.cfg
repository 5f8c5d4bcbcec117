SPECIFICATION Spec
CONSTANTS
    i1 = i1
    i2 = i2
    ra = ra
    rb = rb
    Daemons = {d1}
    Repos = {ra, rb}
    Issues = {i1, i2}
    RepoOf <- TwoRepos
    Triggers <- RaTakesAll
    BadRuntime = {rb}
    Runs = {r1, r2}
    Operators = {o1}
    MaxConcurrent = 1
    RepoMaxConcurrent = 2
    MaxRunsPerDay = 1
    RepoMaxRunsPerDay = 1
    MaxDay = 2
    MaxAdw = 1
    MaxRetries = 1
    MaxFaults = 0
    NoDaemon = NoDaemon
    NoIssue = NoIssue
    NoRun = NoRun
SYMMETRY RunSymmetry
INVARIANTS
    TypeOK
    DispatchedIsTracked
    ConcurrencyCaps
    DailyCap
PROPERTIES
    RunsFollowLifecycle
    CompletedIsFinal
