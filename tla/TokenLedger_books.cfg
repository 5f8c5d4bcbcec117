SPECIFICATION FairSpec
CONSTANTS
    Runs = {1}
    Agents = {1, 2}
    Daemon = daemon
    Operators = {o1}
    MaxTokens = 2
    MaxCalls = 1
    MaxScans = 2
    MaxFaults = 1
INVARIANTS
    TypeOK
    BudgetMatchesLedger
    TotalWithinLedger
    ReapedIsCounted
PROPERTIES
    EndedRunsClose
CHECK_DEADLOCK FALSE
