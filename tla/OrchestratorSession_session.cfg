SPECIFICATION FairSpec
CONSTANTS
    Services = {main, bridge}
    Waits = {main}
    Messages = {1, 2, 3}
    None = none
    MaxStarts = 2
    MaxAtOnce = 2
    MaxFaults = 1
INVARIANTS
    TypeOK
    ConversationGoesOn
    MemoryMatchesRow
    TokensCountedOnce
    BusyIsTrue
PROPERTIES
    ShutdownEnds
CHECK_DEADLOCK FALSE
