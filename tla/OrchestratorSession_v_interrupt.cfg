SPECIFICATION FairSpec
CONSTANTS
    Services = {main}
    Waits = {main}
    Messages = {1, 2}
    None = none
    MaxStarts = 1
    MaxAtOnce = 2
    MaxFaults = 1
PROPERTIES
    InterruptStops
CHECK_DEADLOCK FALSE
