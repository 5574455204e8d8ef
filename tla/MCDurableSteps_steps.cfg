SPECIFICATION FairSpec
CONSTANTS
    c1 = c1
    c2 = c2
    Steps = 2
    Child = {c1, c2}
    Stoppable = {c1}
    MaxAttempts = 2
    MaxRuns = 2
    MaxFaults = 1
    MaxResets = 1
CHECK_DEADLOCK FALSE
INVARIANTS
    TypeOK
    DurableBeforeNext
    StepsAgree
PROPERTIES
    WaitEnds
