SPECIFICATION FairSpec
CONSTANTS
    a = a
    b = b
    c = c
    k = k
    w1 = w1
    w2 = w2
    p1 = p1
    p2 = p2
    NoWorker = NoWorker
    NoKey = NoKey
    NoFlow = NoFlow
    Recover = s
    Job = {a}
    Worker = {w1, w2}
    Sweeper = {w1, w2, s}
    Key = {}
    Flow = {}
    MaxAttempts <- Twice
    ConcurrencyKey <- Unkeyed
    MaxConcurrency <- Once
    WorkflowId <- NoFlows
    Edge = {}
    Limit = 2
    Process <- OneEach
    Stoppable = {p1}
    Batch = 1
    Concurrency = 1
    MaxRestarts = 1
    Unencodable = {}
    Overruns <- FirstOverruns
    Returns <- Retries
    MaxFaults = 1
INVARIANTS
    OneExecution
PROPERTIES
    EventuallySettled
    ShutdownStops
CHECK_DEADLOCK FALSE
