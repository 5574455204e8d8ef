SPECIFICATION FairSpec
CONSTANTS
    a = a
    b = b
    c = c
    k = k
    w1 = w1
    w2 = w2
    p1 = p1
    p2 = p2
    NoWorker = NoWorker
    NoKey = NoKey
    NoFlow = NoFlow
    Recover = s
    Job = {a, b, c}
    Worker = {w1}
    Sweeper = {w1, s}
    Key = {k}
    Flow = {}
    MaxAttempts <- Once
    ConcurrencyKey <- OnlyCKeyed
    MaxConcurrency <- Once
    WorkflowId <- NoFlows
    Edge = {}
    Limit = 2
    Process <- Together
    Stoppable = {}
    Batch = 2
    Concurrency = 1
    MaxRestarts = 1
    Unencodable = {c}
    Overruns = {}
    Returns <- Mixed
    MaxFaults = 1
INVARIANTS
    InflightBound
PROPERTIES
    EventuallySettled
CHECK_DEADLOCK FALSE
