SPECIFICATION Spec
CONSTANTS
    a = a
    b = b
    c = c
    d = d
    k = k
    f = f
    NoWorker = NoWorker
    NoKey = NoKey
    NoFlow = NoFlow
    Job = {a}
    Worker = {w1, w2}
    Sweeper = {s1, s2}
    Key = {}
    Flow = {}
    MaxAttempts <- Twice
    ConcurrencyKey <- Unkeyed
    MaxConcurrency <- OneTwoTwo
    WorkflowId <- NoFlows
    Edge = {}
    Limit = 2
INVARIANT AvailableHasAttemptsLeft
CHECK_DEADLOCK FALSE
