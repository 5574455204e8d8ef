SPECIFICATION Spec
CONSTANTS
    a = a
    b = b
    c = c
    d = d
    k = k
    f = f
    NoWorker = NoWorker
    NoKey = NoKey
    NoFlow = NoFlow
    Job = {a, b, c, d}
    Worker = {w1}
    Sweeper = {s1}
    Key = {}
    Flow = {f}
    MaxAttempts <- Twice
    ConcurrencyKey <- Unkeyed
    MaxConcurrency <- Once
    WorkflowId <- InFlow
    Edge <- FanInEdge
    Limit = 2
INVARIANT DeadLetterCascades
CHECK_DEADLOCK FALSE
