SPECIFICATION Spec
CONSTANTS
    a = a
    b = b
    c = c
    d = d
    k = k
    f = f
    NoWorker = NoWorker
    NoKey = NoKey
    NoFlow = NoFlow
    Job = {a, b, c}
    Worker = {w1, w2}
    Sweeper = {s1}
    Key = {k}
    Flow = {}
    MaxAttempts <- Once
    ConcurrencyKey <- Keyed
    MaxConcurrency <- OneTwoTwo
    WorkflowId <- NoFlows
    Edge = {}
    Limit = 2
SYMMETRY WorkerSymmetry
INVARIANTS
    KeyedLimit
CHECK_DEADLOCK FALSE
