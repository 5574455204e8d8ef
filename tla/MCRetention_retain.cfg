SPECIFICATION FairSpec
CONSTANTS
    a = a
    b = b
    c = c
    f = f
    q1 = q1
    q2 = q2
    NoFlow = NoFlow
    AnyQueue = AnyQueue
    Cli = Cli
    Job = {a, b, c}
    Flow = {f}
    WorkflowId <- Flows
    Queue = {q1, q2}
    QueueOf <- Queues
    Keeper = {k1}
    RetainCompleted = 0
    RetainDiscarded = 1
    MaxAge = 1
    PruneBatch = 1
    None = None
    Command <- Commands
    MaxFaults = 1
INVARIANTS
    WholeWhileLive
    EmptyFlowCollected
PROPERTIES
    BacklogWorkedOff
CHECK_DEADLOCK FALSE
