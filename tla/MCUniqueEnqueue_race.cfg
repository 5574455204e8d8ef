SPECIFICATION Spec
CONSTANTS
    c1 = c1
    c2 = c2
    c3 = c3
    None = None
    Pending = Pending
    Caller = {c1, c2, c3}
    MaxJobs = 3
SYMMETRY Callers
INVARIANTS
    OneLive
PROPERTIES
    UnansweredOnlyInARace
CHECK_DEADLOCK FALSE
