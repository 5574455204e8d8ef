SPECIFICATION FairSpec
CONSTANTS
    n1 = n1
    often = often
    seldom = seldom
    once = once
    w1 = w1
    w2 = w2
    Name = {n1}
    Expression = {often, seldom, once}
    Occurrence <- Expressions
    Worker = {w1, w2}
    Release <- Releases
    Skew <- Apart
    DueLimit = 1
    MaxTime = 2
INVARIANTS
    TypeOK
    OccurrenceOnce
    NextMatchesExpression
    NothingSkipped
PROPERTIES
    PausedNeverFires
    DueFires
CHECK_DEADLOCK FALSE
