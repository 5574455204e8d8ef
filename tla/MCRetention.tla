---------------------------- MODULE MCRetention ----------------------------
EXTENDS Retention
CONSTANTS a, b, c, f, q1, q2
Flows == [j \in Job |-> IF j = c THEN NoFlow ELSE f]
Queues == [j \in Job |-> IF j = b THEN q2 ELSE q1]
Commands ==
    {[older_than |-> 1, queue |-> q1, discarded |-> TRUE],
     [older_than |-> 1, queue |-> AnyQueue, discarded |-> FALSE]}
============================================================================
