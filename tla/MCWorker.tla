------------------------------ MODULE MCWorker ------------------------------
(***************************************************************************)
(* Instances of Worker.                                                    *)
(***************************************************************************)
EXTENDS Worker, Startup

CONSTANTS a, b, c, k, w1, w2, p1, p2

NoFlows == [j \in Job |-> NoFlow]
Unkeyed == [j \in Job |-> NoKey]
OnlyCKeyed == [j \in Job |-> IF j = c THEN k ELSE NoKey]
Once == [j \in Job |-> 1]
Twice == [j \in Job |-> 2]

OneEach == [w \in Worker |-> IF w = w1 THEN p1 ELSE p2]
Together == [w \in Worker |-> p1]

FirstOverruns == Job \X {1}

Retries == [j \in Job |-> {"success", "retry"}]
Mixed == [j \in Job |-> IF j = b THEN {"result", "terminal", "unreadable"} ELSE {"success", "retry"}]
=============================================================================
