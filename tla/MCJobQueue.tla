----------------------------- MODULE MCJobQueue -----------------------------
(***************************************************************************)
(* Instances of JobQueue.  `FanIn` is the graph a, b -> c -> d as the      *)
(* builder makes it; `Keyed` are jobs that share a concurrency key.        *)
(***************************************************************************)
EXTENDS QueueLifecycle, WorkflowGraph, TLC

CONSTANTS a, b, c, d, k, f

Node == <<a, b, c, d>>
FanIn == chain(<<chord(group(<<Signature, Signature>>), Signature), Signature>>)
FanInEdge == {<<Node[e[1] + 1], Node[e[2] + 1]>> : e \in FanIn.edges}
InFlow == [j \in Job |-> f]
NoFlows == [j \in Job |-> NoFlow]
Unkeyed == [j \in Job |-> NoKey]
Keyed == [j \in Job |-> k]
Once == [j \in Job |-> 1]
Twice == [j \in Job |-> 2]
OneTwoTwo == [j \in Job |-> IF j = a THEN 1 ELSE 2]

WorkerSymmetry == Permutations(Worker)
=============================================================================
