---------------------------- MODULE WorkflowGraph ----------------------------
(***************************************************************************)
(* The constructors of python/gylo/_workflow.py.  A workflow is a number   *)
(* of nodes, 0 .. n-1 in insertion order, and the edges between them; what *)
(* a node runs plays no part in its composition.                           *)
(***************************************************************************)
EXTENDS Integers, FiniteSets
LOCAL INSTANCE SequencesExt
LOCAL INSTANCE FiniteSetsExt

Empty == [n |-> 0, edges |-> {}]
Signature == [n |-> 1, edges |-> {}]
Nodes(flow) == 0 .. flow.n - 1

Shift(edges, offset) == {<<e[1] + offset, e[2] + offset>> : e \in edges}
Absorb(flow, other) ==
  [n |-> flow.n + other.n, edges |-> flow.edges \cup Shift(other.edges, flow.n)]

Roots(flow) == {i \in Nodes(flow) : \A e \in flow.edges : e[2] # i}
Leaves(flow) == {i \in Nodes(flow) : \A e \in flow.edges : e[1] # i}
Dependencies(flow) ==
  [i \in Nodes(flow) |-> Cardinality({e \in flow.edges : e[2] = i})]

\* One round of chain's loop: every tail so far to every root of the step.
Follow(acc, step) ==
  LET offset == acc.flow.n
      joined == Absorb(acc.flow, step)
      heads == {offset + i : i \in Roots(step)}
  IN  IF step.n = 0 THEN acc
      ELSE [flow |-> [joined EXCEPT !.edges = @ \cup acc.tails \X heads],
            tails |-> {offset + i : i \in Leaves(step)}]

chain(steps) == FoldLeft(Follow, [flow |-> Empty, tails |-> {}], steps).flow
group(branches) == FoldLeft(Absorb, Empty, branches)
\* The code adds the callback to `body` itself when that is a Workflow; a
\* value stands for the graph at the moment of the call.
chord(body, callback) ==
  LET joined == Absorb(body, callback)
  IN  [joined EXCEPT !.edges = @ \cup Leaves(body) \X {body.n}]

(***************************************************************************)
(* What the constructors promise, in terms of paths.                       *)
(***************************************************************************)
Before(flow) ==
  LET through(k, paths) ==
        paths \cup {p \in Nodes(flow) \X Nodes(flow) :
                      <<p[1], k>> \in paths /\ <<k, p[2]>> \in paths}
  IN  FoldSet(through, flow.edges, Nodes(flow))

\* Edges lead from an earlier node to a later one, so a graph has no cycle
\* and every node can become due.
Forward(flow) ==
  \A e \in flow.edges : e[1] \in Nodes(flow) /\ e[2] \in Nodes(flow) /\ e[1] < e[2]

Graphs(size) ==
  UNION {[n : {n}, edges : SUBSET {e \in (0 .. n - 1) \X (0 .. n - 1) : e[1] < e[2]}]
           : n \in 0 .. size}

\* "Run each step after the one before it finishes": also across an empty
\* step, and whatever the shape of the steps.
ChainOrders(x, y) ==
  LET flow == chain(<<x, Empty, y>>)
      before == Before(flow)
  IN  /\ Forward(flow) /\ flow = chain(<<x, y>>)
      /\ \A i \in 0 .. x.n - 1, j \in x.n .. flow.n - 1 : <<i, j>> \in before

\* "Run every branch independently": no path from one branch to another,
\* and inside a branch the paths it had.
GroupSeparates(x, y) ==
  LET flow == group(<<x, y>>)
      before == Before(flow)
      within == Before(y)
  IN  /\ Forward(flow)
      /\ \A i \in 0 .. x.n - 1, j \in x.n .. flow.n - 1 : {<<i, j>>, <<j, i>>} \cap before = {}
      /\ \A i, j \in 0 .. y.n - 1 : (<<x.n + i, x.n + j>> \in before) = (<<i, j>> \in within)

\* "Run `callback` once everything in `body` has finished".
ChordCollects(x) ==
  LET flow == chord(x, Signature)
  IN  /\ Forward(flow)
      /\ \A i \in Nodes(x) : <<i, x.n>> \in Before(flow)
      /\ Leaves(flow) = {x.n}
      /\ Dependencies(flow)[x.n] = Cardinality(Leaves(x))

ASSUME Builders ==
  /\ \A x, y \in Graphs(3) : ChainOrders(x, y) /\ GroupSeparates(x, y)
  /\ \A x \in Graphs(4) : ChordCollects(x)

=============================================================================
