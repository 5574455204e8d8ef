--------------------------- MODULE RetentionProofs --------------------------
(***************************************************************************)
(* The safety properties of Retention for any jobs, workflows, keepers,    *)
(* windows and batch size.                                                 *)
(***************************************************************************)
EXTENDS Retention, TLAPS

\* The part of TypeOK the argument uses.
Typed ==
    /\ state \in [Job -> Finished \cup {"live", "none"}]
    /\ flows \subseteq Flow
    /\ at \in [Process -> {"asleep", "workflows"} \cup Finished]
    /\ pruning \in [Process -> BOOLEAN] /\ removed \in [Process -> BOOLEAN]
    /\ locked \in [Process -> SUBSET Job]

\* What a PRUNE holds belongs to no live workflow: it was quiet when the rows
\* were locked, and only an operator brings a workflow back to life.
LockedQuiet ==
    \A p \in Process : \A j \in locked[p] : \A u \in Job :
        WorkflowId[u] = WorkflowId[j] /\ WorkflowId[j] \in Flow \ handled => state[u] # "live"

\* An open PRUNE belongs to a process that is at work on jobs.
AtWork == \A p \in Process : pruning[p] => at[p] \in Finished

RetentionInv == Typed /\ LockedQuiet /\ AtWork /\ WholeWhileLive /\ EmptyFlowCollected

-----------------------------------------------------------------------------
\* A process at work on jobs goes on to jobs, to the workflows or to sleep, and
\* does not sleep when something was removed.
LEMMA AfterWork ==
  ASSUME NEW p \in Process, NEW full \in BOOLEAN, NEW slow \in BOOLEAN, NEW some \in BOOLEAN,
         at[p] \in Finished
  PROVE  /\ After(p, full, slow, some) \in {"asleep", "workflows"} \cup Finished
         /\ some => After(p, full, slow, some) # "asleep"
<1>1. Winds(p, some) \in {"asleep", "workflows"} /\ (some => Winds(p, some) # "asleep")
  BY DEF Winds
<1>2. Turns(p, slow, some) \in {"asleep", "workflows", "discarded"}
      /\ (some => Turns(p, slow, some) # "asleep")
  BY <1>1 DEF Turns
<1>3. CASE at[p] = "completed"
  BY <1>2, <1>3 DEF After, Finished
<1>4. CASE at[p] = "discarded"
  BY <1>1, <1>4 DEF After, Finished
<1> QED BY <1>3, <1>4 DEF Finished

\* At first every job is live and nobody prunes.
LEMMA RetentionStart == Init => RetentionInv
<1> SUFFICES ASSUME Init PROVE RetentionInv
  OBVIOUS
<1>1. Typed /\ LockedQuiet /\ AtWork
  BY DEF Init, Typed, LockedQuiet, AtWork, Finished
<1>2. WholeWhileLive
  BY DEF Init, WholeWhileLive, Members
<1>3. EmptyFlowCollected
  BY RetentionConfig DEF Init, EmptyFlowCollected, Empty, Members
<1> QED BY <1>1, <1>2, <1>3 DEF RetentionInv

\* A job that ends keeps the invariant: nothing is deleted or brought back.
LEMMA RetentionFinish ==
  ASSUME RetentionInv, NEW j \in Job, NEW s \in Finished, Finish(j, s) PROVE RetentionInv'
<1> USE DEF RetentionInv
<1>1. /\ state' = [i \in Job |-> IF i = j THEN s ELSE state[i]] /\ state[j] = "live"
      /\ UNCHANGED <<flows, at, pruning, locked, removed, handled, forgotten>>
  BY DEF Finish, Become, histories
<1>2. Typed' /\ AtWork'
  BY <1>1 DEF Typed, AtWork
<1>3. LockedQuiet'
  BY <1>1 DEF Typed, LockedQuiet, Finished
<1>4. WholeWhileLive'
  BY <1>1 DEF Typed, WholeWhileLive, Members, Finished
<1>5. EmptyFlowCollected'
  BY <1>1 DEF Typed, EmptyFlowCollected, Empty, Members, Finished
<1> QED BY <1>2, <1>3, <1>4, <1>5

\* An operator's retry keeps it: the workflows it touches are set apart.
LEMMA RetentionRetry ==
  ASSUME RetentionInv, NEW S \in SUBSET Job, RetryDiscarded(S) PROVE RetentionInv'
<1> USE DEF RetentionInv
<1>1. /\ state' = [i \in Job |-> IF i \in S THEN "live" ELSE state[i]]
      /\ handled' = handled \cup {f \in Flow : Members(f) \cap S # {}}
      /\ \A i \in S : state[i] = "discarded"
      /\ UNCHANGED <<flows, at, pruning, locked, removed, forgotten>>
  BY DEF RetryDiscarded, Become, Handles, DeadLetters
<1>2. Typed' /\ AtWork'
  BY <1>1 DEF Typed, AtWork
<1>3. LockedQuiet'
  BY <1>1 DEF Typed, LockedQuiet, Members
<1>4. WholeWhileLive'
  BY <1>1 DEF Typed, WholeWhileLive, Members
<1>5. EmptyFlowCollected'
  BY <1>1 DEF Typed, EmptyFlowCollected, Empty, Members
<1> QED BY <1>2, <1>3, <1>4, <1>5

\* A purge keeps it, in the same way.
LEMMA RetentionPurge ==
  ASSUME RetentionInv, NEW q, PurgeDiscarded(q) PROVE RetentionInv'
<1> USE DEF RetentionInv
<1>1. PICK S \in SUBSET Job :
        /\ state' = [i \in Job |-> IF i \in S THEN "none" ELSE state[i]]
        /\ handled' = handled \cup {f \in Flow : Members(f) \cap S # {}}
        /\ forgotten' = forgotten \cup {f \in flows : Empty(f)'}
        /\ UNCHANGED <<flows, at, pruning, locked, removed>>
  BY Zenon DEF PurgeDiscarded, Become, Handles
<1>2. Typed' /\ AtWork'
  BY <1>1 DEF Typed, AtWork
<1>3. LockedQuiet'
  BY <1>1 DEF Typed, LockedQuiet, Members
<1>4. WholeWhileLive'
  BY <1>1 DEF Typed, WholeWhileLive, Members
<1>5. EmptyFlowCollected'
  BY <1>1 DEF EmptyFlowCollected
<1> QED BY <1>2, <1>3, <1>4, <1>5

-----------------------------------------------------------------------------
\* Locking keeps it: only rows of quiet workflows are locked.
LEMMA RetentionLock == ASSUME RetentionInv, NEW p \in Process, Lock(p) PROVE RetentionInv'
<1> USE DEF RetentionInv
<1>1. PICK B \in Victims(p) : locked' = [locked EXCEPT ![p] = B]
  BY Zenon DEF Lock
<1>2. /\ UNCHANGED <<state, flows, at, removed, handled, forgotten>>
      /\ pruning' = [pruning EXCEPT ![p] = TRUE] /\ at[p] \in Finished
  BY DEF Lock, jobs, histories
<1>3. B \in SUBSET Job /\ \A j \in B : Quiet(p, j)
  BY <1>1 DEF Victims, Oldest, Unlocked
<1>4. Typed'
  BY <1>1, <1>2, <1>3 DEF Typed
<1>5. LockedQuiet'
  BY <1>1, <1>2, <1>3 DEF Typed, LockedQuiet, Quiet, Members
<1>6. AtWork'
  BY <1>2 DEF Typed, AtWork
<1>7. WholeWhileLive' /\ EmptyFlowCollected'
  BY <1>2 DEF WholeWhileLive, EmptyFlowCollected, Empty
<1> QED BY <1>4, <1>5, <1>6, <1>7

\* Deleting keeps it: no member of a live workflow goes, and a process that has
\* deleted something does not sleep before prune_workflows.
LEMMA RetentionDelete ==
  ASSUME RetentionInv, NEW p \in Process, NEW slow \in BOOLEAN, Delete(p, slow) PROVE RetentionInv'
<1> DEFINE B == locked[p]
           some == removed[p] \/ B # {}
           next == After(p, Cardinality(B) = PruneBatch, slow, some)
<1> USE DEF RetentionInv
<1>1. /\ state' = [j \in Job |-> IF j \in B THEN "none" ELSE state[j]]
      /\ locked' = [locked EXCEPT ![p] = {}] /\ pruning' = [pruning EXCEPT ![p] = FALSE]
      /\ removed' = [removed EXCEPT ![p] = some] /\ at' = [at EXCEPT ![p] = next]
      /\ UNCHANGED <<flows, handled, forgotten>>
  BY DEF Delete, Become, histories
<1>2. at[p] \in Finished
  BY DEF AtWork, Delete
<1>3. some \in BOOLEAN /\ (Cardinality(B) = PruneBatch) \in BOOLEAN
  BY DEF Typed
<1>4. next \in {"asleep", "workflows"} \cup Finished /\ (some => next # "asleep")
  BY <1>2, <1>3, AfterWork, Zenon
<1> HIDE DEF next
<1>5. Typed'
  BY <1>1, <1>3, <1>4 DEF Typed
<1>6. LockedQuiet'
  BY <1>1 DEF Typed, LockedQuiet
<1>7. AtWork'
  BY <1>1 DEF Typed, AtWork
<1>8. WholeWhileLive'
  BY <1>1 DEF Typed, WholeWhileLive, LockedQuiet, Members
<1>9. EmptyFlowCollected'
  <2> SUFFICES ASSUME NEW f \in flows, Empty(f)'
               PROVE  f \in forgotten \/ \E o \in Process : at'[o] # "asleep" /\ removed'[o]
    BY <1>1 DEF EmptyFlowCollected
  <2>1. CASE some
    BY <1>1, <1>4, <2>1, Zenon DEF Typed
  <2>2. CASE ~some
    <3>1. Empty(f)
      BY <1>1, <2>2 DEF Typed, Empty, Members
    <3>2. CASE f \in forgotten
      BY <3>2
    <3>3. CASE f \notin forgotten
      <4>1. PICK o \in Process : at[o] # "asleep" /\ removed[o]
        BY <3>1, <3>3 DEF EmptyFlowCollected
      <4>2. o # p
        BY <2>2, <4>1
      <4> QED BY <1>1, <4>1, <4>2 DEF Typed
    <3> QED BY <3>2, <3>3
  <2> QED BY <2>1, <2>2
<1> QED BY <1>5, <1>6, <1>7, <1>8, <1>9

\* prune_workflows keeps it: no empty row is left.
LEMMA RetentionWorkflows ==
  ASSUME RetentionInv, NEW p \in Process, PruneWorkflows(p) PROVE RetentionInv'
<1> USE DEF RetentionInv
<1>1. /\ flows' = {f \in flows : ~Empty(f)} /\ at[p] = "workflows"
      /\ at' = [at EXCEPT ![p] = "asleep"] /\ removed' = [removed EXCEPT ![p] = FALSE]
      /\ UNCHANGED <<state, pruning, locked, handled, forgotten>>
  BY DEF PruneWorkflows, jobs, histories
<1>2. Typed'
  BY <1>1 DEF Typed
<1>3. LockedQuiet' /\ WholeWhileLive'
  BY <1>1 DEF LockedQuiet, WholeWhileLive
<1>4. AtWork'
  BY <1>1 DEF Typed, AtWork, Finished
<1>5. EmptyFlowCollected'
  BY <1>1 DEF EmptyFlowCollected, Empty
<1> QED BY <1>2, <1>3, <1>4, <1>5

\* A process that stops keeps it: what it should have removed is on record.
LEMMA RetentionAborts == ASSUME RetentionInv, NEW p \in Process, Aborts(p) PROVE RetentionInv'
<1> USE DEF RetentionInv
<1>1. /\ at' = [at EXCEPT ![p] = "asleep"] /\ removed' = [removed EXCEPT ![p] = FALSE]
      /\ pruning' = [pruning EXCEPT ![p] = FALSE] /\ locked' = [locked EXCEPT ![p] = {}]
      /\ forgotten' = forgotten \cup {f \in flows : removed[p] /\ Empty(f)}
      /\ UNCHANGED <<state, flows, handled>>
  BY DEF Aborts, Ends, jobs
<1>2. Typed'
  BY <1>1 DEF Typed
<1>3. LockedQuiet' /\ WholeWhileLive'
  BY <1>1 DEF Typed, LockedQuiet, WholeWhileLive
<1>4. AtWork'
  BY <1>1 DEF Typed, AtWork
<1>5. EmptyFlowCollected'
  BY <1>1 DEF Typed, EmptyFlowCollected, Empty
<1> QED BY <1>2, <1>3, <1>4, <1>5

\* A PRUNE that fails in a tick keeps it: what was removed before still counts.
LEMMA RetentionFails ==
  ASSUME RetentionInv, NEW k \in Keeper, NEW slow \in BOOLEAN, PruneFails(k, slow)
  PROVE  RetentionInv'
<1> DEFINE next == After(k, FALSE, slow, removed[k])
<1> USE DEF RetentionInv
<1>1. /\ at' = [at EXCEPT ![k] = next] /\ pruning' = [pruning EXCEPT ![k] = FALSE]
      /\ locked' = [locked EXCEPT ![k] = {}] /\ at[k] \in Finished
      /\ UNCHANGED <<state, flows, removed, handled, forgotten>>
  BY DEF PruneFails, jobs, histories
<1>2. k \in Process /\ removed[k] \in BOOLEAN
  BY DEF Process, Typed
<1>3. next \in {"asleep", "workflows"} \cup Finished /\ (removed[k] => next # "asleep")
  BY <1>1, <1>2, AfterWork, Zenon
<1> HIDE DEF next
<1>4. Typed'
  BY <1>1, <1>2, <1>3 DEF Typed
<1>5. LockedQuiet' /\ WholeWhileLive'
  BY <1>1 DEF Typed, LockedQuiet, WholeWhileLive
<1>6. AtWork'
  BY <1>1 DEF Typed, AtWork
<1>7. EmptyFlowCollected'
  BY <1>1, <1>2, <1>3 DEF Typed, EmptyFlowCollected, Empty
<1> QED BY <1>4, <1>5, <1>6, <1>7

\* A process that begins keeps it.
LEMMA RetentionBegins ==
  ASSUME RetentionInv, NEW p \in Process, at' = [at EXCEPT ![p] = "completed"],
         UNCHANGED <<state, flows, pruning, locked, removed, handled, forgotten>>
  PROVE  RetentionInv'
<1> USE DEF RetentionInv
<1>1. Typed' /\ AtWork'
  BY DEF Typed, AtWork, Finished
<1>2. LockedQuiet' /\ WholeWhileLive'
  BY DEF LockedQuiet, WholeWhileLive
<1>3. EmptyFlowCollected'
  BY DEF Typed, EmptyFlowCollected, Empty
<1> QED BY <1>1, <1>2, <1>3

-----------------------------------------------------------------------------
\* Every step keeps the invariant.
LEMMA RetentionStep == RetentionInv /\ [Next]_vars => RetentionInv'
<1> SUFFICES ASSUME RetentionInv, [Next]_vars PROVE RetentionInv'
  OBVIOUS
<1>1. CASE UNCHANGED <<state, flows, at, pruning, locked, removed, handled, forgotten>>
  BY <1>1 DEF RetentionInv, Typed, LockedQuiet, AtWork, WholeWhileLive, EmptyFlowCollected, Empty
<1>2. CASE TimePasses \/ UNCHANGED vars
  BY <1>1, <1>2 DEF TimePasses, vars, jobs, histories
<1>3. ASSUME NEW command \in Command, PruneFinished(command) PROVE RetentionInv'
  <2>1. Cli \in Process
    BY DEF Process
  <2> QED BY <1>3, <2>1, RetentionBegins, Zenon DEF PruneFinished, jobs, histories
<1>4. ASSUME NEW p \in Process, Step(p) \/ Aborts(p) PROVE RetentionInv'
  BY <1>4, RetentionLock, RetentionDelete, RetentionWorkflows, RetentionAborts, Zenon DEF Step
<1>5. ASSUME NEW k \in Keeper, Wake(k) \/ Delete(k, TRUE) \/ \E slow \in BOOLEAN : PruneFails(k, slow)
      PROVE RetentionInv'
  <2>1. k \in Process
    BY DEF Process
  <2>2. CASE Wake(k)
    BY <2>1, <2>2, RetentionBegins, Zenon DEF Wake, jobs, histories
  <2>3. CASE Delete(k, TRUE)
    BY <2>1, <2>3, RetentionDelete, Zenon
  <2> QED BY <1>5, <2>2, <2>3, RetentionFails, Zenon
<1> QED
  BY <1>2, <1>3, <1>4, <1>5, RetentionFinish, RetentionRetry, RetentionPurge, Zenon DEF Next

\* The invariant holds in every reachable state.
LEMMA RetentionCorrect == Spec => []RetentionInv
  BY RetentionStart, RetentionStep, PTL DEF Spec

\* No PRUNE, in any batch size and by any number of workers and commands, takes
\* a member out of a workflow that is still waiting or running.
THEOREM WorkflowsStayWhole == Spec => []WholeWhileLive
<1>1. RetentionInv => WholeWhileLive
  BY DEF RetentionInv
<1> QED BY <1>1, RetentionCorrect, PTL

\* The condition `removed > 0` of retain loses no workflow row: whoever empties
\* one is still on its way to prune_workflows, or was stopped.
THEOREM EmptyRowsCollected == Spec => []EmptyFlowCollected
<1>1. RetentionInv => EmptyFlowCollected
  BY DEF RetentionInv
<1> QED BY <1>1, RetentionCorrect, PTL
=============================================================================
