--------------------------- MODULE JobQueueProofs ---------------------------
(***************************************************************************)
(* Proofs, for every set of jobs, workers, sweepers, keys and workflows, of *)
(* the safety properties of JobQueue that its runs check on instances.     *)
(*                                                                         *)
(* The second half is admission control, and with it the refinement:       *)
(* JobQueue implements JobLifecycle.  Every statement is, on the states of *)
(* the jobs and the history of completions, a step of the life of a job or *)
(* no step at all.                                                         *)
(***************************************************************************)
EXTENDS QueueLifecycle, TLAPS

-----------------------------------------------------------------------------
(***************************************************************************)
(* Statements that need no counting                                        *)
(***************************************************************************)
\* PRUNE removes only rows that are finished when it takes them.
LEMMA PrunesFinished ==
  ASSUME TypeOK, NEW s \in Sweeper, NEW S \in SUBSET Job, PruneApply(s, S)
  PROVE  \A j \in S : state[j] \in Finished
  <1> TAKE j \in S
  <1>1. <<j, state[j]>> \in victims[s] /\ victims[s] \in SUBSET (Job \X Finished)
    BY Zenon DEF PruneApply, TypeOK
  <1>2. <<j, state[j]>> \in Job \X Finished
    BY <1>1, Zenon
  <1> QED
    BY <1>2, Zenon

\* The rows a statement settles or hands back lose both columns, whichever
\* version of the row the statement's snapshot showed.
LEMMA NextLease == TypeOK /\ LeaseIffRunning /\ [Next]_vars => LeaseIffRunning'
  <1> SUFFICES ASSUME TypeOK, LeaseIffRunning, [Next]_vars PROVE LeaseIffRunning'
    BY Zenon
  <1> USE NullsDistinct DEF TypeOK, LeaseIffRunning, rows, snapshots
  <1>1. ASSUME NEW j \in Job, NEW when \in {"due", "later"}, Enqueue(j, when)
        PROVE  LeaseIffRunning'
    BY <1>1, Zenon DEF Enqueue
  <1>2. ASSUME NEW f \in Flow, NEW when \in {"due", "later"}, EnqueueWorkflow(f, when)
        PROVE  LeaseIffRunning'
    BY <1>2, Zenon DEF EnqueueWorkflow, Assign
  <1>3. ASSUME NEW j \in Job, ComesDue(j) \/ LeaseExpires(j) PROVE LeaseIffRunning'
    BY <1>3, Zenon DEF ComesDue, LeaseExpires
  <1>4. ASSUME NEW w \in Worker, NEW S \in SUBSET Job, Lease(w, S) PROVE LeaseIffRunning'
    BY <1>4, Zenon DEF Lease, Assign
  <1>5. ASSUME NEW w \in Worker, NEW L \in SUBSET Job, FetchKeyedCommit(w, L)
        PROVE  LeaseIffRunning'
    <2>1. PICK n \in [L -> 1..Cardinality(L)] : Lease(w, Admitted(w, L, n))
      BY <1>5, Zenon DEF FetchKeyedCommit
    <2> QED
      BY <1>4, <2>1, Zenon DEF Admitted
  <1>6. ASSUME NEW w \in Worker, FetchKeyedBegin(w) \/ FetchKeyedAbort(w)
        PROVE  LeaseIffRunning'
    BY <1>6, Zenon DEF FetchKeyedBegin, FetchKeyedAbort
  <1>7. ASSUME NEW w \in Worker, NEW S \in SUBSET Job, Complete(w, S) PROVE LeaseIffRunning'
    BY <1>7, Zenon DEF Complete, Assign
  <1>8. ASSUME NEW w \in Worker, NEW S \in SUBSET Job, DiscardMany(w, S) PROVE LeaseIffRunning'
    BY <1>8, Zenon DEF DiscardMany, Assign, Held
  <1>9. ASSUME NEW w \in Worker, NEW S \in SUBSET Job, RetryMany(w, S) PROVE LeaseIffRunning'
    BY <1>9, Zenon DEF RetryMany, Assign
  <1>10. ASSUME NEW w \in Worker, NEW S \in SUBSET Job, RenewLeases(w, S) \/ AbandonLeases(w, S)
         PROVE  LeaseIffRunning'
    BY <1>10 DEF RenewLeases, AbandonLeases, Assign, Held
  <1>11. ASSUME NEW s \in Sweeper, ReclaimFails(s) \/ \E E \in SUBSET Job : ReclaimScan(s, E)
         PROVE  LeaseIffRunning'
    BY <1>11, Zenon DEF ReclaimScan, ReclaimFails
  <1>12. ASSUME NEW s \in Sweeper, ReclaimApply(s) PROVE LeaseIffRunning'
    BY <1>12, Zenon DEF ReclaimApply, Assign
  <1>13. ASSUME NEW S \in SUBSET Job, Cancel(S) \/ RetryDiscarded(S) PROVE LeaseIffRunning'
    BY <1>13 DEF Cancel, RetryDiscarded, Assign
  <1>14. ASSUME NEW S \in SUBSET Job, PurgeDiscarded(S) PROVE LeaseIffRunning'
    BY <1>14, Zenon DEF PurgeDiscarded, Delete, Assign
  <1>15. ASSUME NEW s \in Sweeper, NEW S \in SUBSET Job, PruneApply(s, S) PROVE LeaseIffRunning'
    BY <1>15, PrunesFinished, Zenon DEF PruneApply, Finished, Delete, Assign
  <1>16. ASSUME NEW s \in Sweeper, NEW S \in SUBSET Job, NEW states \in Pruned,
                PruneScan(s, S, states)
         PROVE  LeaseIffRunning'
    BY <1>16, Zenon DEF PruneScan
  <1>17. ASSUME NEW w \in Worker, NEW S \in SUBSET Job, FetchUnkeyed(w, S) PROVE LeaseIffRunning'
    BY <1>4, <1>17, Zenon DEF FetchUnkeyed
  <1>18. ASSUME NEW C, Disconnect(C) PROVE LeaseIffRunning'
    BY <1>18, Zenon DEF Disconnect
  <1>19. CASE UNCHANGED vars
    BY <1>19, Zenon DEF vars
  <1> HIDE DEF TypeOK, LeaseIffRunning, rows, snapshots
  <1> QED
    BY <1>1, <1>2, <1>3, <1>5, <1>6, <1>7, <1>8, <1>9, <1>10, <1>11, <1>12, <1>13,
       <1>14, <1>15, <1>16, <1>17, <1>18, <1>19, Zenon DEF Next

\* A statement that neither inserts, completes nor deletes keeps FlowInv when it
\* starts, discards or unparks only jobs whose parents have all completed.
LEMMA FlowFrame ==
  ASSUME TypeOK, FlowInv, UNCHANGED <<pending, edges, done>>,
         \A j \in Job : state'[j] # state[j] =>
            /\ state[j] \in {"available", "running", "discarded"}
            /\ state'[j] \in {"available", "running", "discarded", "cancelled"},
         \A j \in Job :
            \/ state'[j] \in {"running", "discarded"} /\ state'[j] # state[j]
            \/ state'[j] = "available" /\ scheduled'[j] # "infinity"
               /\ <<state'[j], scheduled'[j]>> # <<state[j], scheduled[j]>>
            => Parents(j) \subseteq done,
         \A j \in Job : scheduled'[j] = "infinity" => scheduled[j] = "infinity"
  PROVE  FlowInv'
  <1>1. \A j \in Job : /\ Exists(j)' <=> Exists(j)
                       /\ (state'[j] = "absent") <=> (state[j] = "absent")
    BY Zenon DEF Exists
  <1>2. PendingDepsExact'
    BY <1>1, Zenon DEF FlowInv, PendingDepsExact, Parents
  <1>3. NoEarlyStart' /\ ParkedUntilReleased' /\ DoneIsHistory'
    BY Zenon DEF FlowInv, NoEarlyStart, ParkedUntilReleased, DoneIsHistory, Parents
  <1>4. ParkedHasParent' /\ AncestorsDone'
    BY <1>1, Zenon DEF FlowInv, ParkedHasParent, AncestorsDone, Parents
  <1>5. FlowsWhole'
    BY <1>1, EdgesInsideAWorkflow, Zenon DEF FlowInv, FlowsWhole
  <1> QED
    BY <1>2, <1>3, <1>4, <1>5, Zenon DEF FlowInv

\* A job outside every workflow has no parents.
LEMMA NoFlowNoParents ==
  ASSUME NEW j \in Job, WorkflowId[j] = NoFlow
  PROVE  Parents(j) = {}
  BY EdgesInsideAWorkflow, Zenon DEF Parents

\* Deleting rows, with their edges, changes no other row's counter.
LEMMA FlowDelete ==
  ASSUME TypeOK, FlowInv, NEW S \in SUBSET Job, Delete(S), \A j \in S : Exists(j)
  PROVE  FlowInv'
  <1>1. \A e \in Edge : e[1] \in Job /\ e[2] \in Job
    BY EdgesInsideAWorkflow, Zenon
  <1>2. PendingDepsExact' /\ NoEarlyStart' /\ DoneIsHistory' /\ ParkedUntilReleased'
    BY Zenon DEF TypeOK, FlowInv, Delete, Assign, PendingDepsExact, NoEarlyStart, DoneIsHistory,
           ParkedUntilReleased, Parents, Exists
  <1>3. ParkedHasParent' /\ AncestorsDone'
    BY Zenon DEF TypeOK, FlowInv, Delete, Assign, ParkedHasParent, AncestorsDone, Parents, Exists
  <1>4. FlowsWhole'
    BY <1>1, Zenon DEF TypeOK, FlowInv, Delete, Assign, FlowsWhole, Exists
  <1> QED
    BY <1>2, <1>3, <1>4, Zenon DEF FlowInv

-----------------------------------------------------------------------------
(***************************************************************************)
(* Types and leases                                                        *)
(***************************************************************************)
INSTANCE FiniteSetTheorems

\* A set of rows is finite, and its size is a natural number.
LEMMA JobSubset ==
  ASSUME NEW S \in SUBSET Job
  PROVE  IsFiniteSet(S) /\ Cardinality(S) \in Nat
  BY JobsFinite, FS_Subset, FS_CardinalityType, Zenon

\* The empty table has the column types.
LEMMA InitType == Init => TypeOK
  BY ColumnTypes DEF Init, TypeOK, States, NoSweep, NoCount

\* What Lease, the UPDATE that both fetches end in, does to the row columns.
LEMMA LeaseType ==
  ASSUME TypeOK, NEW w \in Worker, NEW S \in SUBSET Job, Lease(w, S)
  PROVE  /\ state' \in [Job -> States]
         /\ attempt' \in [Job -> Nat] /\ \A j \in Job : attempt'[j] <= MaxAttempts[j]
         /\ locked_by' \in [Job -> Worker \cup {NoWorker}]
         /\ lease' \in [Job -> {"none", "live", "expired"}]
         /\ UNCHANGED <<scheduled, pending, edges, done>>
  BY ColumnTypes DEF TypeOK, Lease, Assign, States

\* Every statement keeps the column types and attempt <= max_attempts.
LEMMA NextType == TypeOK /\ [Next]_vars => TypeOK'
  <1> SUFFICES ASSUME TypeOK, [Next]_vars PROVE TypeOK'
    BY Zenon
  <1> USE DEF TypeOK, rows, snapshots
  <1>1. ASSUME NEW j \in Job, NEW when \in {"due", "later"}, Enqueue(j, when) PROVE TypeOK'
    BY <1>1, Zenon DEF Enqueue, States
  <1>2. ASSUME NEW j \in Job, ComesDue(j) PROVE TypeOK'
    BY <1>2, Zenon DEF ComesDue
  <1>3. ASSUME NEW j \in Job, LeaseExpires(j) PROVE TypeOK'
    BY <1>3, Zenon DEF LeaseExpires
  <1>4. ASSUME NEW f \in Flow, NEW when \in {"due", "later"}, EnqueueWorkflow(f, when)
        PROVE  TypeOK'
    <2>1. \A j \in Job : Cardinality(Parents(j)) \in Nat
      BY JobSubset, Zenon DEF Parents
    <2>2. pending' \in [Job -> Int]
      BY <1>4, <2>1 DEF EnqueueWorkflow
    <2> QED
      BY <1>4, <2>2, Zenon DEF EnqueueWorkflow, Assign, States
  <1>5. ASSUME NEW w \in Worker, FetchKeyedBegin(w) PROVE TypeOK'
    <2>1. \A k \in Key : Cardinality(Running(k)) \in Nat
      BY JobSubset, Zenon DEF Running
    <2> QED
      BY <1>5, <2>1, Zenon DEF FetchKeyedBegin
  <1>6. ASSUME NEW w \in Worker, FetchKeyedAbort(w) PROVE TypeOK'
    BY <1>6, Zenon DEF FetchKeyedAbort, NoCount
  <1>7. ASSUME NEW w \in Worker, NEW S \in SUBSET Job, FetchUnkeyed(w, S) PROVE TypeOK'
    BY <1>7, LeaseType, Zenon DEF FetchUnkeyed
  <1>8. ASSUME NEW w \in Worker, NEW L \in SUBSET Job, FetchKeyedCommit(w, L) PROVE TypeOK'
    <2>1. PICK n \in [L -> 1..Cardinality(L)] : Lease(w, Admitted(w, L, n))
      BY <1>8, Zenon DEF FetchKeyedCommit
    <2>2. Admitted(w, L, n) \in SUBSET Job
      BY Zenon DEF Admitted
    <2> QED
      BY <1>8, <2>1, <2>2, LeaseType, Zenon DEF FetchKeyedCommit, NoCount
  <1>9. ASSUME NEW w \in Worker, NEW S \in SUBSET Job, Complete(w, S) PROVE TypeOK'
    <2>1. \A c \in Job : Released(S, c) \in Int
      <3> TAKE c \in Job
      <3>1. {p \in S : <<p, c>> \in edges} \in SUBSET Job
        BY Zenon
      <3>2. Cardinality({p \in S : <<p, c>> \in edges}) \in Nat
        BY <3>1, JobSubset, Zenon
      <3> QED
        BY <3>2 DEF Released
    <2>2. pending' \in [Job -> Int]
      BY <1>9, <2>1 DEF Complete
    <2> QED
      BY <1>9, <2>2, Zenon DEF Complete, Assign, States
  <1>10. ASSUME NEW w \in Worker, NEW S \in SUBSET Job, DiscardMany(w, S) PROVE TypeOK'
    BY <1>10, Zenon DEF DiscardMany, Assign, States
  <1>11. ASSUME NEW w \in Worker, NEW S \in SUBSET Job, RetryMany(w, S) PROVE TypeOK'
    BY <1>11, Zenon DEF RetryMany, Assign, States
  <1>12. ASSUME NEW w \in Worker, NEW S \in SUBSET Job, RenewLeases(w, S) PROVE TypeOK'
    BY <1>12, Zenon DEF RenewLeases, Assign
  <1>13. ASSUME NEW w \in Worker, NEW S \in SUBSET Job, AbandonLeases(w, S) PROVE TypeOK'
    BY <1>13, Zenon DEF AbandonLeases, Assign
  <1>14. ASSUME NEW s \in Sweeper, NEW E \in SUBSET Job, ReclaimScan(s, E) PROVE TypeOK'
    BY <1>14, Zenon DEF ReclaimScan
  <1>15. ASSUME NEW s \in Sweeper, ReclaimApply(s) PROVE TypeOK'
    BY <1>15, Zenon DEF ReclaimApply, Assign, States, NoSweep
  <1>16. ASSUME NEW s \in Sweeper, ReclaimFails(s) PROVE TypeOK'
    BY <1>16, Zenon DEF ReclaimFails, NoSweep
  <1>17. ASSUME NEW S \in SUBSET Job, Cancel(S) PROVE TypeOK'
    BY <1>17, Zenon DEF Cancel, Assign, States
  <1>18. ASSUME NEW S \in SUBSET Job, RetryDiscarded(S) PROVE TypeOK'
    BY <1>18, ColumnTypes DEF RetryDiscarded, Assign, States
  <1>19. ASSUME NEW S \in SUBSET Job, PurgeDiscarded(S) PROVE TypeOK'
    BY <1>19, Zenon DEF PurgeDiscarded, Delete, Assign, States
  <1>20. ASSUME NEW s \in Sweeper, NEW S \in SUBSET Job, NEW states \in Pruned,
                PruneScan(s, S, states)
         PROVE  TypeOK'
    <2>1. {<<j, state[j]>> : j \in S} \subseteq Job \X Finished
      BY <1>20 DEF PruneScan, Pruned, Finished
    <2> QED
      BY <1>20, <2>1, Zenon DEF PruneScan
  <1>21. ASSUME NEW s \in Sweeper, NEW S \in SUBSET Job, PruneApply(s, S) PROVE TypeOK'
    BY <1>21, Zenon DEF PruneApply, Delete, Assign, States
  <1>22. ASSUME NEW C, Disconnect(C) PROVE TypeOK'
    BY <1>22, Zenon DEF Disconnect, NoSweep, NoCount
  <1>23. CASE UNCHANGED vars
    BY <1>23, Zenon DEF vars
  <1> QED
    BY <1>1, <1>2, <1>3, <1>4, <1>5, <1>6, <1>7, <1>8, <1>9, <1>10, <1>11, <1>12, <1>13,
       <1>14, <1>15, <1>16, <1>17, <1>18, <1>19, <1>20, <1>21, <1>22, <1>23, Zenon DEF Next

\* Type correctness, the CHECK attempt <= max_attempts included: under any
\* sequence of statements no row ever holds a value its column cannot.
THEOREM TypeCorrect == Spec => []TypeOK
  BY InitType, NextType, PTL DEF Spec

\* A row has a holder and a lease exactly while it is running.
THEOREM LeaseCorrect == Spec => []LeaseIffRunning
  <1>1. Init => LeaseIffRunning
    BY DEF Init, LeaseIffRunning
  <1> QED
    BY <1>1, TypeCorrect, NextLease, PTL DEF Spec

-----------------------------------------------------------------------------
(***************************************************************************)
(* Workflows: FlowInv is inductive                                         *)
(***************************************************************************)
\* Inserting a single job (ENQUEUE) leaves every workflow's bookkeeping alone.
LEMMA FlowEnqueue ==
  ASSUME TypeOK, FlowInv, NEW j \in Job, NEW when \in {"due", "later"}, Enqueue(j, when)
  PROVE  FlowInv'
  <1>1. Parents(j) = {} /\ Cardinality({}) = 0
    BY NoFlowNoParents, FS_EmptySet, Zenon DEF Enqueue
  <1>2. PendingDepsExact'
    <2> SUFFICES ASSUME NEW c \in Job, Exists(c)' PROVE pending[c] = Cardinality(Parents(c) \ done)
      BY Zenon DEF PendingDepsExact, Enqueue, Parents
    <2>1. CASE c = j
      <3>1. Parents(c) \ done = {} /\ pending[c] = 0
        BY <1>1, <2>1, Zenon DEF FlowInv, FlowsWhole, Enqueue
      <3> QED
        BY <1>1, <3>1, Zenon
    <2>2. CASE c # j
      BY <2>2, Zenon DEF TypeOK, FlowInv, PendingDepsExact, Enqueue, Exists
    <2> QED
      BY <2>1, <2>2, Zenon
  <1>3. NoEarlyStart' /\ DoneIsHistory'
    BY Zenon DEF TypeOK, FlowInv, Enqueue, NoEarlyStart, DoneIsHistory, Parents
  <1>4. ParkedUntilReleased' /\ ParkedHasParent' /\ AncestorsDone'
    BY <1>1 DEF TypeOK, FlowInv, Enqueue, ParkedUntilReleased, ParkedHasParent, AncestorsDone, Exists, Parents
  <1>5. FlowsWhole'
    <2>1. \A e \in Edge : e[1] # j /\ e[2] # j
      BY EdgesInsideAWorkflow, Zenon DEF Enqueue
    <2>2. \A e \in Edge : e[1] \in Job /\ e[2] \in Job
      BY EdgesInsideAWorkflow, Zenon
    <2> QED
      BY <2>1, <2>2 DEF TypeOK, FlowInv, Enqueue, FlowsWhole, Exists
  <1> QED
    BY <1>2, <1>3, <1>4, <1>5, Zenon DEF FlowInv

\* A workflow is inserted whole: every counter starts at the number of parents,
\* none of which can have completed yet.
LEMMA FlowEnqueueWorkflow ==
  ASSUME TypeOK, FlowInv, NEW f \in Flow, NEW when \in {"due", "later"}, EnqueueWorkflow(f, when)
  PROVE  FlowInv'
  <1>1. \A e \in Edge : /\ e[1] \in Job /\ e[2] \in Job
                        /\ e[1] \in Members(f) <=> e[2] \in Members(f)
    BY EdgesInsideAWorkflow, Zenon DEF Members
  <1>2. \A c \in Members(f) : c \in Job /\ state[c] = "absent" /\ state'[c] = "available"
    BY Zenon DEF EnqueueWorkflow, Assign, Members
  <1>3. \A c \in Job \ Members(f) : state'[c] = state[c] /\ pending'[c] = pending[c]
                                   /\ scheduled'[c] = scheduled[c]
    BY Zenon DEF EnqueueWorkflow, Assign
  <1>4. \A c \in Members(f) : Parents(c) \ done = Parents(c)
    BY <1>1, <1>2, Zenon DEF Parents, FlowInv, DoneIsHistory
  <1>5. PendingDepsExact'
    BY <1>2, <1>3, <1>4, Zenon DEF FlowInv, PendingDepsExact, EnqueueWorkflow, Exists, Parents
  <1>6. NoEarlyStart' /\ DoneIsHistory'
    BY <1>2, <1>3, Zenon DEF FlowInv, NoEarlyStart, DoneIsHistory, EnqueueWorkflow, Parents
  <1>7. ParkedUntilReleased'
    <2> SUFFICES ASSUME NEW c \in Job, state'[c] = "available", scheduled'[c] # "infinity"
                 PROVE  Parents(c) \subseteq done
      BY Zenon DEF ParkedUntilReleased, EnqueueWorkflow, Parents
    <2>1. CASE c \in Members(f)
      BY <2>1, Zenon DEF EnqueueWorkflow
    <2>2. CASE c \notin Members(f)
      BY <2>2, <1>3, Zenon DEF FlowInv, ParkedUntilReleased
    <2> QED
      BY <2>1, <2>2, Zenon
  <1>8. ParkedHasParent' /\ AncestorsDone'
    <2> SUFFICES ASSUME NEW c \in Job, Exists(c)', scheduled'[c] = "infinity"
                 PROVE  ~(Parents(c) \subseteq done)
      BY Zenon DEF FlowInv, ParkedHasParent, AncestorsDone, EnqueueWorkflow, Parents
    <2>1. CASE c \in Members(f)
      BY <2>1, <1>4, Zenon DEF EnqueueWorkflow
    <2>2. CASE c \notin Members(f)
      BY <2>2, <1>3, Zenon DEF FlowInv, ParkedHasParent, Exists
    <2> QED
      BY <2>1, <2>2, Zenon
  <1>9. FlowsWhole'
    <2>1. \A e \in Edge : e \in edges' <=> Exists(e[1])' /\ Exists(e[2])'
      <3> SUFFICES ASSUME NEW e \in Edge
                   PROVE  e \in edges' <=> Exists(e[1])' /\ Exists(e[2])'
        BY Zenon
      <3>1. CASE e[2] \in Members(f)
        BY <1>1, <1>2, <3>1, Zenon DEF EnqueueWorkflow, Exists
      <3>2. CASE e[2] \notin Members(f)
        BY <1>1, <1>3, <3>2, Zenon DEF EnqueueWorkflow, Exists, FlowInv, FlowsWhole
      <3> QED
        BY <3>1, <3>2, Zenon
    <2>2. \A i, j \in Job : WorkflowId[i] = WorkflowId[j] /\ WorkflowId[i] # NoFlow =>
             (state'[i] = "absent" <=> state'[j] = "absent")
      BY <1>2, <1>3 DEF FlowInv, FlowsWhole, Members
    <2>3. \A j \in Job : state'[j] = "absent" => pending'[j] = 0
      BY <1>2, <1>3, Zenon DEF FlowInv, FlowsWhole
    <2> QED
      BY <2>1, <2>2, <2>3, Zenon DEF FlowsWhole
  <1> QED
    BY <1>5, <1>6, <1>7, <1>8, <1>9, Zenon DEF FlowInv

\* Counting a batch S of finished parents out of the open ones.
LEMMA CountDown ==
  ASSUME NEW P \in SUBSET Job, NEW S \in SUBSET Job, NEW D \in SUBSET Job, S \cap D = {}
  PROVE  /\ Cardinality(P \ (D \cup S)) = Cardinality(P \ D) - Cardinality(P \cap S)
         /\ Cardinality(P \cap S) \in Nat
         /\ Cardinality(P \ (D \cup S)) = 0 <=> P \subseteq D \cup S
         /\ Cardinality(P \cap S) = 0 <=> P \cap S = {}
  <1>1. IsFiniteSet(P \ (D \cup S)) /\ IsFiniteSet(P \cap S) /\ IsFiniteSet(P \ D)
    BY JobSubset, Zenon
  <1>2. /\ Cardinality(P \ (D \cup S)) \in Nat
        /\ Cardinality(P \cap S) \in Nat
        /\ Cardinality(P \ D) \in Nat
    BY <1>1, FS_CardinalityType, Zenon
  <1>3. (P \ (D \cup S)) \cup (P \cap S) = P \ D /\ (P \ (D \cup S)) \cap (P \cap S) = {}
    BY Zenon
  <1>4. Cardinality(P \ D) = Cardinality(P \ (D \cup S)) + Cardinality(P \cap S) - Cardinality({})
    BY <1>1, <1>3, FS_Union
  <1>5. Cardinality({}) = 0
    BY FS_EmptySet, Zenon
  <1>6. /\ Cardinality(P \ (D \cup S)) = 0 <=> P \ (D \cup S) = {}
        /\ Cardinality(P \cap S) = 0 <=> P \cap S = {}
    BY <1>1, FS_EmptySet, Zenon
  <1>7. P \ (D \cup S) = {} <=> P \subseteq D \cup S
    BY Zenon
  <1>8. Cardinality(P \ (D \cup S)) = Cardinality(P \ D) - Cardinality(P \cap S)
    BY <1>2, <1>4, <1>5
  <1> QED
    BY <1>2, <1>6, <1>7, <1>8, Zenon

\* COMPLETE: every open child of the batch is counted down by the number of its
\* parents in the batch, and a child at zero has no parent left to wait for.
LEMMA FlowComplete ==
  ASSUME TypeOK, FlowInv, NEW w \in Worker, NEW S \in SUBSET Job, Complete(w, S)
  PROVE  FlowInv'
  <1>1. \A p \in S : state[p] = "running" /\ p \notin done /\ Exists(p)
    BY Zenon DEF TypeOK, FlowInv, Complete, Held, DoneIsHistory, Exists
  <1>2. done' = done \cup S /\ S \cap done = {}
    BY <1>1, Zenon DEF Complete
  <1>3. ASSUME NEW c \in Job, Exists(c)
        PROVE  Released(S, c) = Cardinality(Parents(c) \cap S)
    <2>1. {p \in S : <<p, c>> \in edges} = Parents(c) \cap S
      BY <1>1, <1>3, Zenon DEF TypeOK, FlowInv, FlowsWhole, Parents
    <2> QED
      BY <2>1, Zenon DEF Released
  <1>4. ASSUME NEW c \in Job, Exists(c)
        PROVE  /\ Cardinality(Parents(c) \ (done \cup S)) = pending[c] - Released(S, c)
               /\ Released(S, c) \in Nat
               /\ pending[c] - Released(S, c) = 0 <=> Parents(c) \subseteq done \cup S
               /\ Released(S, c) = 0 <=> Parents(c) \cap S = {}
    <2>1. Parents(c) \in SUBSET Job /\ done \in SUBSET Job /\ S \cap done = {}
      BY <1>2, Zenon DEF TypeOK, Parents
    <2>2. /\ Cardinality(Parents(c) \ (done \cup S))
               = Cardinality(Parents(c) \ done) - Cardinality(Parents(c) \cap S)
          /\ Cardinality(Parents(c) \cap S) \in Nat
          /\ Cardinality(Parents(c) \ (done \cup S)) = 0 <=> Parents(c) \subseteq done \cup S
          /\ Cardinality(Parents(c) \cap S) = 0 <=> Parents(c) \cap S = {}
      BY ONLY S \in SUBSET Job, <2>1, CountDown, Zenon
    <2>3. pending[c] = Cardinality(Parents(c) \ done)
      BY <1>4, Zenon DEF FlowInv, PendingDepsExact
    <2> QED
      BY <1>3, <1>4, <2>2, <2>3, Zenon
  <1>5. \A c \in Job : Exists(c)' <=> Exists(c)
    BY <1>1, Zenon DEF TypeOK, Complete, Assign, Exists
  <1>6. PendingDepsExact'
    BY <1>2, <1>4, <1>5, Zenon DEF PendingDepsExact, Complete, Parents
  <1>7. NoEarlyStart' /\ DoneIsHistory'
    BY <1>1, <1>2, Zenon DEF TypeOK, FlowInv, Complete, Assign, NoEarlyStart, DoneIsHistory, Parents
  <1>8. ParkedUntilReleased'
    BY <1>2, <1>4, Zenon DEF TypeOK, FlowInv, Complete, Assign, ParkedUntilReleased, Parents, Exists
  <1>9. ParkedHasParent'
    <2> SUFFICES ASSUME NEW c \in Job, Exists(c), scheduled'[c] = "infinity"
                 PROVE  ~(Parents(c) \subseteq done \cup S)
      BY <1>2, <1>5, Zenon DEF ParkedHasParent, Parents
    <2>1. scheduled[c] = "infinity" /\ ~(Released(S, c) > 0 /\ pending[c] - Released(S, c) = 0)
      BY Zenon DEF TypeOK, Complete
    <2>2. ~(Parents(c) \subseteq done)
      BY <2>1, Zenon DEF FlowInv, ParkedHasParent
    <2>3. ASSUME Parents(c) \subseteq done \cup S PROVE FALSE
      <3>1. Parents(c) \cap S # {}
        BY <2>2, <2>3, Zenon
      <3>2. Released(S, c) \in Nat /\ Released(S, c) # 0
        BY <1>4, <3>1, Zenon
      <3>3. pending[c] - Released(S, c) = 0
        BY <1>4, <2>3, Zenon
      <3> QED
        BY ONLY <2>1, <3>2, <3>3
    <2> QED
      BY <2>3, Zenon
  <1>10. AncestorsDone'
    BY <1>1, <1>2, Zenon DEF FlowInv, AncestorsDone, NoEarlyStart, Parents
  <1>11. FlowsWhole'
    <2>1. \A c \in Job : /\ (state'[c] = "absent") <=> (state[c] = "absent")
                         /\ ~Exists(c) => pending'[c] = pending[c]
                         /\ state[c] = "absent" => ~Exists(c)
      BY <1>1, Zenon DEF TypeOK, Complete, Assign, Exists
    <2>2. edges' = edges
      BY Zenon DEF Complete
    <2>3. \A e \in Edge : e[1] \in Job /\ e[2] \in Job
      BY EdgesInsideAWorkflow, Zenon
    <2> QED
      BY <1>5, <2>1, <2>2, <2>3, Zenon DEF FlowInv, FlowsWhole
  <1> QED
    BY <1>6, <1>7, <1>8, <1>9, <1>10, <1>11, Zenon DEF FlowInv

\* Every statement keeps the workflow bookkeeping.
LEMMA NextFlow == TypeOK /\ FlowInv /\ [Next]_vars => FlowInv'
  <1> SUFFICES ASSUME TypeOK, FlowInv, [Next]_vars PROVE FlowInv'
    BY Zenon
  <1> USE DEF TypeOK, rows, snapshots
  <1>1. ASSUME NEW w \in Worker, NEW S \in SUBSET Job, S \subseteq Eligible, Lease(w, S)
        PROVE  FlowInv'
    BY <1>1, FlowFrame, Zenon DEF Eligible, Lease, Assign, FlowInv, ParkedUntilReleased
  <1>2. ASSUME NEW w \in Worker, NEW S \in SUBSET Job, FetchUnkeyed(w, S) PROVE FlowInv'
    BY <1>1, <1>2, Zenon DEF FetchUnkeyed
  <1>3. ASSUME NEW w \in Worker, NEW L \in SUBSET Job, FetchKeyedCommit(w, L) PROVE FlowInv'
    <2>1. PICK n \in [L -> 1..Cardinality(L)] : Lease(w, Admitted(w, L, n))
      BY <1>3, Zenon DEF FetchKeyedCommit
    <2>2. Admitted(w, L, n) \in SUBSET Job /\ Admitted(w, L, n) \subseteq Eligible
      BY <1>3, Zenon DEF FetchKeyedCommit, Lockable, Admitted
    <2> QED
      BY <1>1, <2>1, <2>2, Zenon
  <1>4. ASSUME NEW w \in Worker, NEW S \in SUBSET Job, DiscardMany(w, S) PROVE FlowInv'
    BY <1>4, FlowFrame, Zenon DEF DiscardMany, Held, FlowInv, NoEarlyStart
  <1>5. ASSUME NEW w \in Worker, NEW S \in SUBSET Job, RetryMany(w, S) PROVE FlowInv'
    BY <1>5, FlowFrame, Zenon DEF RetryMany, Held, FlowInv, NoEarlyStart
  <1>6. ASSUME NEW s \in Sweeper, ReclaimApply(s) PROVE FlowInv'
    BY <1>6, FlowFrame, Zenon DEF ReclaimApply, FlowInv, NoEarlyStart
  <1>7. ASSUME NEW S \in SUBSET Job, Cancel(S) PROVE FlowInv'
    BY <1>7, FlowFrame, Zenon DEF Cancel, Assign
  <1>8. ASSUME NEW S \in SUBSET Job, RetryDiscarded(S) PROVE FlowInv'
    BY <1>8, FlowFrame, Zenon DEF RetryDiscarded, Assign, FlowInv, NoEarlyStart
  <1>9. ASSUME NEW j \in Job, ComesDue(j) PROVE FlowInv'
    BY <1>9, FlowFrame, Zenon DEF ComesDue, FlowInv, ParkedUntilReleased
  <1>10. ASSUME UNCHANGED <<state, scheduled, pending, edges, done>> PROVE FlowInv'
    BY <1>10, FlowFrame, Zenon
  <1>11. ASSUME NEW j \in Job, LeaseExpires(j) PROVE FlowInv'
    BY <1>10, <1>11, Zenon DEF LeaseExpires
  <1>12. ASSUME NEW w \in Worker, FetchKeyedBegin(w) \/ FetchKeyedAbort(w) PROVE FlowInv'
    BY <1>10, <1>12, Zenon DEF FetchKeyedBegin, FetchKeyedAbort
  <1>13. ASSUME NEW w \in Worker, NEW S \in SUBSET Job, RenewLeases(w, S) \/ AbandonLeases(w, S)
         PROVE  FlowInv'
    BY <1>10, <1>13, Zenon DEF RenewLeases, AbandonLeases
  <1>14. ASSUME NEW s \in Sweeper, ReclaimFails(s) \/ \E E \in SUBSET Job : ReclaimScan(s, E)
         PROVE  FlowInv'
    BY <1>10, <1>14, Zenon DEF ReclaimScan, ReclaimFails
  <1>15. ASSUME NEW S \in SUBSET Job, PurgeDiscarded(S) PROVE FlowInv'
    BY <1>15, FlowDelete, Zenon DEF PurgeDiscarded, Exists
  <1>16. ASSUME NEW s \in Sweeper, NEW S \in SUBSET Job, PruneApply(s, S) PROVE FlowInv'
    <2>1. Delete(S) /\ \A j \in S : Exists(j)
      BY <1>16, PrunesFinished, Zenon DEF PruneApply, Finished, Exists
    <2> QED
      BY <2>1, FlowDelete, Zenon
  <1>17. ASSUME NEW s \in Sweeper, NEW S \in SUBSET Job, NEW states \in Pruned,
                PruneScan(s, S, states)
         PROVE  FlowInv'
    BY <1>10, <1>17, Zenon DEF PruneScan
  <1>18. ASSUME NEW C, Disconnect(C) PROVE FlowInv'
    BY <1>10, <1>18, Zenon DEF Disconnect
  <1>19. CASE UNCHANGED vars
    BY <1>10, <1>19, Zenon DEF vars
  <1> QED
    BY <1>2, <1>3, <1>4, <1>5, <1>6, <1>7, <1>8, <1>9, <1>11, <1>12, <1>13, <1>14, <1>15, <1>16,
       <1>17, <1>18, <1>19, FlowEnqueue, FlowEnqueueWorkflow, FlowComplete, Zenon DEF Next

\* The workflow bookkeeping holds in every reachable state.
LEMMA FlowInvariant == Spec => []FlowInv
  <1>1. Init => FlowInv
    <2> SUFFICES ASSUME Init PROVE FlowInv
      BY Zenon
    <2>1. \A j \in Job : state[j] = "absent" /\ ~Exists(j) /\ j \notin done
      BY Zenon DEF Init, Exists
    <2>2. \A e \in Edge : e[1] \in Job /\ e[2] \in Job
      BY EdgesInsideAWorkflow, Zenon
    <2> QED
      BY <2>1, <2>2, Zenon DEF Init, FlowInv, PendingDepsExact, NoEarlyStart, ParkedUntilReleased,
                        ParkedHasParent, AncestorsDone, DoneIsHistory, FlowsWhole
  <1> QED
    BY <1>1, TypeCorrect, NextFlow, PTL DEF Spec

\* Fan-in: pending_deps counts exactly the parents that never completed.
THEOREM FanInCorrect == Spec => []PendingDepsExact
  <1>1. FlowInv => PendingDepsExact
    BY Zenon DEF FlowInv
  <1> QED
    BY <1>1, FlowInvariant, PTL

\* Dependency order: no job starts before all of its parents completed.
THEOREM DependencyOrder == Spec => []NoEarlyStart
  <1>1. FlowInv => NoEarlyStart
    BY Zenon DEF FlowInv
  <1> QED
    BY <1>1, FlowInvariant, PTL

\* Nobody waits for nothing: a job that is still parked has an open parent.
THEOREM NoneStranded == Spec => []NeverStranded
  <1>1. FlowInv => NeverStranded
    BY Zenon DEF FlowInv, ParkedHasParent, NeverStranded, Exists
  <1> QED
    BY <1>1, FlowInvariant, PTL

-----------------------------------------------------------------------------
(***************************************************************************)
(* Completion                                                              *)
(***************************************************************************)
\* A completed job never runs again: `done` only grows, and stays history.
THEOREM CompletedOnce == Spec => CompletedIsFinal
  <1>1. [Next]_vars => done \subseteq done'
    <2> SUFFICES ASSUME [Next]_vars PROVE done \subseteq done'
      BY Zenon
    <2>1. ASSUME NEW w \in Worker, NEW S \in SUBSET Job, Complete(w, S) PROVE done \subseteq done'
      BY <2>1, Zenon DEF Complete
    <2>2. ASSUME NEW w \in Worker, NEW S \in SUBSET Job,
                 FetchUnkeyed(w, S) \/ FetchKeyedCommit(w, S) \/ DiscardMany(w, S)
                 \/ RetryMany(w, S) \/ RenewLeases(w, S) \/ AbandonLeases(w, S)
          PROVE  done' = done
      BY <2>2, Zenon DEF FetchUnkeyed, FetchKeyedCommit, Lease, DiscardMany, RetryMany,
                  RenewLeases, AbandonLeases
    <2>3. ASSUME NEW w \in Worker, FetchKeyedBegin(w) \/ FetchKeyedAbort(w) PROVE done' = done
      BY <2>3, Zenon DEF FetchKeyedBegin, FetchKeyedAbort
    <2>4. ASSUME NEW j \in Job, ComesDue(j) \/ LeaseExpires(j)
                 \/ \E when \in {"due", "later"} : Enqueue(j, when)
          PROVE  done' = done
      BY <2>4, Zenon DEF ComesDue, LeaseExpires, Enqueue
    <2>5. ASSUME NEW f \in Flow, NEW when \in {"due", "later"}, EnqueueWorkflow(f, when)
          PROVE  done' = done
      BY <2>5, Zenon DEF EnqueueWorkflow
    <2>6. ASSUME NEW s \in Sweeper, ReclaimApply(s) \/ ReclaimFails(s)
                 \/ \E E \in SUBSET Job : ReclaimScan(s, E)
          PROVE  done' = done
      BY <2>6, Zenon DEF ReclaimScan, ReclaimApply, ReclaimFails
    <2>7. ASSUME NEW S \in SUBSET Job, Cancel(S) \/ RetryDiscarded(S) \/ Delete(S)
          PROVE  done' = done
      BY <2>7, Zenon DEF Cancel, RetryDiscarded, Delete
    <2>8. ASSUME NEW s \in Sweeper, NEW S \in SUBSET Job,
                 PruneApply(s, S) \/ \E states \in Pruned : PruneScan(s, S, states)
          PROVE  done' = done
      BY <2>8, Zenon DEF PruneScan, PruneApply, Delete
    <2>9. ASSUME NEW C, Disconnect(C) PROVE done' = done
      BY <2>9, Zenon DEF Disconnect
    <2>10. CASE UNCHANGED vars
      BY <2>10, Zenon DEF vars
    <2> QED
      BY <2>1, <2>2, <2>3, <2>4, <2>5, <2>6, <2>7, <2>8, <2>9, <2>10, Zenon DEF Next, PurgeDiscarded
  <1>2. TypeOK /\ FlowInv' /\ [Next]_vars
           => [\A j \in done : state'[j] \in {"completed", "deleted"}]_vars
    BY <1>1, Zenon DEF TypeOK, FlowInv, DoneIsHistory
  <1> QED
    BY <1>2, TypeCorrect, FlowInvariant, PTL DEF Spec, CompletedIsFinal

-----------------------------------------------------------------------------
(***************************************************************************)
(* Admission control: AdmissionInv is inductive                            *)
(***************************************************************************)
\* A set that an injection maps into 1..m has at most m elements.
LEMMA RankBound ==
  ASSUME NEW A, NEW m \in Nat, NEW n \in [A -> Int],
         \A i \in A : 1 <= n[i] /\ n[i] <= m,
         \A i, j \in A : n[i] = n[j] => i = j
  PROVE  IsFiniteSet(A) /\ Cardinality(A) <= m
  <1>1. n \in Injection(A, 1..m)
    BY DEF Injection, IsInjective
  <1>2. IsFiniteSet(1..m) /\ Cardinality(1..m) = m
    BY FS_Interval
  <1> QED
    BY <1>1, <1>2, FS_Injection

\* Rows leaving `running` lower every count, whatever the limit.
LEMMA FewerRunning ==
  ASSUME TypeOK, TypeOK', AdmissionInv, UNCHANGED <<admitting, active>>,
         \A j \in Job : state'[j] = "running" => state[j] = "running"
  PROVE  AdmissionInv'
  <1> DEFINE Under(k, t) == {i \in Running(k) : MaxConcurrency[i] <= t}
  <1>1. ASSUME NEW k \in Key
        PROVE  /\ Running(k)' \subseteq Running(k) /\ Running(k) \in SUBSET Job
               /\ Cardinality(Running(k)') <= Cardinality(Running(k))
               /\ Cardinality(Running(k)') \in Nat /\ Cardinality(Running(k)) \in Nat
    <2>1. Running(k)' \subseteq Running(k) /\ Running(k) \in SUBSET Job
      BY Zenon DEF Running
    <2> QED
      BY <2>1, JobSubset, FS_Subset, Zenon
  <1>2. ASSUME NEW k \in Key, NEW t \in Nat
        PROVE  /\ Cardinality(Under(k, t)') <= Cardinality(Under(k, t))
               /\ Cardinality(Under(k, t)') \in Nat /\ Cardinality(Under(k, t)) \in Nat
    <2>1. Under(k, t)' \subseteq Under(k, t) /\ Under(k, t) \in SUBSET Job
      BY <1>1, Zenon
    <2> HIDE DEF Under
    <2> QED
      BY <2>1, JobSubset, FS_Subset, Zenon
  <1>3. KeyedLimit'
    <2> SUFFICES ASSUME NEW k \in Key, NEW j \in Running(k)'
                 PROVE  Cardinality(Under(k, MaxConcurrency[j])') <= MaxConcurrency[j]
      BY Zenon DEF KeyedLimit
    <2>1. j \in Running(k) /\ j \in Job /\ MaxConcurrency[j] \in Nat
      BY <1>1, ColumnTypes, Zenon
    <2>2. Cardinality(Under(k, MaxConcurrency[j])) <= MaxConcurrency[j]
      BY <2>1, Zenon DEF AdmissionInv, KeyedLimit
    <2> HIDE DEF Under
    <2> QED
      BY <1>2, <2>1, <2>2
  <1>4. \A w \in admitting' : \A k \in Key : Cardinality(Running(k)') <= active'[w][k]
    BY <1>1 DEF AdmissionInv, TypeOK
  <1> QED
    BY <1>3, <1>4, Zenon DEF AdmissionInv

\* The admitted rows of one key with a limit of t or less have distinct row
\* numbers, each at most t - already: with the already running jobs they are
\* at most t.
LEMMA AdmissionCommit ==
  ASSUME TypeOK, AdmissionInv, NEW w \in Worker, NEW L \in SUBSET Job, FetchKeyedCommit(w, L)
  PROVE  AdmissionInv'
  <1>1. PICK n \in [L -> 1..Cardinality(L)] : IsRowNumber(n, L) /\ Lease(w, Admitted(w, L, n))
    BY Zenon DEF FetchKeyedCommit
  <1> DEFINE A == Admitted(w, L, n)
             Under(k, t) == {i \in Running(k) : MaxConcurrency[i] <= t}
             New(k, t) == {i \in A : ConcurrencyKey[i] = k /\ MaxConcurrency[i] <= t}
  <1>2. A \subseteq L /\ A \subseteq Job /\ Cardinality(L) \in Nat
    BY JobSubset, Zenon DEF Admitted
  <1>3. w \in admitting /\ admitting' = {}
    BY Zenon DEF FetchKeyedCommit, AdmissionInv
  <1>4. ASSUME NEW k \in Key
        PROVE  /\ Running(k)' = Running(k) \cup {i \in A : ConcurrencyKey[i] = k}
               /\ Running(k) \in SUBSET Job
    BY <1>1, <1>2, Zenon DEF Running, Lease, Assign, TypeOK
  <1>5. ASSUME NEW k \in Key, NEW t \in Nat, NEW i0 \in New(k, t)
        PROVE  active[w][k] + Cardinality(New(k, t)) <= t
    <2>1. active[w][k] \in Nat
      BY Zenon DEF TypeOK
    <2>2. \A i \in New(k, t) : i \in L /\ n[i] \in Int /\ 1 <= n[i] /\ n[i] <= t - active[w][k]
      <3> SUFFICES ASSUME NEW i \in New(k, t)
                   PROVE  i \in L /\ n[i] \in Int /\ 1 <= n[i] /\ n[i] <= t - active[w][k]
        BY Zenon
      <3>1. i \in L /\ i \in Job /\ ConcurrencyKey[i] = k /\ MaxConcurrency[i] <= t
            /\ active[w][ConcurrencyKey[i]] + n[i] <= MaxConcurrency[i]
        BY <1>2, Zenon DEF Admitted
      <3>2. n[i] \in 1..Cardinality(L) /\ MaxConcurrency[i] \in Nat
        BY <3>1, ColumnTypes, Zenon
      <3> QED
        BY <1>2, <2>1, <3>1, <3>2
    <2>3. \A i, j \in New(k, t) : n[i] = n[j] => i = j
      BY <1>1, <1>2, Zenon DEF IsRowNumber
    <2>4. t - active[w][k] \in Nat
      BY <2>1, <2>2, <1>5
    <2> HIDE DEF New
    <2> DEFINE r == [i \in New(k, t) |-> n[i]]
    <2>5. r \in [New(k, t) -> Int]
      BY <2>2, Zenon
    <2>6. /\ \A i \in New(k, t) : 1 <= r[i] /\ r[i] <= t - active[w][k]
          /\ \A i, j \in New(k, t) : r[i] = r[j] => i = j
      BY <2>2, <2>3, Zenon
    <2> HIDE DEF r
    <2>7. IsFiniteSet(New(k, t)) /\ Cardinality(New(k, t)) <= t - active[w][k]
      BY <2>4, <2>5, <2>6, RankBound, Zenon
    <2>8. Cardinality(New(k, t)) \in Nat
      BY <2>7, FS_CardinalityType, Zenon
    <2> QED
      BY <2>1, <2>7, <2>8
  <1>6. KeyedLimit'
    <2> SUFFICES ASSUME NEW k \in Key, NEW j \in Running(k)'
                 PROVE  Cardinality(Under(k, MaxConcurrency[j])') <= MaxConcurrency[j]
      BY Zenon DEF KeyedLimit
    <2> DEFINE t == MaxConcurrency[j]
    <2>1. t \in Nat /\ j \in Job
      BY <1>2, <1>4, ColumnTypes, Zenon
    <2>2. Under(k, t)' = Under(k, t) \cup New(k, t)
      BY <1>4, Zenon
    <2>3. CASE New(k, t) = {}
      <3>1. j \in Running(k)
        BY <1>4, <2>1, <2>3
      <3>2. Under(k, t)' = Under(k, t)
        BY <2>2, <2>3, Zenon
      <3> QED
        BY <3>1, <3>2, Zenon DEF AdmissionInv, KeyedLimit
    <2>4. CASE New(k, t) # {}
      <3>1. active[w][k] + Cardinality(New(k, t)) <= t
        BY <1>5, <2>1, <2>4, Zenon
      <3>2. Under(k, t) \in SUBSET Running(k) /\ Running(k) \in SUBSET Job /\ New(k, t) \in SUBSET Job
        BY <1>2, <1>4, Zenon
      <3>3. Cardinality(Running(k)) <= active[w][k] /\ active[w][k] \in Nat
        BY <1>3, Zenon DEF AdmissionInv, TypeOK
      <3> HIDE DEF Under, New, t
      <3>4. /\ IsFiniteSet(Under(k, t)) /\ Cardinality(Under(k, t)) \in Nat
            /\ IsFiniteSet(New(k, t)) /\ Cardinality(New(k, t)) \in Nat
            /\ IsFiniteSet(Running(k)) /\ Cardinality(Running(k)) \in Nat
        BY <3>2, JobSubset, Zenon
      <3>5. Cardinality(Under(k, t)) <= Cardinality(Running(k))
        BY <3>2, <3>4, FS_Subset, Zenon
      <3>6. /\ Cardinality(Under(k, t) \cup New(k, t)) =
                  Cardinality(Under(k, t)) + Cardinality(New(k, t))
                  - Cardinality(Under(k, t) \cap New(k, t))
            /\ Cardinality(Under(k, t) \cap New(k, t)) \in Nat
        BY <3>4, FS_Union, FS_Intersection, FS_CardinalityType, Zenon
      <3>7. Cardinality(Under(k, t) \cup New(k, t)) <= t
        BY <2>1, <3>1, <3>3, <3>4, <3>5, <3>6
      <3> USE DEF t
      <3> QED
        BY <2>2, <3>7, Zenon
    <2> QED
      BY <2>3, <2>4, Zenon
  <1> QED
    BY <1>3, <1>6, Zenon DEF AdmissionInv

\* Every statement keeps the limits, and the count an open admission relies on.
LEMMA NextAdmission == TypeOK /\ TypeOK' /\ AdmissionInv /\ [Next]_vars => AdmissionInv'
  <1> SUFFICES ASSUME TypeOK, TypeOK', AdmissionInv, [Next]_vars PROVE AdmissionInv'
    BY Zenon
  <1> USE DEF rows, snapshots
  <1>1. ASSUME NEW w \in Worker, FetchKeyedBegin(w) PROVE AdmissionInv'
    <2>1. /\ \A k \in Key : Running(k)' = Running(k) /\ Cardinality(Running(k)) \in Nat
          /\ admitting' = {w} /\ active'[w] = [k \in Key |-> Cardinality(Running(k))]
      BY <1>1, JobSubset, Zenon DEF FetchKeyedBegin, Running, TypeOK
    <2>2. KeyedLimit'
      BY <2>1, Zenon DEF AdmissionInv, KeyedLimit
    <2> QED
      BY <2>1, <2>2 DEF AdmissionInv
  <1>2. ASSUME NEW w \in Worker, FetchKeyedAbort(w) PROVE AdmissionInv'
    <2>1. admitting' = {} /\ \A k \in Key : Running(k)' = Running(k)
      BY <1>2, Zenon DEF FetchKeyedAbort, AdmissionInv, Running
    <2> QED
      BY <2>1, Zenon DEF AdmissionInv, KeyedLimit
  <1>3. ASSUME NEW w \in Worker, NEW S \in SUBSET Job, FetchUnkeyed(w, S) PROVE AdmissionInv'
    <2>1. \A k \in Key : Running(k)' = Running(k)
      BY <1>3, NullsDistinct DEF FetchUnkeyed, Lease, Assign, Running, TypeOK
    <2>2. UNCHANGED <<admitting, active>>
      BY <1>3, Zenon DEF FetchUnkeyed
    <2> QED
      BY <2>1, <2>2, Zenon DEF AdmissionInv, KeyedLimit
  <1> DEFINE Fewer == /\ UNCHANGED <<admitting, active>>
                      /\ \A j \in Job : state'[j] = "running" => state[j] = "running"
  <1>4. ASSUME NEW j \in Job, ComesDue(j) \/ LeaseExpires(j) PROVE Fewer
    BY <1>4, Zenon DEF ComesDue, LeaseExpires
  <1>5. ASSUME NEW j \in Job, NEW when \in {"due", "later"}, Enqueue(j, when) PROVE Fewer
    BY <1>5 DEF Enqueue, TypeOK
  <1>6. ASSUME NEW f \in Flow, NEW when \in {"due", "later"}, EnqueueWorkflow(f, when) PROVE Fewer
    BY <1>6, Zenon DEF EnqueueWorkflow, Assign
  <1>7. ASSUME NEW w \in Worker, NEW S \in SUBSET Job, Complete(w, S) PROVE Fewer
    BY <1>7, Zenon DEF Complete, Assign
  <1>8. ASSUME NEW w \in Worker, NEW S \in SUBSET Job, DiscardMany(w, S) PROVE Fewer
    BY <1>8, Zenon DEF DiscardMany
  <1>9. ASSUME NEW w \in Worker, NEW S \in SUBSET Job, RetryMany(w, S) PROVE Fewer
    BY <1>9, Zenon DEF RetryMany
  <1>10. ASSUME NEW w \in Worker, NEW S \in SUBSET Job, RenewLeases(w, S) \/ AbandonLeases(w, S)
         PROVE  Fewer
    BY <1>10, Zenon DEF RenewLeases, AbandonLeases
  <1>11. ASSUME NEW s \in Sweeper, ReclaimApply(s) PROVE Fewer
    BY <1>11, Zenon DEF ReclaimApply
  <1>12. ASSUME NEW s \in Sweeper, ReclaimFails(s) \/ \E E \in SUBSET Job : ReclaimScan(s, E)
         PROVE  Fewer
    BY <1>12, Zenon DEF ReclaimScan, ReclaimFails
  <1>13. ASSUME NEW S \in SUBSET Job, Cancel(S) \/ RetryDiscarded(S) PROVE Fewer
    BY <1>13 DEF Cancel, RetryDiscarded, Assign
  <1>14. ASSUME NEW S \in SUBSET Job, PurgeDiscarded(S) PROVE Fewer
    BY <1>14, Zenon DEF PurgeDiscarded, Delete, Assign
  <1>15. ASSUME NEW s \in Sweeper, NEW S \in SUBSET Job, PruneApply(s, S) PROVE Fewer
    BY <1>15, Zenon DEF PruneApply, Delete, Assign
  <1>16. ASSUME NEW s \in Sweeper, NEW S \in SUBSET Job, NEW states \in Pruned,
                PruneScan(s, S, states)
         PROVE  Fewer
    BY <1>16, Zenon DEF PruneScan
  <1>17. ASSUME UNCHANGED vars PROVE Fewer
    BY <1>17, Zenon DEF vars
  <1>18. Fewer => AdmissionInv'
    BY FewerRunning, Zenon
  <1>19. ASSUME NEW C, Disconnect(C) PROVE AdmissionInv'
    <2>1. /\ admitting' \subseteq admitting /\ \A w \in admitting' : active'[w] = active[w]
          /\ \A k \in Key : Running(k)' = Running(k)
      BY <1>19, Zenon DEF Disconnect, Running, TypeOK
    <2> QED
      BY <2>1, Zenon DEF AdmissionInv, KeyedLimit
  <1> HIDE DEF Fewer
  <1> QED
    BY <1>1, <1>2, <1>3, <1>4, <1>5, <1>6, <1>7, <1>8, <1>9, <1>10, <1>11, <1>12, <1>13, <1>14,
       <1>15, <1>16, <1>17, <1>18, <1>19, AdmissionCommit, Zenon DEF Next

\* Admission control holds for any number of workers, sweeps and limits.
THEOREM AdmissionCorrect == Spec => []KeyedLimit
  <1>1. Init => AdmissionInv
    <2> SUFFICES ASSUME Init PROVE AdmissionInv
      BY Zenon
    <2>1. admitting = {} /\ \A k \in Key : Running(k) = {}
      BY Zenon DEF Init, Running
    <2> QED
      BY <2>1, Zenon DEF AdmissionInv, KeyedLimit
  <1>2. AdmissionInv => KeyedLimit
    BY Zenon DEF AdmissionInv
  <1> QED
    BY <1>1, <1>2, TypeCorrect, NextAdmission, PTL DEF Spec

-----------------------------------------------------------------------------
(***************************************************************************)
(* The refinement                                                          *)
(***************************************************************************)
\* A step of the life of jobs, or none.
LifeStep == [Lifecycle!LifeNext]_(Lifecycle!life)

\* Both modules count with the same Cardinality.
LEMMA SameCount == ASSUME NEW T PROVE Lifecycle!Cardinality(T) = Cardinality(T)
  BY Zenon DEF Cardinality, Lifecycle!Cardinality

\* A statement that touches neither states nor completions is no step.
LEMMA LifeStutter ==
  ASSUME UNCHANGED <<state, done>>
  PROVE  LifeStep
  BY Zenon DEF LifeStep, Lifecycle!life

\* The walk of DISCARD_MANY reaches only jobs with a parent that has not
\* completed: the dead have not, and nothing downstream of them could have.
LEMMA WalkReachesUnmet ==
  ASSUME TypeOK, FlowInv, NEW w \in Worker, NEW S \in SUBSET Job, S \subseteq Held(w)
  PROVE  \A c \in Walk(S) : ~(Parents(c) \subseteq done)
  <1> DEFINE T == {c \in Job : ~(Parents(c) \subseteq done)}
  <1>1. T \in SUBSET Job
    BY Zenon
  <1>2. \A e \in edges : e[1] \in Job /\ e[2] \in Job /\ e[1] \in Parents(e[2])
    <2> TAKE e \in edges
    <2>1. e \in Job \X Job /\ e \in Edge
      BY EdgesInsideAWorkflow, Zenon DEF TypeOK
    <2>2. e = <<e[1], e[2]>> /\ e[1] \in Job /\ e[2] \in Job
      BY <2>1
    <2> QED
      BY <2>1, <2>2, Zenon DEF Parents
  <1>3. \A p \in S : p \notin done
    BY Zenon DEF FlowInv, DoneIsHistory, Held, TypeOK
  <1>4. \A p \in T : p \notin done
    BY Zenon DEF FlowInv, AncestorsDone
  <1>5. \A e \in edges : e[1] \in S \cup T => e[2] \in T
    BY <1>2, <1>3, <1>4, Zenon
  <1>6. \A c \in Walk(S) : c \in T
    <2> HIDE DEF T
    <2> QED
      BY <1>1, <1>5, Zenon DEF Walk
  <1> QED
    BY <1>6, Zenon

\* A batch that a fetch leases starts: its jobs wait for nothing, and the limits
\* of their keys hold afterwards.
LEMMA LifeStart ==
  ASSUME TypeOK, FlowInv, KeyedLimit', NEW w \in Worker, NEW S \in SUBSET Job,
         S \subseteq Eligible, Lease(w, S)
  PROVE  LifeStep
  <1>1. Lifecycle!Room'
    <2> SUFFICES ASSUME NEW j \in Job, state'[j] = "running", ConcurrencyKey[j] # NoKey
                 PROVE  Cardinality(Lifecycle!Beside(j)') <= MaxConcurrency[j]
      <3>1. \A j \in Job : Lifecycle!Cardinality(Lifecycle!Beside(j)') = Cardinality(Lifecycle!Beside(j)')
        BY SameCount, Zenon
      <3> QED
        BY <3>1, Zenon DEF Lifecycle!Room
    <2> DEFINE k == ConcurrencyKey[j]
    <2>1. k \in Key /\ j \in Running(k)'
      BY ColumnTypes, Zenon DEF Running
    <2>2. {i \in Running(k)' : MaxConcurrency[i] <= MaxConcurrency[j]}
            = Lifecycle!Beside(j)'
      BY Zenon DEF Running, Lifecycle!Beside
    <2>3. Cardinality({i \in Running(k)' : MaxConcurrency[i] <= MaxConcurrency[j]})
            <= MaxConcurrency[j]
      BY <2>1, Zenon DEF KeyedLimit
    <2> QED
      BY <2>2, <2>3, Zenon
  <1>2. Lifecycle!Start(S)
    BY <1>1, Zenon DEF Lifecycle!Start, Lifecycle!In, Lifecycle!DependsOn, Lifecycle!Becomes,
                Eligible, Lease, Assign, Parents, FlowInv, ParkedUntilReleased
  <1> QED
    BY <1>2, Zenon DEF LifeStep, Lifecycle!LifeNext

\* The settling statements: COMPLETE finishes, DISCARD_MANY gives up, RETRY_MANY
\* and RECLAIM return what was running.
LEMMA LifeSettle ==
  ASSUME TypeOK, FlowInv, NEW w \in Worker, NEW S \in SUBSET Job,
         Complete(w, S) \/ DiscardMany(w, S) \/ RetryMany(w, S)
  PROVE  LifeStep
  <1> USE DEF Lifecycle!In, Lifecycle!Statuses, States
  <1>1. CASE Complete(w, S)
    <2>1. Lifecycle!Finish(S)
      BY <1>1, Zenon DEF Complete, Held, Assign, Lifecycle!Finish, Lifecycle!Becomes
    <2> QED
      BY <2>1, Zenon DEF LifeStep, Lifecycle!LifeNext
  <1>2. CASE DiscardMany(w, S)
    <2> DEFINE G == S \cup {c \in Walk(S) : state[c] = "available"}
    <2>1. G \in SUBSET Job
      BY Zenon DEF Walk
    <2>2. \A c \in Walk(S) : c \in Job /\ ~(Parents(c) \subseteq done)
      BY <1>2, WalkReachesUnmet, Zenon DEF DiscardMany, Walk
    <2>3. \A j \in Job : Lifecycle!DependsOn(j) = Parents(j)
      BY Zenon DEF Lifecycle!DependsOn, Parents
    <2>4. \A j \in S : state[j] = "running" /\ state'[j] = "discarded"
      BY <1>2, Zenon DEF DiscardMany, Held
    <2>5. \A j \in G \ S : state[j] = "available" /\ state'[j] = "cancelled"
      BY <1>2, <2>1, Zenon DEF DiscardMany
    <2>6. \A j \in Job \ G : state'[j] = state[j]
      BY <1>2, Zenon DEF DiscardMany
    <2>7. state' \in [Job -> States] /\ done' = done
      BY <1>2, Zenon DEF DiscardMany, TypeOK
    <2>8. Lifecycle!GiveUp(G)
      BY <2>1, <2>2, <2>3, <2>4, <2>5, <2>6, <2>7, Zenon DEF Lifecycle!GiveUp, Lifecycle!Moves
    <2> QED
      BY <2>1, <2>8, Zenon DEF LifeStep, Lifecycle!LifeNext
  <1>3. CASE RetryMany(w, S)
    <2>1. Lifecycle!Return(S)
      BY <1>3, Zenon DEF RetryMany, Held, TypeOK, snapshots, Lifecycle!Return, Lifecycle!Moves
    <2> QED
      BY <2>1, Zenon DEF LifeStep, Lifecycle!LifeNext
  <1> QED
    BY <1>1, <1>2, <1>3, Zenon

\* RECLAIM returns what is still running of what its snapshot showed.
LEMMA LifeReclaim ==
  ASSUME TypeOK, NEW s \in Sweeper, ReclaimApply(s)
  PROVE  LifeStep
  <1> DEFINE still == {j \in sweep[s].expired : state[j] = "running"}
  <1>1. still \in SUBSET Job
    BY Zenon DEF TypeOK
  <1>2. Lifecycle!Return(still)
    BY <1>1, Zenon DEF ReclaimApply, TypeOK, States, Lifecycle!Return, Lifecycle!Moves, Lifecycle!In,
                Lifecycle!Statuses
  <1> QED
    BY <1>1, <1>2, Zenon DEF LifeStep, Lifecycle!LifeNext

\* Inserting is submitting.
LEMMA LifeInsert ==
  ASSUME TypeOK,
         \/ \E j \in Job, when \in {"due", "later"} : Enqueue(j, when)
         \/ \E f \in Flow, when \in {"due", "later"} : EnqueueWorkflow(f, when)
  PROVE  LifeStep
  <1> USE DEF Lifecycle!Submit, Lifecycle!In, Lifecycle!Becomes, TypeOK
  <1>1. ASSUME NEW j \in Job, NEW when \in {"due", "later"}, Enqueue(j, when) PROVE LifeStep
    <2>1. Lifecycle!Submit({j})
      BY <1>1, Zenon DEF Enqueue
    <2> QED
      BY <2>1, Zenon DEF LifeStep, Lifecycle!LifeNext
  <1>2. ASSUME NEW f \in Flow, NEW when \in {"due", "later"}, EnqueueWorkflow(f, when) PROVE LifeStep
    <2>1. Lifecycle!Submit(Members(f)) /\ Members(f) \in SUBSET Job
      BY <1>2, Zenon DEF EnqueueWorkflow, Members, Assign
    <2> QED
      BY <2>1, Zenon DEF LifeStep, Lifecycle!LifeNext
  <1> QED
    BY <1>1, <1>2, Zenon

\* CANCEL withdraws, RETRY_DISCARDED revives, PURGE and PRUNE forget.
LEMMA LifeOperator ==
  ASSUME TypeOK, NEW S \in SUBSET Job,
         \/ Cancel(S) \/ RetryDiscarded(S) \/ PurgeDiscarded(S)
         \/ \E s \in Sweeper : PruneApply(s, S)
  PROVE  LifeStep
  <1> USE DEF Lifecycle!In, Lifecycle!Becomes, Assign
  <1>1. CASE Cancel(S)
    <2>1. Lifecycle!Withdraw(S)
      BY <1>1, Zenon DEF Cancel, Lifecycle!Withdraw
    <2> QED
      BY <2>1, Zenon DEF LifeStep, Lifecycle!LifeNext
  <1>2. CASE RetryDiscarded(S)
    <2>1. Lifecycle!Revive(S)
      BY <1>2, Zenon DEF RetryDiscarded, Lifecycle!Revive
    <2> QED
      BY <2>1, Zenon DEF LifeStep, Lifecycle!LifeNext
  <1>3. CASE PurgeDiscarded(S)
    <2>1. Lifecycle!Forget(S)
      BY <1>3, Zenon DEF PurgeDiscarded, Delete, Lifecycle!Forget
    <2> QED
      BY <2>1, Zenon DEF LifeStep, Lifecycle!LifeNext
  <1>4. ASSUME NEW s \in Sweeper, PruneApply(s, S) PROVE LifeStep
    <2>1. Lifecycle!Forget(S)
      BY <1>4, PrunesFinished, Zenon DEF PruneApply, Finished, Delete, Lifecycle!Forget
    <2> QED
      BY <2>1, Zenon DEF LifeStep, Lifecycle!LifeNext
  <1> QED
    BY <1>1, <1>2, <1>3, <1>4, Zenon

\* Every statement is a step of the life of jobs, or none.
LEMMA LifeEveryStep ==
  ASSUME TypeOK, FlowInv, KeyedLimit', [Next]_vars
  PROVE  LifeStep
  <1>1. ASSUME NEW w \in Worker, NEW S \in SUBSET Job, FetchUnkeyed(w, S) PROVE LifeStep
    BY <1>1, LifeStart, Zenon DEF FetchUnkeyed
  <1>2. ASSUME NEW w \in Worker, NEW L \in SUBSET Job, FetchKeyedCommit(w, L) PROVE LifeStep
    <2>1. PICK n \in [L -> 1..Cardinality(L)] : Lease(w, Admitted(w, L, n))
      BY <1>2, Zenon DEF FetchKeyedCommit
    <2>2. Admitted(w, L, n) \in SUBSET Job /\ Admitted(w, L, n) \subseteq Eligible
      BY <1>2, Zenon DEF FetchKeyedCommit, Lockable, Admitted
    <2> QED
      BY <2>1, <2>2, LifeStart, Zenon
  <1>3. ASSUME NEW w \in Worker, NEW S \in SUBSET Job, RenewLeases(w, S) \/ AbandonLeases(w, S)
        PROVE  LifeStep
    BY <1>3, LifeStutter, Zenon DEF RenewLeases, AbandonLeases
  <1>4. ASSUME NEW w \in Worker, FetchKeyedBegin(w) \/ FetchKeyedAbort(w) PROVE LifeStep
    BY <1>4, LifeStutter, Zenon DEF FetchKeyedBegin, FetchKeyedAbort, rows
  <1>5. ASSUME NEW j \in Job, ComesDue(j) \/ LeaseExpires(j) PROVE LifeStep
    BY <1>5, LifeStutter, Zenon DEF ComesDue, LeaseExpires
  <1>6. ASSUME NEW s \in Sweeper, ReclaimFails(s) \/ \E E \in SUBSET Job : ReclaimScan(s, E)
        PROVE  LifeStep
    BY <1>6, LifeStutter, Zenon DEF ReclaimScan, ReclaimFails, rows
  <1>7. ASSUME NEW s \in Sweeper, NEW S \in SUBSET Job, NEW states \in Pruned,
               PruneScan(s, S, states)
        PROVE  LifeStep
    BY <1>7, LifeStutter, Zenon DEF PruneScan, rows
  <1>8. ASSUME NEW C, Disconnect(C) PROVE LifeStep
    BY <1>8, LifeStutter, Zenon DEF Disconnect, rows
  <1>9. CASE UNCHANGED vars
    BY <1>9, LifeStutter, Zenon DEF vars, rows
  <1> QED
    BY <1>1, <1>2, <1>3, <1>4, <1>5, <1>6, <1>7, <1>8, <1>9, LifeSettle, LifeReclaim, LifeInsert,
       LifeOperator, Zenon DEF Next

\* The statements of the queue implement the life of a job: whatever the workers
\* and sweepers do, a job starts only after everything it depends on and within
\* the limits of its key, completes at most once, and is only cancelled with
\* its dead ancestors when it could not have started.
THEOREM QueueImplementsLifecycle == Spec => ImplementsLifecycle
  <1>1. Init => Lifecycle!LifeInit
    BY Zenon DEF Init, Lifecycle!LifeInit
  <1>2. TypeOK /\ FlowInv /\ KeyedLimit' /\ [Next]_vars => [Lifecycle!LifeNext]_(Lifecycle!life)
    BY LifeEveryStep, Zenon DEF LifeStep
  <1> QED
    BY <1>1, <1>2, TypeCorrect, FlowInvariant, AdmissionCorrect, PTL
       DEF Spec, ImplementsLifecycle, Lifecycle!LifeSpec
==============================================================================
