------------------------------ MODULE JobQueue ------------------------------
(***************************************************************************)
(* The job table of gylo (gylo_job and gylo_edge) under the SQL statements *)
(* of crates/gylo-pg and the inserts of python/gylo.                       *)
(*                                                                         *)
(* One action per statement.  The callers are arbitrary: any worker may    *)
(* send any statement at any time, so a worker that lost its lease and     *)
(* reports late is an ordinary behaviour of this model.                    *)
(*                                                                         *)
(* Postgres runs the statements at READ COMMITTED.  A row an UPDATE        *)
(* touches is locked, and its WHERE clause is checked again on the newest  *)
(* version, so an update whose predicate reads only its own row is atomic. *)
(* Where a statement also acts on what its snapshot showed of OTHER rows   *)
(* or of an older version (RECLAIM, FETCH_KEYED, PRUNE), the snapshot is a *)
(* step of its own and everything else may happen before the rows change.  *)
(***************************************************************************)
EXTENDS Integers, FiniteSets

CONSTANTS
    Job,             \* row ids of gylo_job; a deleted id is never used again
    Worker,          \* worker uuids, the values of locked_by
    Sweeper,         \* connections that may each have a RECLAIM and a PRUNE under way
    Key,             \* concurrency keys
    Flow,            \* workflow ids
    NoWorker, NoKey, NoFlow,  \* SQL NULL in the three columns
    MaxAttempts,     \* max_attempts of each job
    ConcurrencyKey,  \* concurrency_key of each job
    MaxConcurrency,  \* max_concurrency of each job, read when it has a key
    WorkflowId,      \* workflow_id of each job
    Edge,            \* <<parent, child>>: the rows gylo_edge gets per workflow
    Limit            \* the largest batch a fetch asks for

ASSUME JobsFinite == IsFiniteSet(Job)
ASSUME NullsDistinct == NoWorker \notin Worker /\ NoKey \notin Key /\ NoFlow \notin Flow
ASSUME ColumnTypes ==
    /\ MaxAttempts \in [Job -> Nat]
    /\ ConcurrencyKey \in [Job -> Key \cup {NoKey}]
    /\ MaxConcurrency \in [Job -> Nat \ {0}]
    /\ WorkflowId \in [Job -> Flow \cup {NoFlow}]
    /\ Limit \in Nat \ {0}
ASSUME EdgesInsideAWorkflow ==
    /\ Edge \subseteq Job \X Job
    /\ \A e \in Edge : WorkflowId[e[1]] = WorkflowId[e[2]] /\ WorkflowId[e[1]] # NoFlow

VARIABLES
    state,      \* "absent" before the insert, "deleted" after the delete
    attempt,
    locked_by,
    lease,      \* lease_expires_at against now(): "none", "live", "expired"
    scheduled,  \* scheduled_at against now(): "due", "later", "infinity"
    pending,    \* pending_deps
    edges,      \* the rows of gylo_edge
    done,       \* history: the jobs that were ever completed
    sweep,      \* what each open RECLAIM saw: the ids it took, and the exhausted ones
    victims,    \* what each open PRUNE saw: ids and states
    admitting,  \* holders of the transaction-level ADMISSION_LOCK
    active      \* per holder: running jobs by key, as its FETCH_KEYED snapshot shows

rows == <<state, attempt, locked_by, lease, scheduled, pending>>
snapshots == <<sweep, victims, admitting, active>>
vars == <<rows, edges, done, snapshots>>

States == {"absent", "available", "running", "completed", "discarded", "cancelled", "deleted"}
Finished == {"completed", "discarded", "cancelled"}

\* Every column keeps its type, through sweeps with stale snapshots and failed
\* batches too: above all no attempt passes max_attempts, the CHECK of 0001.
TypeOK ==
    /\ state \in [Job -> States]
    /\ attempt \in [Job -> Nat] /\ \A j \in Job : attempt[j] <= MaxAttempts[j]
    /\ locked_by \in [Job -> Worker \cup {NoWorker}]
    /\ lease \in [Job -> {"none", "live", "expired"}]
    /\ scheduled \in [Job -> {"due", "later", "infinity"}]
    /\ pending \in [Job -> Int]
    /\ edges \subseteq Edge
    /\ done \subseteq Job
    /\ sweep \in [Sweeper -> [expired : SUBSET Job, exhausted : SUBSET Job]]
    /\ victims \in [Sweeper -> SUBSET (Job \X Finished)]
    /\ admitting \subseteq Worker
    /\ active \in [Worker -> [Key -> Nat]]

-----------------------------------------------------------------------------
Parents(c) == {p \in Job : <<p, c>> \in Edge}
Running(k) == {j \in Job : state[j] = "running" /\ ConcurrencyKey[j] = k}
Held(w) == {j \in Job : state[j] = "running" /\ locked_by[j] = w}
Eligible == {j \in Job : state[j] = "available" /\ scheduled[j] = "due"}
Assign(f, S, v) == [j \in Job |-> IF j \in S THEN v ELSE f[j]]

NoSweep == [expired |-> {}, exhausted |-> {}]
NoCount == [k \in Key |-> 0]

Init ==
    /\ state = [j \in Job |-> "absent"]
    /\ attempt = [j \in Job |-> 0]
    /\ locked_by = [j \in Job |-> NoWorker]
    /\ lease = [j \in Job |-> "none"]
    /\ scheduled = [j \in Job |-> "later"]
    /\ pending = [j \in Job |-> 0]
    /\ edges = {}
    /\ done = {}
    /\ sweep = [s \in Sweeper |-> NoSweep]
    /\ victims = [s \in Sweeper |-> {}]
    /\ admitting = {}
    /\ active = [w \in Worker |-> NoCount]

-----------------------------------------------------------------------------
\* ENQUEUE and the adapters' INSERT: one job, now or after a delay.
Enqueue(j, when) ==
    /\ state[j] = "absent" /\ WorkflowId[j] = NoFlow
    /\ state' = [state EXCEPT ![j] = "available"]
    /\ scheduled' = [scheduled EXCEPT ![j] = when]
    /\ UNCHANGED <<attempt, locked_by, lease, pending, edges, done, snapshots>>

Members(f) == {j \in Job : WorkflowId[j] = f}

\* insert_workflow: every node and edge in one transaction.  A node with
\* unmet dependencies is parked at infinity, whatever its delay.
EnqueueWorkflow(f, when) ==
    /\ Members(f) # {} /\ \A j \in Members(f) : state[j] = "absent"
    /\ state' = Assign(state, Members(f), "available")
    /\ pending' = [j \in Job |-> IF j \in Members(f) THEN Cardinality(Parents(j)) ELSE pending[j]]
    /\ scheduled' = [j \in Job |->
           IF j \notin Members(f) THEN scheduled[j]
           ELSE IF Parents(j) # {} THEN "infinity" ELSE when]
    /\ edges' = edges \cup {e \in Edge : e[2] \in Members(f)}
    /\ UNCHANGED <<attempt, locked_by, lease, done, snapshots>>

\* now() passes a row's scheduled_at or lease_expires_at; infinity never comes.
ComesDue(j) ==
    /\ state[j] = "available" /\ scheduled[j] = "later"
    /\ scheduled' = [scheduled EXCEPT ![j] = "due"]
    /\ UNCHANGED <<state, attempt, locked_by, lease, pending, edges, done, snapshots>>

LeaseExpires(j) ==
    /\ lease[j] = "live"
    /\ lease' = [lease EXCEPT ![j] = "expired"]
    /\ UNCHANGED <<state, attempt, locked_by, scheduled, pending, edges, done, snapshots>>

-----------------------------------------------------------------------------
\* Mutant of Lease: without the CHECK on attempt.
LeaseUnchecked(w, S) ==
    /\ state' = Assign(state, S, "running")
    /\ locked_by' = Assign(locked_by, S, w)
    /\ lease' = Assign(lease, S, "live")
    /\ attempt' = [j \in Job |-> IF j \in S THEN attempt[j] + 1 ELSE attempt[j]]
    /\ UNCHANGED <<scheduled, pending, edges, done>>

\* The UPDATE both fetches end in.  The CHECK attempt <= max_attempts rejects
\* the whole statement when one row of the batch is out of attempts.
Lease(w, S) ==
    /\ \A j \in S : attempt[j] < MaxAttempts[j]
    /\ state' = Assign(state, S, "running")
    /\ locked_by' = Assign(locked_by, S, w)
    /\ lease' = Assign(lease, S, "live")
    /\ attempt' = [j \in Job |-> IF j \in S THEN attempt[j] + 1 ELSE attempt[j]]
    /\ UNCHANGED <<scheduled, pending, edges, done>>

\* FETCH_UNKEYED.  SKIP LOCKED may pass over any row, so any batch can result.
FetchUnkeyed(w, S) ==
    /\ S # {} /\ Cardinality(S) <= Limit
    /\ S \subseteq {j \in Eligible : ConcurrencyKey[j] = NoKey}
    /\ Lease(w, S)
    /\ UNCHANGED snapshots

\* Mutant of FetchKeyedBegin: the count is taken without ADMISSION_LOCK.
FetchKeyedBeginUnlocked(w) ==
    /\ admitting' = admitting \cup {w}
    /\ active' = [active EXCEPT ![w] = [k \in Key |-> Cardinality(Running(k))]]
    /\ UNCHANGED <<rows, edges, done, sweep, victims>>

\* fetch() opens a transaction, takes ADMISSION_LOCK, and only then starts
\* FETCH_KEYED, whose snapshot counts the running jobs of every key.
FetchKeyedBegin(w) ==
    /\ admitting = {}
    /\ admitting' = {w}
    /\ active' = [active EXCEPT ![w] = [k \in Key |-> Cardinality(Running(k))]]
    /\ UNCHANGED <<rows, edges, done, sweep, victims>>

\* row_number() OVER (PARTITION BY concurrency_key ...), for some order.
IsRowNumber(n, L) ==
    \A i, j \in L : ConcurrencyKey[i] = ConcurrencyKey[j] =>
        /\ n[i] = n[j] => i = j
        /\ n[i] <= Cardinality({l \in L : ConcurrencyKey[l] = ConcurrencyKey[i]})

Lockable(w) ==
    {j \in Eligible : ConcurrencyKey[j] # NoKey /\ active[w][ConcurrencyKey[j]] < MaxConcurrency[j]}

Admitted(w, L, n) ==
    {j \in L : active[w][ConcurrencyKey[j]] + n[j] <= MaxConcurrency[j]}

\* The rows FETCH_KEYED locks, ranks and leases; the commit frees the lock.
FetchKeyedCommit(w, L) ==
    /\ w \in admitting
    /\ L \subseteq Lockable(w) /\ Cardinality(L) <= Limit
    /\ \E n \in [L -> 1..Cardinality(L)] : IsRowNumber(n, L) /\ Lease(w, Admitted(w, L, n))
    /\ admitting' = admitting \ {w}
    /\ active' = [active EXCEPT ![w] = NoCount]
    /\ UNCHANGED <<sweep, victims>>

\* The transaction fails or its connection drops: rolled back, lock freed.
FetchKeyedAbort(w) ==
    /\ w \in admitting
    /\ admitting' = admitting \ {w}
    /\ active' = [active EXCEPT ![w] = NoCount]
    /\ UNCHANGED <<rows, edges, done, sweep, victims>>

-----------------------------------------------------------------------------
\* Mutant of Released: a batch counts a child down by one, not by count(*).
ReleasedOnce(S, c) == IF \E p \in S : <<p, c>> \in edges THEN 1 ELSE 0

Released(S, c) == Cardinality({p \in S : <<p, c>> \in edges})
Exists(j) == state[j] \notin {"absent", "deleted"}

\* Mutant of Complete: any finished parent makes the child due.
CompleteReleasesOnAny(w, S) ==
    /\ S # {} /\ S \subseteq Held(w)
    /\ state' = Assign(state, S, "completed")
    /\ locked_by' = Assign(locked_by, S, NoWorker)
    /\ lease' = Assign(lease, S, "none")
    /\ pending' = [c \in Job |-> IF Exists(c) THEN pending[c] - Released(S, c) ELSE pending[c]]
    /\ scheduled' = [c \in Job |->
           IF Exists(c) /\ Released(S, c) > 0 THEN "due" ELSE scheduled[c]]
    /\ done' = done \cup S
    /\ UNCHANGED <<attempt, edges, snapshots>>

\* Mutant of Complete: the last parent does not make the child due.
CompleteForgetsRelease(w, S) ==
    /\ S # {} /\ S \subseteq Held(w)
    /\ state' = Assign(state, S, "completed")
    /\ locked_by' = Assign(locked_by, S, NoWorker)
    /\ lease' = Assign(lease, S, "none")
    /\ pending' = [c \in Job |-> IF Exists(c) THEN pending[c] - Released(S, c) ELSE pending[c]]
    /\ done' = done \cup S
    /\ UNCHANGED <<attempt, scheduled, edges, snapshots>>

\* COMPLETE: finalise the rows w still holds and count their children down;
\* a child that reaches zero is due at once.  By NoEarlyStart no row is both
\* finished by the statement and counted down by it.
Complete(w, S) ==
    /\ S # {} /\ S \subseteq Held(w)
    /\ state' = Assign(state, S, "completed")
    /\ locked_by' = Assign(locked_by, S, NoWorker)
    /\ lease' = Assign(lease, S, "none")
    /\ pending' = [c \in Job |-> IF Exists(c) THEN pending[c] - Released(S, c) ELSE pending[c]]
    /\ scheduled' = [c \in Job |->
           IF Exists(c) /\ Released(S, c) > 0 /\ pending[c] - Released(S, c) = 0
           THEN "due" ELSE scheduled[c]]
    /\ done' = done \cup S
    /\ UNCHANGED <<attempt, edges, snapshots>>

\* The recursive walk of DISCARD_MANY: the least set that holds the children
\* of the dead and is closed under gylo_edge.
Walk(dead) ==
    {c \in Job : \A T \in SUBSET Job :
        (\A e \in edges : e[1] \in dead \cup T => e[2] \in T) => c \in T}

\* Mutant of DiscardMany: cancels the whole workflow, not what is downstream.
DiscardManyCancelsFlow(w, S) ==
    LET cancelled == {c \in Job : /\ state[c] = "available" /\ WorkflowId[c] # NoFlow
                                  /\ \E p \in S : WorkflowId[p] = WorkflowId[c]} IN
    /\ S # {} /\ S \subseteq Held(w)
    /\ state' = [j \in Job |-> IF j \in S THEN "discarded"
                               ELSE IF j \in cancelled THEN "cancelled" ELSE state[j]]
    /\ locked_by' = Assign(locked_by, S, NoWorker)
    /\ lease' = Assign(lease, S, "none")
    /\ UNCHANGED <<attempt, scheduled, pending, edges, done, snapshots>>

\* DISCARD_MANY: dead-letter the rows w still holds, and cancel what waits
\* downstream of them.
DiscardMany(w, S) ==
    LET cancelled == {c \in Walk(S) : state[c] = "available"} IN
    /\ S # {} /\ S \subseteq Held(w)
    /\ state' = [j \in Job |-> IF j \in S THEN "discarded"
                               ELSE IF j \in cancelled THEN "cancelled" ELSE state[j]]
    /\ locked_by' = Assign(locked_by, S, NoWorker)
    /\ lease' = Assign(lease, S, "none")
    /\ UNCHANGED <<attempt, scheduled, pending, edges, done, snapshots>>

\* RETRY_MANY: back to available after a backoff, or discarded when out of
\* attempts.  The descendants of a job discarded here are left as they are.
RetryMany(w, S) ==
    /\ S # {} /\ S \subseteq Held(w)
    /\ state' = [j \in Job |-> IF j \notin S THEN state[j]
                               ELSE IF attempt[j] < MaxAttempts[j] THEN "available" ELSE "discarded"]
    /\ scheduled' = [j \in Job |->
           IF j \in S /\ attempt[j] < MaxAttempts[j] THEN "later" ELSE scheduled[j]]
    /\ locked_by' = Assign(locked_by, S, NoWorker)
    /\ lease' = Assign(lease, S, "none")
    /\ UNCHANGED <<attempt, pending, edges, done, snapshots>>

RenewLeases(w, S) ==
    /\ S # {} /\ S \subseteq Held(w)
    /\ lease' = Assign(lease, S, "live")
    /\ UNCHANGED <<state, attempt, locked_by, scheduled, pending, edges, done, snapshots>>

AbandonLeases(w, S) ==
    /\ S # {} /\ S \subseteq Held(w)
    /\ lease' = Assign(lease, S, "expired")
    /\ UNCHANGED <<state, attempt, locked_by, scheduled, pending, edges, done, snapshots>>

-----------------------------------------------------------------------------
\* RECLAIM, first half: the CTE `expired` as the statement's snapshot shows
\* it, with `exhausted` computed from that version of the row.
ReclaimScan(s, E) ==
    /\ sweep[s] = NoSweep
    /\ E # {} /\ E \subseteq {j \in Job : state[j] = "running" /\ lease[j] = "expired"}
    /\ sweep' = [sweep EXCEPT ![s] =
           [expired |-> E, exhausted |-> {j \in E : attempt[j] >= MaxAttempts[j]}]]
    /\ UNCHANGED <<rows, edges, done, victims, admitting, active>>

\* Mutant of ReclaimApply: the state is not checked again either.
ReclaimApplyBlindly(s) ==
    LET still == sweep[s].expired IN
    /\ sweep[s] # NoSweep
    /\ state' = [j \in Job |-> IF j \notin still THEN state[j]
                               ELSE IF j \in sweep[s].exhausted THEN "discarded" ELSE "available"]
    /\ locked_by' = Assign(locked_by, still, NoWorker)
    /\ lease' = Assign(lease, still, "none")
    /\ sweep' = [sweep EXCEPT ![s] = NoSweep]
    /\ UNCHANGED <<attempt, scheduled, pending, edges, done, victims, admitting, active>>

\* Mutant of ReclaimApply: the released row keeps its holder and its lease.
ReclaimApplyKeepsLease(s) ==
    LET still == {j \in sweep[s].expired : state[j] = "running"} IN
    /\ sweep[s] # NoSweep
    /\ state' = [j \in Job |-> IF j \notin still THEN state[j]
                               ELSE IF j \in sweep[s].exhausted THEN "discarded" ELSE "available"]
    /\ sweep' = [sweep EXCEPT ![s] = NoSweep]
    /\ UNCHANGED <<attempt, locked_by, lease, scheduled, pending, edges, done, victims, admitting, active>>

\* RECLAIM, second half: of the newest version only state = 'running' is
\* checked again; neither the lease nor the attempt is.
ReclaimApply(s) ==
    LET still == {j \in sweep[s].expired : state[j] = "running"} IN
    /\ sweep[s] # NoSweep
    /\ state' = [j \in Job |-> IF j \notin still THEN state[j]
                               ELSE IF j \in sweep[s].exhausted THEN "discarded" ELSE "available"]
    /\ locked_by' = Assign(locked_by, still, NoWorker)
    /\ lease' = Assign(lease, still, "none")
    /\ sweep' = [sweep EXCEPT ![s] = NoSweep]
    /\ UNCHANGED <<attempt, scheduled, pending, edges, done, victims, admitting, active>>

\* The statement fails (a deadlock victim, a lost connection): no row changes.
ReclaimFails(s) ==
    /\ sweep[s] # NoSweep
    /\ sweep' = [sweep EXCEPT ![s] = NoSweep]
    /\ UNCHANGED <<rows, edges, done, victims, admitting, active>>

-----------------------------------------------------------------------------
\* CANCEL takes only what has not started, and does not follow gylo_edge.
Cancel(S) ==
    /\ S # {} /\ S \subseteq {j \in Job : state[j] = "available"}
    /\ state' = Assign(state, S, "cancelled")
    /\ locked_by' = Assign(locked_by, S, NoWorker)
    /\ lease' = Assign(lease, S, "none")
    /\ UNCHANGED <<attempt, scheduled, pending, edges, done, snapshots>>

\* RETRY_DISCARDED: attempts start over and the job is due at once.
RetryDiscarded(S) ==
    /\ S # {} /\ S \subseteq {j \in Job : state[j] = "discarded"}
    /\ state' = Assign(state, S, "available")
    /\ attempt' = Assign(attempt, S, 0)
    /\ scheduled' = Assign(scheduled, S, "due")
    /\ locked_by' = Assign(locked_by, S, NoWorker)
    /\ lease' = Assign(lease, S, "none")
    /\ UNCHANGED <<pending, edges, done, snapshots>>

\* DELETE on gylo_job; gylo_edge follows by ON DELETE CASCADE.
Delete(S) ==
    /\ state' = Assign(state, S, "deleted")
    /\ edges' = {e \in edges : e[1] \notin S /\ e[2] \notin S}
    /\ UNCHANGED <<attempt, locked_by, lease, scheduled, pending, done>>

PurgeDiscarded(S) ==
    /\ S # {} /\ S \subseteq {j \in Job : state[j] = "discarded"}
    /\ Delete(S)
    /\ UNCHANGED snapshots

Live(j) == state[j] \in {"available", "running"}
Pruned == {{"completed", "cancelled"}, {"discarded"}}

\* PRUNE, first half: any finished row may be old enough; a workflow's rows
\* stay while the snapshot shows one of its members live.
PruneScan(s, S, states) ==
    /\ victims[s] = {}
    /\ S # {} /\ S \subseteq {j \in Job : state[j] \in states}
    /\ \A j \in S : WorkflowId[j] # NoFlow =>
           ~ \E u \in Job : WorkflowId[u] = WorkflowId[j] /\ Live(u)
    /\ victims' = [victims EXCEPT ![s] = {<<j, state[j]>> : j \in S}]
    /\ UNCHANGED <<rows, edges, done, sweep, admitting, active>>

\* PRUNE, second half: a row is locked, unless somebody else has it, and its
\* own state checked again; the other members of its workflow are not.
PruneApply(s, S) ==
    /\ victims[s] # {}
    /\ S \subseteq {j \in Job : <<j, state[j]>> \in victims[s]}
    /\ Delete(S)
    /\ victims' = [victims EXCEPT ![s] = {}]
    /\ UNCHANGED <<sweep, admitting, active>>

\* A process is lost and its connections C with it: Postgres rolls back what
\* they had open.
Disconnect(C) ==
    /\ sweep' = [s \in Sweeper |-> IF s \in C THEN NoSweep ELSE sweep[s]]
    /\ victims' = [s \in Sweeper |-> IF s \in C THEN {} ELSE victims[s]]
    /\ admitting' = admitting \ C
    /\ active' = [w \in Worker |-> IF w \in C THEN NoCount ELSE active[w]]
    /\ UNCHANGED <<rows, edges, done>>

-----------------------------------------------------------------------------
Next ==
    \/ \E j \in Job :
        \/ \E when \in {"due", "later"} : Enqueue(j, when)
        \/ ComesDue(j)
        \/ LeaseExpires(j)
    \/ \E f \in Flow, when \in {"due", "later"} : EnqueueWorkflow(f, when)
    \/ \E w \in Worker :
        \/ FetchKeyedBegin(w)
        \/ FetchKeyedAbort(w)
        \/ \E S \in SUBSET Job :
            \/ FetchUnkeyed(w, S)
            \/ FetchKeyedCommit(w, S)
            \/ Complete(w, S)
            \/ DiscardMany(w, S)
            \/ RetryMany(w, S)
            \/ RenewLeases(w, S)
            \/ AbandonLeases(w, S)
    \/ \E s \in Sweeper :
        \/ \E E \in SUBSET Job : ReclaimScan(s, E)
        \/ ReclaimApply(s)
        \/ ReclaimFails(s)
        \/ \E S \in SUBSET Job : PruneApply(s, S) \/ \E states \in Pruned : PruneScan(s, S, states)
    \/ \E S \in SUBSET Job :
        \/ Cancel(S)
        \/ RetryDiscarded(S)
        \/ PurgeDiscarded(S)
    \/ \E C \in SUBSET (Worker \cup Sweeper) : Disconnect(C)

Spec == Init /\ [][Next]_vars

-----------------------------------------------------------------------------
\* A row has a holder and a lease exactly while it is running.  The schema only
\* pairs the two columns (gylo_job_lease_paired); that every statement that ends
\* or hands back a run also clears them, a stale RECLAIM included, and that the
\* cancelling walk of DISCARD_MANY, which clears neither, never meets a row that
\* has them, is up to the statements together.
LeaseIffRunning ==
    \A j \in Job :
        /\ (locked_by[j] # NoWorker) <=> (state[j] = "running")
        /\ (lease[j] # "none") <=> (state[j] = "running")

\* Admission control (ADMISSION_LOCK, FETCH_KEYED): with respect to any limit t
\* that a running job of key k carries, at most t jobs of k with a limit of t or
\* less run at once.  When all jobs of a key carry the same limit, that is the
\* limit.  It must survive two workers fetching at once, and rows that leave
\* `running` between the count and the admission.
KeyedLimit ==
    \A k \in Key : \A j \in Running(k) :
        Cardinality({i \in Running(k) : MaxConcurrency[i] <= MaxConcurrency[j]})
            <= MaxConcurrency[j]

\* Fan-in bookkeeping (COMPLETE): as long as a row exists, its pending_deps is
\* the number of its parents that never completed, whichever workers finished
\* them, in whatever batches, and whatever was retried or deleted in between.
PendingDepsExact ==
    \A c \in Job : Exists(c) => pending[c] = Cardinality(Parents(c) \ done)

\* Dependency order: a job that runs, or ever ran, had every parent completed
\* first.  The fetch never looks at pending_deps: the order rests on the parking
\* at infinity and on every statement that makes a row due again.
NoEarlyStart ==
    \A c \in Job :
        state[c] \in {"running", "completed", "discarded"} => Parents(c) \subseteq done

\* At most one completion per job: once completed, a row only ever leaves by
\* being deleted.  No late report, sweep or operator command runs it again.
CompletedIsFinal ==
    [][\A j \in done : state'[j] \in {"completed", "deleted"}]_vars

\* Nobody waits for nothing: a job that is still parked has a parent that never
\* completed.  COMPLETE releases a child in the statement that counts it down to
\* zero, and no statement parks a row again, so a lost release would be for ever.
NeverStranded ==
    \A c \in Job : state[c] = "available" /\ scheduled[c] = "infinity" => ~(Parents(c) \subseteq done)

-----------------------------------------------------------------------------
(***************************************************************************)
(* The strengthenings that make the invariants inductive.                  *)
(***************************************************************************)
\* A waiting job that is not parked at infinity has no parent to wait for.
ParkedUntilReleased ==
    \A c \in Job : state[c] = "available" /\ scheduled[c] # "infinity" => Parents(c) \subseteq done

\* A row that is still parked has a parent to wait for, whatever its state.
ParkedHasParent ==
    \A c \in Job : Exists(c) /\ scheduled[c] = "infinity" => ~(Parents(c) \subseteq done)

\* What completed came after everything upstream of it, deleted rows included.
AncestorsDone == \A j \in done : Parents(j) \subseteq done

DoneIsHistory ==
    \A j \in Job : /\ state[j] = "completed" => j \in done
                   /\ j \in done => state[j] \in {"completed", "deleted"}

\* Workflows appear whole, and gylo_edge holds the edges between existing rows.
FlowsWhole ==
    /\ \A e \in Edge : e \in edges <=> Exists(e[1]) /\ Exists(e[2])
    /\ \A i, j \in Job : WorkflowId[i] = WorkflowId[j] /\ WorkflowId[i] # NoFlow =>
           (state[i] = "absent" <=> state[j] = "absent")
    /\ \A j \in Job : state[j] = "absent" => pending[j] = 0

FlowInv ==
    /\ PendingDepsExact /\ NoEarlyStart /\ ParkedUntilReleased
    /\ ParkedHasParent /\ AncestorsDone /\ DoneIsHistory /\ FlowsWhole

\* While a worker admits, the count it read is an upper bound of the running
\* jobs of every key: only an admission could raise it, and it is alone.
AdmissionInv ==
    /\ KeyedLimit
    /\ \A v, w \in admitting : v = w
    /\ \A w \in admitting : \A k \in Key : Cardinality(Running(k)) <= active[w][k]

-----------------------------------------------------------------------------
(***************************************************************************)
(* What comments and documents of the repository say, and the statements   *)
(* do not do.                                                              *)
(***************************************************************************)
\* reclaim_expired says the split on `exhausted` keeps every fetch within
\* attempt <= max_attempts: a job that waits has an attempt left.
AvailableHasAttemptsLeft ==
    \A j \in Job : state[j] = "available" => attempt[j] < MaxAttempts[j]

\* docs/workflows.md says a job that dead-letters cancels everything downstream:
\* nothing below a discarded job is left waiting.
DeadLetterCascades ==
    \A p \in Job : state[p] = "discarded" => \A c \in Walk({p}) : state[c] # "available"
=============================================================================
