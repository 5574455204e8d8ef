----------------------------- MODULE Retention ------------------------------
(***************************************************************************)
(* Retention: the retain task of each worker (crates/gylo-worker), the     *)
(* command `gylo jobs prune` (crates/gylo-cli) and the statements PRUNE    *)
(* and prune_workflows (crates/gylo-pg) they both run, while jobs finish   *)
(* and grow old and an operator retries or purges dead letters.            *)
(*                                                                         *)
(* PRUNE is two steps: it finds and locks rows, then deletes them; what    *)
(* may happen between its snapshot and its locks is in JobQueue            *)
(* (PruneScan, PruneApply).  A job's age counts retention windows.         *)
(***************************************************************************)
EXTENDS Integers, FiniteSets, FiniteSetsExt

CONSTANTS
    Job, Flow, NoFlow, None,
    WorkflowId,       \* the workflow of each job, or NoFlow
    Queue, AnyQueue,  \* queues, and the argument NULL
    QueueOf,
    Keeper,           \* workers, each with its retain task
    Cli,              \* the process of `gylo jobs prune`
    RetainCompleted, RetainDiscarded, MaxAge,
    PruneBatch,       \* prune_batch, and the 5000 of the command
    Command,          \* the arguments `gylo jobs prune` may be given
    MaxFaults         \* bound on errors, slow statements and aborted ticks

Process == Keeper \cup {Cli}
Finished == {"completed", "discarded"}

ASSUME RetentionConfig ==
    /\ WorkflowId \in [Job -> Flow \cup {NoFlow}] /\ NoFlow \notin Flow /\ None \notin Command
    /\ \A f \in Flow : \E j \in Job : WorkflowId[j] = f
    /\ QueueOf \in [Job -> Queue] /\ AnyQueue \notin Queue
    /\ Cli \notin Keeper /\ IsFiniteSet(Job)
    /\ {RetainCompleted, RetainDiscarded} \subseteq 0..MaxAge
    /\ Command \subseteq
           [older_than : 0..MaxAge, queue : Queue \cup {AnyQueue}, discarded : BOOLEAN]
    /\ PruneBatch \in Nat \ {0} /\ MaxFaults \in Nat

VARIABLES
    state,      \* "live" (waiting or running), "completed" (or cancelled),
                \* "discarded", or "none" once the row is deleted
    age,        \* windows passed since finalized_at
    flows,      \* the rows of gylo_workflow
    at,         \* what each process is about: "asleep", or the rows it prunes
    pruning,    \* its PRUNE is open
    run,        \* the command running, or None
    locked,     \* the rows it holds FOR UPDATE
    removed,    \* it has deleted something since it began
    faults,
    handled,    \* history: workflows with a dead letter retried or purged
    forgotten   \* history: empty workflows nobody was left to remove

jobs == <<state, age>>
histories == <<handled, forgotten>>
vars == <<jobs, flows, at, pruning, run, locked, removed, faults, histories>>

TypeOK ==
    /\ state \in [Job -> Finished \cup {"live", "none"}] /\ age \in [Job -> 0..MaxAge]
    /\ flows \subseteq Flow /\ handled \subseteq Flow /\ forgotten \subseteq Flow
    /\ at \in [Process -> {"asleep", "workflows"} \cup Finished]
    /\ pruning \in [Process -> BOOLEAN]
    /\ run \in Command \cup {None}
    /\ locked \in [Process -> SUBSET Job]
    /\ removed \in [Process -> BOOLEAN] /\ faults \in 0..MaxFaults

Init ==
    /\ state = [j \in Job |-> "live"] /\ age = [j \in Job |-> 0] /\ flows = Flow
    /\ at = [p \in Process |-> "asleep"] /\ pruning = [p \in Process |-> FALSE]
    /\ run = None /\ locked = [p \in Process |-> {}] /\ removed = [p \in Process |-> FALSE]
    /\ faults = 0 /\ handled = {} /\ forgotten = {}

\* The jobs S take the state s; finalized_at is new or gone.
Become(S, s) ==
    /\ state' = [j \in Job |-> IF j \in S THEN s ELSE state[j]]
    /\ age' = [j \in Job |-> IF j \in S THEN 0 ELSE age[j]]

Members(f) == {j \in Job : WorkflowId[j] = f}
Empty(f) == \A j \in Members(f) : state[j] = "none"

-----------------------------------------------------------------------------
\* Jobs, and the operator's retry and purge.

\* A job completes, is cancelled, or is discarded.
Finish(j, s) ==
    /\ state[j] = "live" /\ Become({j}, s)
    /\ UNCHANGED <<flows, at, pruning, run, locked, removed, faults, histories>>

TimePasses ==
    /\ age' = [j \in Job |-> IF state[j] \in Finished THEN Min({age[j] + 1, MaxAge}) ELSE age[j]]
    /\ UNCHANGED <<state, flows, at, pruning, run, locked, removed, faults, histories>>

\* The dead letters a statement without SKIP LOCKED can write.
DeadLetters == {j \in Job : state[j] = "discarded" /\ \A p \in Process : j \notin locked[p]}
Handles(S) == handled \cup {f \in Flow : Members(f) \cap S # {}}

RetryDiscarded(S) ==
    /\ S # {} /\ S \subseteq DeadLetters
    /\ Become(S, "live") /\ handled' = Handles(S)
    /\ UNCHANGED <<flows, at, pruning, run, locked, removed, faults, forgotten>>

\* `gylo jobs purge` does not look at gylo_workflow.
PurgeDiscarded(q) ==
    LET S == {j \in Job : state[j] = "discarded" /\ q \in {AnyQueue, QueueOf[j]}}
    IN  /\ S # {} /\ S \subseteq DeadLetters
        /\ Become(S, "none")
        /\ forgotten' = forgotten \cup {f \in flows : Empty(f)'} /\ handled' = Handles(S)
        /\ UNCHANGED <<flows, at, pruning, run, locked, removed, faults>>

-----------------------------------------------------------------------------
\* PRUNE.

Window(s) == IF s = "completed" THEN RetainCompleted ELSE RetainDiscarded
OlderThan(p) == IF p = Cli THEN run.older_than ELSE Window(at[p])
InQueue(p, j) == p = Cli => run.queue \in {AnyQueue, QueueOf[j]}

Expires(p, j) == state[j] = at[p] /\ age[j] >= OlderThan(p) /\ InQueue(p, j)

\* Mutant of Quiet: only the members in the pruned queue are looked at.
QuietInQueue(p, j) ==
    WorkflowId[j] \in Flow =>
        \A u \in Members(WorkflowId[j]) : InQueue(p, u) => state[u] # "live"

\* NOT EXISTS a waiting or running member of the workflow.
Quiet(p, j) == WorkflowId[j] \in Flow => \A u \in Members(WorkflowId[j]) : state[u] # "live"

\* ORDER BY finalized_at LIMIT: the oldest of S, as many as a batch holds.
Oldest(S) ==
    {B \in SUBSET S : /\ Cardinality(B) = Min({PruneBatch, Cardinality(S)})
                      /\ \A b \in B, j \in S \ B : age[b] >= age[j]}

Unlocked(p) == {j \in Job : \A o \in Process \ {p} : j \notin locked[o]}

\* Mutant of Victims: the batch is cut before the workflows are looked at.
VictimsCutFirst(p) ==
    {{j \in B : Quiet(p, j)} : B \in Oldest({j \in Unlocked(p) : Expires(p, j)})}

\* FOR UPDATE SKIP LOCKED: rows another statement holds are passed over.
Victims(p) == Oldest({j \in Unlocked(p) : Expires(p, j) /\ Quiet(p, j)})

Lock(p) ==
    /\ at[p] \in Finished /\ ~pruning[p]
    /\ \E B \in Victims(p) : locked' = [locked EXCEPT ![p] = B]
    /\ pruning' = [pruning EXCEPT ![p] = TRUE]
    /\ UNCHANGED <<jobs, flows, at, run, removed, faults, histories>>

-----------------------------------------------------------------------------
\* The loops around it.

\* After the last batch of the tick: prune_workflows if anything was removed.
\* The command runs it in any case.
Winds(p, some) == IF some \/ p = Cli THEN "workflows" ELSE "asleep"

\* After the completed jobs: dead letters, unless the tick's budget is spent or
\* the command was given no --discarded.
Turns(p, slow, some) ==
    IF slow \/ (p = Cli /\ ~run.discarded) THEN Winds(p, some) ELSE "discarded"

\* What comes after a batch.  A full batch is followed by another one, except
\* when it took too long and except for the dead letters of a tick.
After(p, full, slow, some) ==
    CASE at[p] = "completed" /\ full /\ ~slow -> "completed"
      [] at[p] = "completed" /\ (~full \/ slow) -> Turns(p, slow, some)
      [] at[p] = "discarded" /\ full /\ p = Cli -> "discarded"
      [] at[p] = "discarded" /\ ~(full /\ p = Cli) -> Winds(p, some)

Fault == faults < MaxFaults /\ faults' = faults + 1

\* Mutant of Delete: deleted dead letters are not counted.
DeleteUncounted(p, slow) ==
    LET B == locked[p]
        some == removed[p] \/ (B # {} /\ at[p] = "completed")
    IN  /\ pruning[p]
        /\ Become(B, "none")
        /\ locked' = [locked EXCEPT ![p] = {}] /\ pruning' = [pruning EXCEPT ![p] = FALSE]
        /\ removed' = [removed EXCEPT ![p] = some]
        /\ at' = [at EXCEPT ![p] = After(p, Cardinality(B) = PruneBatch, slow, some)]
        /\ IF slow THEN Fault ELSE UNCHANGED faults
        /\ UNCHANGED <<flows, run, histories>>

\* The DELETE commits; `slow` when the tick has now used up TICK_BUDGET.
Delete(p, slow) ==
    LET B == locked[p]
        some == removed[p] \/ B # {}
    IN  /\ pruning[p]
        /\ Become(B, "none")
        /\ locked' = [locked EXCEPT ![p] = {}] /\ pruning' = [pruning EXCEPT ![p] = FALSE]
        /\ removed' = [removed EXCEPT ![p] = some]
        /\ at' = [at EXCEPT ![p] = After(p, Cardinality(B) = PruneBatch, slow, some)]
        /\ IF slow THEN Fault ELSE UNCHANGED faults
        /\ UNCHANGED <<flows, run, histories>>

\* The command exits.
Leaves(p) == run' = IF p = Cli THEN None ELSE run

PruneWorkflows(p) ==
    /\ at[p] = "workflows"
    /\ flows' = {f \in flows : ~Empty(f)}
    /\ at' = [at EXCEPT ![p] = "asleep"] /\ removed' = [removed EXCEPT ![p] = FALSE]
    /\ Leaves(p)
    /\ UNCHANGED <<jobs, pruning, locked, faults, histories>>

\* The process is done for now, its open statement rolled back.
Ends(p) ==
    /\ at' = [at EXCEPT ![p] = "asleep"] /\ removed' = [removed EXCEPT ![p] = FALSE]
    /\ pruning' = [pruning EXCEPT ![p] = FALSE]
    /\ locked' = [locked EXCEPT ![p] = {}]
    /\ forgotten' = forgotten \cup {f \in flows : removed[p] /\ Empty(f)}
    /\ Leaves(p)
    /\ UNCHANGED <<jobs, flows, handled>>

\* A PRUNE fails in a tick: logged, and the tick goes on.
PruneFails(k, slow) ==
    /\ at[k] \in Finished /\ Fault
    /\ at' = [at EXCEPT ![k] = After(k, FALSE, slow, removed[k])]
    /\ pruning' = [pruning EXCEPT ![k] = FALSE]
    /\ locked' = [locked EXCEPT ![k] = {}]
    /\ UNCHANGED <<jobs, flows, run, removed, histories>>

\* prune_workflows fails, the command fails or is interrupted at any statement,
\* or the worker stops: run() aborts the task at whichever await it is at.
Aborts(p) == at[p] # "asleep" /\ Fault /\ Ends(p)

Wake(k) ==
    /\ at[k] = "asleep" /\ at' = [at EXCEPT ![k] = "completed"]
    /\ UNCHANGED <<jobs, flows, pruning, run, locked, removed, faults, histories>>

\* gylo jobs prune --older-than w [--queue q] [--discarded].
PruneFinished(command) ==
    /\ at[Cli] = "asleep" /\ at' = [at EXCEPT ![Cli] = "completed"] /\ run' = command
    /\ UNCHANGED <<jobs, flows, pruning, locked, removed, faults, histories>>

-----------------------------------------------------------------------------
Step(p) == Lock(p) \/ Delete(p, FALSE) \/ PruneWorkflows(p)

Next ==
    \/ TimePasses
    \/ \E j \in Job, s \in Finished : Finish(j, s)
    \/ \E S \in SUBSET Job : RetryDiscarded(S)
    \/ \E q \in Queue \cup {AnyQueue} : PurgeDiscarded(q)
    \/ \E command \in Command : PruneFinished(command)
    \/ \E p \in Process : Step(p) \/ Aborts(p)
    \/ \E k \in Keeper : Wake(k) \/ Delete(k, TRUE) \/ \E slow \in BOOLEAN : PruneFails(k, slow)

\* Both loops go on; faults stop at MaxFaults.  Nothing obliges a job to finish
\* or an operator to act.
Fairness ==
    /\ \A k \in Keeper : WF_vars(Wake(k) \/ Step(k))
    /\ WF_vars(Step(Cli))

Spec == Init /\ [][Next]_vars
FairSpec == Spec /\ Fairness

-----------------------------------------------------------------------------
\* While a member of a workflow waits or runs, none of its members is deleted,
\* in whatever queue and however old (docs/workflows.md: "a graph under
\* inspection always reads whole").  The exceptions are the operator's: dead
\* letters purged by hand, and a workflow that was over and lives again because
\* a dead letter was retried, when members may have been pruned before or have
\* been found by a PRUNE that deletes them later.
WholeWhileLive ==
    \A f \in Flow \ handled :
        (\E u \in Members(f) : state[u] = "live") => \A j \in Members(f) : state[j] # "none"

\* A workflow row without jobs always has somebody who will still run
\* prune_workflows, unless that process failed or was stopped before it, or the
\* jobs were purged by hand (the `removed > 0` of retain).
EmptyFlowCollected ==
    \A f \in flows : Empty(f) =>
        f \in forgotten \/ \E p \in Process : at[p] # "asleep" /\ removed[p]

\* A job past its window is deleted in the end, whatever else is pruned at the
\* same time, in however small batches, and however many workflows are kept
\* back by a member that never ends, unless the job or its workflow comes to
\* life again (retain: "a large backlog is worked off across ticks").
Overdue(j) ==
    state[j] \in Finished /\ age[j] >= Window(state[j])
        /\ (WorkflowId[j] \in Flow => \A u \in Members(WorkflowId[j]) : state[u] # "live")
BacklogWorkedOff == \A j \in Job : Overdue(j) ~> ~Overdue(j)
=============================================================================
