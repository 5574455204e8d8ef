---------------------------- MODULE JobLifecycle ----------------------------
(***************************************************************************)
(* What the queue promises about jobs, without leases, schedules, counters *)
(* or snapshots: a job waits, runs when everything it depends on has       *)
(* completed and its concurrency key has room, and ends; it completes at   *)
(* most once.  JobQueue and the Redis backend are shown to implement it.   *)
(***************************************************************************)
EXTENDS Integers, FiniteSets

CONSTANTS
    Job,
    Edge,            \* <<parent, child>>
    Key, NoKey,
    ConcurrencyKey,  \* of each job
    MaxConcurrency   \* of each job

VARIABLES
    status,          \* of each job
    completed        \* the jobs that ever completed

life == <<status, completed>>

Statuses == {"absent", "available", "running", "completed", "discarded", "cancelled", "deleted"}

In(s) == {j \in Job : status[j] = s}
DependsOn(j) == {p \in Job : <<p, j>> \in Edge}
Becomes(S, s) == [j \in Job |-> IF j \in S THEN s ELSE status[j]]

\* The running jobs of j's key that allow no more of them at once than j does.
Beside(j) ==
    {i \in Job : /\ status[i] = "running" /\ ConcurrencyKey[i] = ConcurrencyKey[j]
                 /\ MaxConcurrency[i] <= MaxConcurrency[j]}

\* No running job with a key sees more jobs beside it than it allows.
Room ==
    \A j \in Job : status[j] = "running" /\ ConcurrencyKey[j] # NoKey =>
        Cardinality(Beside(j)) <= MaxConcurrency[j]

LifeInit == status = [j \in Job |-> "absent"] /\ completed = {}

Submit(S) ==
    /\ S \subseteq In("absent")
    /\ status' = Becomes(S, "available")
    /\ UNCHANGED completed

\* A job starts once everything it depends on has completed.
Start(S) ==
    /\ S \subseteq In("available")
    /\ \A j \in S : DependsOn(j) \subseteq completed
    /\ status' = Becomes(S, "running")
    /\ Room'
    /\ UNCHANGED completed

Finish(S) ==
    /\ S \subseteq In("running")
    /\ status' = Becomes(S, "completed")
    /\ completed' = completed \cup S

\* Of the jobs in S, each moves to one of `to`; the rest stay.
Moves(S, to) ==
    /\ status' \in [Job -> Statuses]
    /\ \A j \in Job : IF j \in S THEN status'[j] \in to ELSE status'[j] = status[j]

\* An execution failed or was lost: it is repeated, or the job is given up.
Return(S) ==
    /\ S \subseteq In("running")
    /\ Moves(S, {"available", "discarded"})
    /\ UNCHANGED completed

\* Jobs are given up for good, and with them jobs that could not have started.
GiveUp(S) ==
    /\ \A j \in S : \/ status[j] = "running" /\ status'[j] = "discarded"
                    \/ /\ status[j] = "available" /\ status'[j] = "cancelled"
                       /\ ~(DependsOn(j) \subseteq completed)
    /\ Moves(S, {"discarded", "cancelled"})
    /\ UNCHANGED completed

Withdraw(S) ==
    /\ S \subseteq In("available")
    /\ status' = Becomes(S, "cancelled")
    /\ UNCHANGED completed

Revive(S) ==
    /\ S \subseteq In("discarded")
    /\ status' = Becomes(S, "available")
    /\ UNCHANGED completed

Forget(S) ==
    /\ S \subseteq In("completed") \cup In("discarded") \cup In("cancelled")
    /\ status' = Becomes(S, "deleted")
    /\ UNCHANGED completed

LifeNext ==
    \E S \in SUBSET Job :
        \/ Submit(S) \/ Start(S) \/ Finish(S) \/ Return(S) \/ GiveUp(S)
        \/ Withdraw(S) \/ Revive(S) \/ Forget(S)

LifeSpec == LifeInit /\ [][LifeNext]_life
=============================================================================
