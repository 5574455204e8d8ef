--------------------------- MODULE RedisLifecycle ---------------------------
(***************************************************************************)
(* How the Redis keys implement the life of a job.  The backend has no     *)
(* workflows and no concurrency keys (Capabilities in gylo-redis), so no   *)
(* job depends on another; a finished job leaves no key behind, completed  *)
(* or discarded alike.                                                     *)
(***************************************************************************)
EXTENDS RedisBackend

\* A job whose expired lease is reclaimed under a live client counts as given
\* up at that moment: from there on nothing is promised of it.
Status ==
  [j \in Job |-> IF j \in overtaken THEN "discarded"
                 ELSE IF j \in settled THEN "completed"
                 ELSE IF leased[j] # "none" THEN "running"
                 ELSE IF j \in payload THEN "available" ELSE "absent"]

\* Until it is overtaken, a job lives the same life in Redis as in Postgres:
\* whatever the clients do beside each other and wherever they die, it starts
\* only while it waits, one execution at a time, finishes at most once and only
\* out of an execution, and does not come back after that.
Lifecycle == INSTANCE JobLifecycle
             WITH status <- Status, completed <- settled \ overtaken,
                  Edge <- {}, Key <- {}, NoKey <- "none",
                  ConcurrencyKey <- [j \in Job |-> "none"],
                  MaxConcurrency <- [j \in Job |-> 1]
RedisImplementsLifecycle == Lifecycle!LifeSpec
=============================================================================
