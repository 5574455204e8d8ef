--------------------------- MODULE QueueLifecycle ---------------------------
(***************************************************************************)
(* How the job table implements the life of a job: the state column is the *)
(* status, the history of completions is the set of completed jobs.        *)
(***************************************************************************)
EXTENDS JobQueue

\* The statements together implement the life of a job: it starts only after
\* everything it depends on and while its key has room, completes at most once,
\* and a cascade of DISCARD_MANY cancels only what could not have started.
Lifecycle == INSTANCE JobLifecycle WITH status <- state, completed <- done
ImplementsLifecycle == Lifecycle!LifeSpec
=============================================================================
