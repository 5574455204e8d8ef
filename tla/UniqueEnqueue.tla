--------------------------- MODULE UniqueEnqueue ----------------------------
(***************************************************************************)
(* Jobs enqueued with `unique`: INSERT_UNIQUE (python/gylo/_adapters.py)   *)
(* against the partial index gylo_job_unique, from callers whose           *)
(* transactions overlap, while workers settle the jobs and an operator     *)
(* retries dead letters.  Rows with different keys never meet, so the      *)
(* model has one key.                                                      *)
(*                                                                         *)
(* A statement reads what was committed when it began; the index is        *)
(* consulted later, and sees every transaction.                            *)
(***************************************************************************)
EXTENDS Integers, FiniteSets

CONSTANTS
    Caller,   \* connections that enqueue
    None,     \* no caller, no job
    Pending,  \* no answer yet
    MaxJobs   \* bound on inserted rows

Row == 1..MaxJobs

ASSUME UniqueConfig ==
    /\ MaxJobs \in Nat /\ None \notin Caller /\ None # Pending
    /\ None \notin Row /\ Pending \notin Row

States == {"none", "available", "running", "discarded", "final"}

VARIABLES
    state,   \* of each row; "final" is completed or cancelled
    writer,  \* the caller whose open transaction inserted the row, or None
    next,    \* the identity column
    stage,   \* per caller: "idle" or "began", inside INSERT_UNIQUE
    snap,    \* per caller, the live rows its statement can see
    before,  \* history: per caller, the rows live and committed when it began
    answer   \* per caller, what its last enqueue returned in this transaction:
             \* Pending, an id, or None for no row

vars == <<state, writer, next, stage, snap, before, answer>>

TypeOK ==
    /\ state \in [Row -> States] /\ writer \in [Row -> Caller \cup {None}]
    /\ next \in 1..(MaxJobs + 1) /\ stage \in [Caller -> {"idle", "began"}]
    /\ snap \in [Caller -> SUBSET Row] /\ before \in [Caller -> SUBSET Row]
    /\ answer \in [Caller -> Row \cup {None, Pending}]

Init ==
    /\ state = [r \in Row |-> "none"] /\ writer = [r \in Row |-> None]
    /\ next = 1 /\ stage = [c \in Caller |-> "idle"]
    /\ snap = [c \in Caller |-> {}] /\ before = snap /\ answer = [c \in Caller |-> Pending]

\* The predicate of the index, _UNIQUE_PREDICATE and _LIVE.
Live(r) == state[r] \in {"available", "running"}
Visible(c, r) == writer[r] \in {None, c}
Committed == {r \in Row : Live(r) /\ writer[r] = None}

\* Mutant of Shown: the SELECT looks for waiting jobs only.
ShownWaiting(c) == {r \in Row : state[r] = "available" /\ Visible(c, r)}

\* The rows the second SELECT of INSERT_UNIQUE finds.
Shown(c) == {r \in Row : Live(r) /\ Visible(c, r)}
Foreign(c) == {r \in Row : Live(r) /\ ~Visible(c, r)}

\* Mutant of Conflict: the index covers waiting jobs only.
ConflictWaiting == {r \in Row : state[r] = "available"}

\* What a row of this key runs into in the index.
Conflict == {r \in Row : Live(r)}

-----------------------------------------------------------------------------
\* INSERT_UNIQUE starts: its snapshot is taken.
EnqueueBegin(c) ==
    /\ stage[c] = "idle"
    /\ stage' = [stage EXCEPT ![c] = "began"]
    /\ snap' = [snap EXCEPT ![c] = Shown(c)] /\ before' = [before EXCEPT ![c] = Committed]
    /\ UNCHANGED <<state, writer, next, answer>>

\* The insert meets the index.  It waits for the transaction of a conflicting
\* row that is not committed; a conflicting row makes it do nothing, and the
\* answer is then what the second SELECT sees in the snapshot.
EnqueueEnds(c) ==
    /\ stage[c] = "began" /\ Foreign(c) = {}
    /\ stage' = [stage EXCEPT ![c] = "idle"]
    /\ snap' = [snap EXCEPT ![c] = {}] /\ before' = [before EXCEPT ![c] = {}]
    /\ IF Conflict = {}
       THEN /\ next \in Row /\ next' = next + 1
            /\ state' = [state EXCEPT ![next] = "available"]
            /\ writer' = [writer EXCEPT ![next] = c]
            /\ answer' = [answer EXCEPT ![c] = next]
       ELSE /\ \E r \in IF snap[c] = {} THEN {None} ELSE snap[c] :
                   answer' = [answer EXCEPT ![c] = r]
            /\ UNCHANGED <<state, writer, next>>

\* The caller's transaction ends, with everything it inserted.
Ends(c, final) ==
    /\ stage[c] = "idle" /\ answer[c] # Pending
    /\ writer' = [r \in Row |-> IF writer[r] = c THEN None ELSE writer[r]]
    /\ state' = [r \in Row |-> IF writer[r] = c THEN final[r] ELSE state[r]]
    /\ answer' = [answer EXCEPT ![c] = Pending]
    /\ UNCHANGED <<next, stage, snap, before>>

Commit(c) == Ends(c, state)
Rollback(c) == Ends(c, [r \in Row |-> "none"])

-----------------------------------------------------------------------------
\* A worker leases, settles, retries or loses a committed job; `cancel` ends a
\* waiting one.
Moves(r, from, to) ==
    /\ writer[r] = None /\ state[r] = from
    /\ state' = [state EXCEPT ![r] = to]
    /\ UNCHANGED <<writer, next, stage, snap, before, answer>>

Fetch(r) == Moves(r, "available", "running")
Settle(r) == \E to \in {"final", "discarded", "available"} : Moves(r, "running", to)
Cancel(r) == Moves(r, "available", "final")
Purge(r) == Moves(r, "discarded", "none")

\* RETRY_DISCARDED over the dead letters S: each row enters the index again.
\* One conflict, with a live row or between two rows of S, fails them all.
RetryDiscarded(S) ==
    /\ S # {} /\ \A r \in S : writer[r] = None /\ state[r] = "discarded"
    /\ \A r \in Row : Live(r) => writer[r] = None
    /\ Conflict = {} /\ Cardinality(S) = 1
    /\ state' = [r \in Row |-> IF r \in S THEN "available" ELSE state[r]]
    /\ UNCHANGED <<writer, next, stage, snap, before, answer>>

Next ==
    \/ \E c \in Caller : EnqueueBegin(c) \/ EnqueueEnds(c) \/ Commit(c) \/ Rollback(c)
    \/ \E r \in Row : Fetch(r) \/ Settle(r) \/ Cancel(r) \/ Purge(r)
    \/ \E S \in SUBSET Row : RetryDiscarded(S)

Spec == Init /\ [][Next]_vars

-----------------------------------------------------------------------------
\* Two jobs of one key are never waiting or running together, whichever way
\* they came to be: inserted by racing callers, sent back by a worker, or
\* returned from the dead letters (gylo_job_unique, docs/tasks.md).
OneLive == \A r, s \in Row : Live(r) /\ Live(s) => r = s

\* An enqueue comes back without an id only when it lost a race: the job in its
\* way was enqueued or brought back after the statement began.  A job that was
\* there before, waiting or running, is always answered.  What the caller makes of
\* no row depends on the driver: fetchone()[0] of the two psycopg adapters raises
\* TypeError, fetchval of asyncpg returns None from an `enqueue` that promises int.
UnansweredOnlyInARace ==
    [][\A c \in Caller : stage[c] = "began" /\ stage'[c] = "idle" /\ answer'[c] = None
            => Conflict \cap before[c] = {}]_vars
=============================================================================
