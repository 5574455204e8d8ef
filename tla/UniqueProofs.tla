---------------------------- MODULE UniqueProofs ----------------------------
(***************************************************************************)
(* The properties of UniqueEnqueue for any number of callers and jobs.     *)
(***************************************************************************)
EXTENDS UniqueEnqueue, FiniteSetTheorems, TLAPS

\* What INSERT_UNIQUE relies on between its snapshot and its answer: the snapshot
\* holds every job that was committed when it was taken.
SnapshotComplete == \A c \in Caller : before[c] \subseteq snap[c]

UniqueInv == TypeOK /\ OneLive /\ SnapshotComplete

-----------------------------------------------------------------------------
\* Every initial state satisfies the invariant: there are no rows yet.
LEMMA UniqueStart == Init => UniqueInv
  BY UniqueConfig DEF Init, UniqueInv, TypeOK, OneLive, SnapshotComplete, Live, Row, States

\* The start of INSERT_UNIQUE keeps it: the snapshot shows visible rows only.
LEMMA UniqueBegin == ASSUME UniqueInv, NEW c \in Caller, EnqueueBegin(c) PROVE UniqueInv'
  BY UniqueConfig DEF EnqueueBegin, UniqueInv, TypeOK, OneLive, SnapshotComplete, Live, Row, States, Shown, Committed, Visible

\* The end of INSERT_UNIQUE keeps it: a row is added only where the index has
\* no live one, and the answer comes from the snapshot.
LEMMA UniqueEnds == ASSUME UniqueInv, NEW c \in Caller, EnqueueEnds(c) PROVE UniqueInv'
<1> USE UniqueConfig DEF UniqueInv
<1>1. CASE Conflict = {}
  <2>1. /\ next \in Row /\ next' = next + 1
        /\ state' = [state EXCEPT ![next] = "available"]
        /\ writer' = [writer EXCEPT ![next] = c]
        /\ answer' = [answer EXCEPT ![c] = next]
    BY <1>1 DEF EnqueueEnds
  <2>2. /\ stage' = [stage EXCEPT ![c] = "idle"]
        /\ snap' = [snap EXCEPT ![c] = {}] /\ before' = [before EXCEPT ![c] = {}]
    BY DEF EnqueueEnds
  <2>3. TypeOK'
    BY <2>1, <2>2 DEF TypeOK, States, Row
  <2>4. OneLive'
    BY <1>1, <2>1 DEF OneLive, TypeOK, Live, Conflict
  <2>5. SnapshotComplete'
    BY <2>2 DEF TypeOK, SnapshotComplete
  <2> QED BY <2>3, <2>4, <2>5
<1>2. CASE Conflict # {}
  <2>1. PICK r \in IF snap[c] = {} THEN {None} ELSE snap[c] : answer' = [answer EXCEPT ![c] = r]
    BY <1>2 DEF EnqueueEnds
  <2>2. /\ UNCHANGED <<state, writer, next>>
        /\ stage' = [stage EXCEPT ![c] = "idle"]
        /\ snap' = [snap EXCEPT ![c] = {}] /\ before' = [before EXCEPT ![c] = {}]
    BY <1>2 DEF EnqueueEnds
  <2>3. r \in Row \cup {None} /\ (r \in Row => r \in snap[c])
    BY <2>1 DEF TypeOK
  <2>4. TypeOK'
    BY <2>1, <2>2, <2>3 DEF TypeOK
  <2>5. OneLive' /\ SnapshotComplete'
    BY <2>2 DEF OneLive, Live, TypeOK, SnapshotComplete
  <2> QED BY <2>4, <2>5
<1> QED BY <1>1, <1>2

\* The end of a caller's transaction keeps it, commit and rollback alike.
LEMMA UniqueTransaction ==
  ASSUME UniqueInv, NEW c \in Caller, Commit(c) \/ Rollback(c) PROVE UniqueInv'
<1>1. PICK final \in [Row -> States] :
          Ends(c, final) /\ \A r \in Row : final[r] \in {state[r], "none"}
  BY DEF Commit, Rollback, UniqueInv, TypeOK, States
<1>2. TypeOK'
  BY <1>1, UniqueConfig DEF Ends, UniqueInv, TypeOK, States
<1>3. OneLive'
  BY <1>1 DEF Ends, UniqueInv, TypeOK, OneLive, Live
<1>4. SnapshotComplete'
  BY <1>1 DEF Ends, UniqueInv, SnapshotComplete
<1> QED BY <1>2, <1>3, <1>4 DEF UniqueInv

\* What workers, cancel and purge do to one committed row keeps it.
LEMMA UniqueMoves ==
  ASSUME UniqueInv, NEW r \in Row, Fetch(r) \/ Settle(r) \/ Cancel(r) \/ Purge(r) PROVE UniqueInv'
<1>1. PICK from \in States \ {"none"}, to \in States :
          /\ Moves(r, from, to)
          /\ to \in {"available", "running"} => from \in {"available", "running"}
  BY DEF Fetch, Settle, Cancel, Purge, States
<1> QED
  BY <1>1, UniqueConfig DEF Moves, UniqueInv, TypeOK, OneLive, SnapshotComplete, Live

\* RETRY_DISCARDED keeps it: it brings back one job, and only when none is live.
LEMMA UniqueRetry == ASSUME UniqueInv, NEW S \in SUBSET Row, RetryDiscarded(S) PROVE UniqueInv'
<1>1. IsFiniteSet(S)
  <2>1. MaxJobs \in Int /\ 1 \in Int
    BY UniqueConfig
  <2>2. IsFiniteSet(Row)
    BY <2>1, FS_Interval, Zenon DEF Row
  <2> QED BY <2>2, FS_Subset
<1>2. PICK r : S = {r}
  BY <1>1, FS_Singleton DEF RetryDiscarded
<1>3. \A s \in Row : ~Live(s)
  BY DEF RetryDiscarded, Conflict
<1>4. OneLive'
  BY <1>2, <1>3 DEF RetryDiscarded, OneLive, Live, UniqueInv, TypeOK
<1> QED
  BY <1>2, <1>4 DEF RetryDiscarded, UniqueInv, TypeOK, SnapshotComplete, States

\* Every step keeps the invariant.
LEMMA UniqueStep == UniqueInv /\ [Next]_vars => UniqueInv'
<1> SUFFICES ASSUME UniqueInv, [Next]_vars PROVE UniqueInv'
  OBVIOUS
<1>1. CASE UNCHANGED vars
  BY <1>1 DEF vars, UniqueInv, TypeOK, OneLive, SnapshotComplete, Live
<1>2. ASSUME NEW c \in Caller, EnqueueBegin(c) \/ EnqueueEnds(c) \/ Commit(c) \/ Rollback(c)
      PROVE UniqueInv'
  BY <1>2, UniqueBegin, UniqueEnds, UniqueTransaction
<1>3. ASSUME NEW r \in Row, Fetch(r) \/ Settle(r) \/ Cancel(r) \/ Purge(r) PROVE UniqueInv'
  BY <1>3, UniqueMoves
<1>4. ASSUME NEW S \in SUBSET Row, RetryDiscarded(S) PROVE UniqueInv'
  BY <1>4, UniqueRetry
<1> QED BY <1>1, <1>2, <1>3, <1>4 DEF Next

\* The invariant holds in every reachable state.
LEMMA UniqueCorrect == Spec => []UniqueInv
  BY UniqueStart, UniqueStep, PTL DEF Spec

-----------------------------------------------------------------------------
\* Two jobs of one key are never live together, for any number of callers whose
\* transactions overlap, whatever workers and operators do (gylo_job_unique).
THEOREM UniqueOneLive == Spec => []OneLive
<1>1. UniqueInv => OneLive
  BY DEF UniqueInv
<1> QED BY <1>1, UniqueCorrect, PTL

\* INSERT_UNIQUE comes back without an id only when the job it collided with was
\* not there when it began.
THEOREM UniqueUnanswered == Spec => UnansweredOnlyInARace
<1> DEFINE Race(c) == stage[c] = "began" /\ stage'[c] = "idle" /\ answer'[c] = None
                          => Conflict \cap before[c] = {}
<1>1. ASSUME UniqueInv, [Next]_vars, NEW c \in Caller PROVE Race(c)
  <2> SUFFICES ASSUME stage[c] = "began", stage'[c] = "idle", answer'[c] = None
               PROVE Conflict \cap before[c] = {}
    OBVIOUS
  <2>1. EnqueueEnds(c)
    BY <1>1 DEF Next, vars, EnqueueBegin, EnqueueEnds, Commit, Rollback, Ends, Fetch, Settle,
       Cancel, Purge, Moves, RetryDiscarded, UniqueInv, TypeOK
  <2>2. CASE Conflict = {}
    BY <2>2
  <2>3. CASE Conflict # {}
    <3>1. snap[c] = {}
      BY <1>1, <2>1, <2>3, UniqueConfig DEF EnqueueEnds, UniqueInv, TypeOK
    <3> QED BY <1>1, <3>1 DEF UniqueInv, SnapshotComplete
  <2> QED BY <2>2, <2>3
<1>2. UniqueInv /\ [Next]_vars => [\A c \in Caller : Race(c)]_vars
  BY <1>1
<1> QED BY <1>2, UniqueCorrect, PTL DEF Spec, UnansweredOnlyInARace
=============================================================================
