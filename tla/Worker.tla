------------------------------- MODULE Worker -------------------------------
(***************************************************************************)
(* The supervisor of crates/gylo-worker over the job table of JobQueue.    *)
(*                                                                         *)
(* A member of Worker is one supervise(): a lease identity, the set of ids *)
(* it has in flight, and a succession of sessions, each around one Python  *)
(* child.  Within a session the dispatcher fetches and reserves, the child *)
(* executes, the collector writes outcomes back, and renew() extends what  *)
(* is in flight; they meet only in `inflight` and in the table.            *)
(*                                                                         *)
(* Statements and sessions fail, at most MaxFaults times in a behaviour.   *)
(***************************************************************************)
EXTENDS JobQueue

CONSTANTS
    Recover,      \* the connection recover() sweeps on; hand_back uses w's own
    Process,      \* the worker process each worker is a child slot of
    Stoppable,    \* processes that may be told to shut down, or be killed
    Batch,        \* config.batch
    Concurrency,  \* config.concurrency
    MaxRestarts,  \* config.max_restarts
    Unencodable,  \* jobs whose dispatch frame encode() rejects
    Returns,      \* the outcomes each job's executions may report
    Overruns,     \* <<job, attempt>>: synchronous bodies that outlast their timeout
    MaxFaults     \* bound on failing statements and sessions

Outcomes == {"success", "result", "retry", "terminal", "unreadable"}

ASSUME WorkerConfig ==
    /\ Sweeper = Worker \cup {Recover} /\ Recover \notin Worker
    /\ Unencodable \subseteq Job /\ Overruns \subseteq Job \X Nat
    /\ Batch \in 1..Limit /\ Concurrency \in Nat \ {0} /\ MaxRestarts \in Nat
    /\ Returns \in [Job -> SUBSET Outcomes] /\ MaxFaults \in Nat

VARIABLES
    phase,      \* where supervise() is
    shutdown,   \* the cancellation token
    restarts,   \* consecutive
    inflight,   \* InFlight.ids
    fetch,      \* where fetch() is: "idle", "keyed", "admit", "got"
    limit,      \* the limit dispatch passed to fetch()
    fetched,    \* <<job, attempt>>: what fetch() leased and dispatch has not reserved
    child,      \* <<job, attempt>>: what the Python child runs and has not reported
    left,       \* <<job, attempt>>: threads of the child that outlived their timeout
    reported,   \* <<job, outcome>>: written by the child, not in a flush yet
    flushing,   \* <<job, outcome>>: in the flush, statement still to come
    settling,   \* the ids the flush releases at its end
    deaf,       \* the collector has returned
    renewing,   \* the snapshot renew() is about to extend
    handing,    \* what hand_back took
    lapsed,     \* history: jobs whose lease ran out or was reclaimed live
    faults      \* failures so far

jobs == <<rows, edges, done, snapshots>>
collector == <<reported, flushing, settling, deaf>>
dispatcher == <<fetch, limit, fetched>>
session == <<phase, shutdown, restarts, handing>>
local == <<session, dispatcher, collector, inflight, child, left, renewing, lapsed, faults>>
allvars == <<jobs, local>>

Phases == {"starting", "serving", "draining", "closing", "dead", "abandoning", "reclaiming",
           "backoff", "stopped"}

WorkerTypeOK ==
    /\ TypeOK
    /\ phase \in [Worker -> Phases] /\ shutdown \in [Worker -> BOOLEAN]
    /\ restarts \in [Worker -> Nat] /\ faults \in 0..MaxFaults
    /\ fetch \in [Worker -> {"idle", "keyed", "admit", "got"}]
    /\ limit \in [Worker -> 0..Batch]
    /\ \A w \in Worker :
        /\ inflight[w] \cup settling[w] \cup renewing[w] \cup handing[w] \subseteq Job
        /\ fetched[w] \cup child[w] \cup left[w] \subseteq Job \X Nat
        /\ reported[w] \cup flushing[w] \subseteq Job \X Outcomes
    /\ deaf \in [Worker -> BOOLEAN] /\ lapsed \subseteq Job

Empty == [w \in Worker |-> {}]

WorkerInit ==
    /\ Init
    /\ phase = [w \in Worker |-> "starting"] /\ shutdown = [w \in Worker |-> FALSE]
    /\ restarts = [w \in Worker |-> 0] /\ handing = Empty
    /\ fetch = [w \in Worker |-> "idle"] /\ limit = [w \in Worker |-> 0] /\ fetched = Empty
    /\ reported = Empty /\ flushing = Empty /\ settling = Empty
    /\ deaf = [w \in Worker |-> FALSE]
    /\ inflight = Empty /\ child = Empty /\ left = Empty /\ renewing = Empty
    /\ lapsed = {} /\ faults = 0

Fault == faults < MaxFaults /\ faults' = faults + 1
JobsOf(pairs) == {x[1] : x \in pairs}
Set(f, w, v) == [f EXCEPT ![w] = v]

-----------------------------------------------------------------------------
(***************************************************************************)
(* The dispatcher                                                          *)
(***************************************************************************)
Available(w) ==
    LET held == Cardinality(inflight[w]) IN IF held < Concurrency THEN Concurrency - held ELSE 0

KeyedWaiting == \E j \in Eligible : ConcurrencyKey[j] # NoKey
Smaller(m, n) == IF m < n THEN m ELSE n
Spare(w) == IF limit[w] > Cardinality(fetched[w]) THEN limit[w] - Cardinality(fetched[w]) ELSE 1

\* Mutant of FetchFirst: what is in flight does not count against the batch.
FetchFirstWholeBatch(w, S) ==
    /\ phase[w] = "serving" /\ ~shutdown[w] /\ fetch[w] = "idle" /\ Available(w) > 0
    /\ Cardinality(S) <= Batch /\ (S # {} \/ KeyedWaiting)
    /\ IF S = {} THEN UNCHANGED jobs ELSE FetchUnkeyed(w, S)
    /\ fetch' = Set(fetch, w, IF KeyedWaiting THEN "keyed" ELSE "got")
    /\ limit' = Set(limit, w, Batch)
    /\ fetched' = Set(fetched, w, {<<j, attempt'[j]>> : j \in S})
    /\ UNCHANGED <<session, collector, inflight, child, left, renewing, lapsed, faults>>

\* One turn of dispatch's loop up to the first pass of fetch(), which also
\* says whether keyed work waits.
FetchFirst(w, S) ==
    LET room == Smaller(Batch, Available(w)) IN
    /\ phase[w] = "serving" /\ ~shutdown[w] /\ fetch[w] = "idle" /\ Available(w) > 0
    /\ Cardinality(S) <= room /\ (S # {} \/ KeyedWaiting)
    /\ IF S = {} THEN UNCHANGED jobs ELSE FetchUnkeyed(w, S)
    /\ fetch' = Set(fetch, w, IF KeyedWaiting THEN "keyed" ELSE "got")
    /\ limit' = Set(limit, w, room)
    /\ fetched' = Set(fetched, w, {<<j, attempt'[j]>> : j \in S})
    /\ UNCHANGED <<session, collector, inflight, child, left, renewing, lapsed, faults>>

FetchLock(w) ==
    /\ fetch[w] = "keyed"
    /\ FetchKeyedBegin(w)
    /\ fetch' = Set(fetch, w, "admit")
    /\ UNCHANGED <<limit, fetched, session, collector, inflight, child, left, renewing, lapsed, faults>>

\* The keyed pass, never asked for fewer than one job.
FetchSecond(w, L) ==
    /\ fetch[w] = "admit"
    /\ Cardinality(L) <= Spare(w)
    /\ FetchKeyedCommit(w, L)
    /\ fetched' = Set(fetched, w, fetched[w] \cup {<<j, attempt'[j]>> : j \in {l \in L : state'[l] = "running"}})
    /\ fetch' = Set(fetch, w, "got")
    /\ UNCHANGED <<limit, session, collector, inflight, child, left, renewing, lapsed, faults>>

\* The keyed pass fails: fetch() returns the error, and with it drops the jobs
\* the first pass leased.
FetchFails(w) ==
    /\ fetch[w] \in {"keyed", "admit"} /\ Fault
    /\ IF w \in admitting THEN FetchKeyedAbort(w) ELSE UNCHANGED jobs
    /\ fetched' = Set(fetched, w, {}) /\ fetch' = Set(fetch, w, "idle")
    /\ UNCHANGED <<limit, session, collector, inflight, child, left, renewing, lapsed>>

\* A statement commits and its reply never arrives.
FetchLost(w, S) ==
    /\ phase[w] = "serving" /\ Fault
    /\ \/ /\ fetch[w] = "idle" /\ ~shutdown[w]
          /\ Cardinality(S) <= Smaller(Batch, Available(w)) /\ FetchUnkeyed(w, S)
       \/ fetch[w] = "admit" /\ Cardinality(S) <= Spare(w) /\ FetchKeyedCommit(w, S)
    /\ fetched' = Set(fetched, w, {}) /\ fetch' = Set(fetch, w, "idle")
    /\ UNCHANGED <<limit, session, collector, inflight, child, left, renewing, lapsed>>

\* A job encode() rejects is discarded, with everything below it.
DispatchDiscard(w, x) ==
    /\ fetch[w] = "got" /\ x \in fetched[w] /\ x[1] \in Unencodable
    /\ \/ /\ IF x[1] \in Held(w) THEN DiscardMany(w, {x[1]}) ELSE UNCHANGED jobs
          /\ UNCHANGED faults
       \/ UNCHANGED jobs /\ Fault
    /\ fetched' = Set(fetched, w, fetched[w] \ {x})
    /\ UNCHANGED <<fetch, limit, session, collector, inflight, child, left, renewing, lapsed>>

\* The rest is reserved and written to the child.
Dispatch(w) ==
    /\ fetch[w] = "got" /\ JobsOf(fetched[w]) \cap Unencodable = {}
    /\ inflight' = Set(inflight, w, inflight[w] \cup JobsOf(fetched[w]))
    /\ child' = Set(child, w, child[w] \cup fetched[w])
    /\ fetched' = Set(fetched, w, {}) /\ fetch' = Set(fetch, w, "idle")
    /\ UNCHANGED <<jobs, limit, session, collector, left, renewing, lapsed, faults>>

-----------------------------------------------------------------------------
(***************************************************************************)
(* The child and the collector                                             *)
(***************************************************************************)
\* An execution is reported.  It has ended, but for a synchronous body that failed
\* by its timeout: its thread cannot be interrupted and runs on.  A frame the
\* decoder rejects makes the collector flush what it has and return for good.
Finish(w, x, o) ==
    /\ x \in child[w] /\ o \in Returns[x[1]]
    /\ child' = Set(child, w, child[w] \ {x})
    /\ left' = Set(left, w, left[w] \cup IF o \in {"retry", "terminal"} THEN {x} \cap Overruns ELSE {})
    /\ deaf' = Set(deaf, w, deaf[w] \/ o = "unreadable")
    /\ reported' = Set(reported, w, reported[w] \cup IF deaf'[w] THEN {} ELSE {<<x[1], o>>})
    /\ UNCHANGED <<jobs, session, dispatcher, flushing, settling, inflight, renewing, lapsed, faults>>

\* Such a thread comes to its end, unnoticed.
ThreadEnds(w, x) ==
    /\ x \in left[w]
    /\ left' = Set(left, w, left[w] \ {x})
    /\ UNCHANGED <<jobs, session, dispatcher, collector, inflight, child, renewing, lapsed, faults>>

FlushBegin(w) ==
    /\ reported[w] # {} /\ settling[w] = {}
    /\ flushing' = Set(flushing, w, reported[w])
    /\ settling' = Set(settling, w, JobsOf(reported[w]))
    /\ reported' = Set(reported, w, {})
    /\ UNCHANGED <<jobs, session, dispatcher, deaf, inflight, child, left, renewing, lapsed, faults>>

\* The statement for each kind of outcome, on the rows w still holds.
Settle(w, o, S) ==
    CASE S = {} -> UNCHANGED jobs
      [] S # {} /\ o \in {"success", "result"} -> Complete(w, S)
      [] S # {} /\ o = "retry" -> RetryMany(w, S)
      [] S # {} /\ o = "terminal" -> DiscardMany(w, S)

\* The statements of flush run in this order, each whatever became of the last.
FlushOrder(o) == CASE o = "success" -> 1 [] o = "result" -> 2 [] o = "retry" -> 3 [] o = "terminal" -> 4

FlushStatement(w, o) ==
    LET S == {j \in Job : <<j, o>> \in flushing[w]} IN
    /\ S # {} /\ \A x \in flushing[w] : FlushOrder(o) <= FlushOrder(x[2])
    /\ \/ Settle(w, o, S \cap Held(w)) /\ UNCHANGED faults
       \/ UNCHANGED jobs /\ Fault
    /\ flushing' = Set(flushing, w, flushing[w] \ (S \X {o}))
    /\ UNCHANGED <<session, dispatcher, reported, settling, deaf, inflight, child, left, renewing, lapsed>>

\* release(): whether the statements went through or not.
Release(w) ==
    /\ settling[w] # {} /\ flushing[w] = {}
    /\ inflight' = Set(inflight, w, inflight[w] \ settling[w])
    /\ settling' = Set(settling, w, {})
    /\ UNCHANGED <<jobs, session, dispatcher, reported, flushing, deaf, child, left, renewing, lapsed, faults>>

-----------------------------------------------------------------------------
(***************************************************************************)
(* renew() and recover()                                                   *)
(***************************************************************************)
RenewSnapshot(w) ==
    /\ phase[w] # "stopped" /\ ~shutdown[w]
    /\ renewing[w] = {} /\ inflight[w] # {}
    /\ renewing' = Set(renewing, w, inflight[w])
    /\ UNCHANGED <<jobs, session, dispatcher, collector, inflight, child, left, lapsed, faults>>

RenewApply(w) ==
    LET held == renewing[w] \cap Held(w) IN
    /\ renewing[w] # {}
    /\ \/ (IF held = {} THEN UNCHANGED jobs ELSE RenewLeases(w, held)) /\ UNCHANGED faults
       \/ UNCHANGED jobs /\ Fault
    /\ renewing' = Set(renewing, w, {})
    /\ UNCHANGED <<session, dispatcher, collector, inflight, child, left, lapsed>>

TakenLive(s) == {j \in sweep[s].expired : state[j] = "running" /\ lease[j] = "live"}

RecoverScan(E) ==
    /\ ReclaimScan(Recover, E)
    /\ UNCHANGED local

RecoverApply ==
    /\ ReclaimApply(Recover)
    /\ lapsed' = lapsed \cup TakenLive(Recover)
    /\ UNCHANGED <<session, dispatcher, collector, inflight, child, left, renewing, faults>>

RecoverFails ==
    /\ ReclaimFails(Recover) /\ Fault
    /\ UNCHANGED <<session, dispatcher, collector, inflight, child, left, renewing, lapsed>>

-----------------------------------------------------------------------------
(***************************************************************************)
(* Sessions, hand-back and restart                                         *)
(***************************************************************************)
Goto(w, from, to) == phase[w] = from /\ phase' = Set(phase, w, to)

\* The child connects, or it does not (it exits, or HANDSHAKE_TIMEOUT passes).
Connect(w) ==
    /\ Goto(w, "starting", "serving")
    /\ deaf' = Set(deaf, w, FALSE)
    /\ UNCHANGED <<jobs, shutdown, restarts, handing, dispatcher, reported, flushing, settling,
                   inflight, child, left, renewing, lapsed, faults>>

SpawnFails(w) ==
    /\ Goto(w, "starting", "dead") /\ Fault
    /\ UNCHANGED <<jobs, shutdown, restarts, handing, dispatcher, collector, inflight, child, left,
                   renewing, lapsed>>

\* The child exits or its socket breaks: select! drops dispatch wherever it
\* was, and the transaction it had open is rolled back.
SessionFails(w) ==
    /\ Goto(w, "serving", "dead") /\ Fault
    /\ IF w \in admitting THEN FetchKeyedAbort(w) ELSE UNCHANGED jobs
    /\ fetched' = Set(fetched, w, {}) /\ fetch' = Set(fetch, w, "idle")
    /\ UNCHANGED <<limit, shutdown, restarts, handing, collector, inflight, child, left, renewing, lapsed>>

Shutdown(p) ==
    /\ p \in Stoppable
    /\ \E w \in Worker : Process[w] = p /\ ~shutdown[w]
    /\ shutdown' = [w \in Worker |-> shutdown[w] \/ Process[w] = p]
    /\ UNCHANGED <<jobs, phase, restarts, handing, dispatcher, collector, inflight, child, left,
                   renewing, lapsed, faults>>

DrainBegin(w) ==
    /\ shutdown[w] /\ fetch[w] = "idle"
    /\ Goto(w, "serving", "draining")
    /\ UNCHANGED <<jobs, shutdown, restarts, handing, dispatcher, collector, inflight, child, left,
                   renewing, lapsed, faults>>

\* Mutant of DrainEnds: nothing but an idle worker ends the drain.
DrainEndsWhenIdle(w) ==
    /\ inflight[w] = {}
    /\ Goto(w, "draining", "closing")
    /\ UNCHANGED <<jobs, shutdown, restarts, handing, dispatcher, collector, inflight, child, left,
                   renewing, lapsed, faults>>

\* Idle, or DRAIN_TIMEOUT has passed, which it may have at any moment.
DrainEnds(w) ==
    /\ Goto(w, "draining", "closing")
    /\ UNCHANGED <<jobs, shutdown, restarts, handing, dispatcher, collector, inflight, child, left,
                   renewing, lapsed, faults>>

\* child.kill(), or the child's own death: executions end without a report, and
\* with them every thread.
Kill(w) ==
    /\ child[w] \cup left[w] # {}
    /\ \/ phase[w] \in {"closing", "dead"} /\ UNCHANGED faults
       \/ phase[w] = "draining" /\ Fault
    /\ child' = Set(child, w, {}) /\ left' = Set(left, w, {})
    /\ UNCHANGED <<jobs, session, dispatcher, collector, inflight, renewing, lapsed>>

\* completions.await: the socket is read to its end and flushed.
Collected(w) == child[w] \cup left[w] = {} /\ reported[w] = {} /\ settling[w] = {}

SessionStops(w) ==
    /\ Collected(w)
    /\ Goto(w, "closing", "stopped")
    /\ renewing' = Set(renewing, w, {})
    /\ UNCHANGED <<jobs, shutdown, restarts, handing, dispatcher, collector, inflight, child, left,
                   lapsed, faults>>

\* Mutant of SessionErrs: what is in flight stays there, and so is renewed.
SessionErrsKeeps(w) ==
    /\ Collected(w)
    /\ phase[w] = "dead"
    /\ phase' = Set(phase, w, IF inflight[w] = {} THEN "backoff" ELSE "abandoning")
    /\ \E n \in {1, restarts[w] + 1} : restarts' = Set(restarts, w, n)
    /\ UNCHANGED <<jobs, shutdown, handing, inflight, dispatcher, collector, child, left, renewing, lapsed, faults>>

\* Mutant of SessionErrs: the jobs are handed back before the child is dead.
SessionErrsEarly(w) ==
    /\ phase[w] = "dead"
    /\ phase' = Set(phase, w, IF inflight[w] = {} THEN "backoff" ELSE "abandoning")
    /\ \E n \in {1, restarts[w] + 1} : restarts' = Set(restarts, w, n)
    /\ handing' = Set(handing, w, inflight[w]) /\ inflight' = Set(inflight, w, {})
    /\ UNCHANGED <<jobs, shutdown, dispatcher, collector, child, left, renewing, lapsed, faults>>

\* session() returned an error: count it, from one again after a healthy
\* session, and take what is in flight.
SessionErrs(w) ==
    /\ Collected(w)
    /\ phase[w] = "dead"
    /\ phase' = Set(phase, w, IF inflight[w] = {} THEN "backoff" ELSE "abandoning")
    /\ \E n \in {1, restarts[w] + 1} : restarts' = Set(restarts, w, n)
    /\ handing' = Set(handing, w, inflight[w]) /\ inflight' = Set(inflight, w, {})
    /\ UNCHANGED <<jobs, shutdown, dispatcher, collector, child, left, renewing, lapsed, faults>>

HandBackAbandon(w) ==
    LET held == handing[w] \cap Held(w) IN
    /\ \/ /\ Goto(w, "abandoning", "reclaiming")
          /\ IF held = {} THEN UNCHANGED jobs ELSE AbandonLeases(w, held)
          /\ UNCHANGED faults
       \/ Goto(w, "abandoning", "backoff") /\ UNCHANGED jobs /\ Fault
    /\ handing' = Set(handing, w, {})
    /\ UNCHANGED <<shutdown, restarts, dispatcher, collector, inflight, child, left, renewing, lapsed>>

HandBackScan(w, E) ==
    /\ phase[w] = "reclaiming"
    /\ ReclaimScan(w, E)
    /\ UNCHANGED local

\* hand_back is over: its RECLAIM is applied, found nothing, or failed.
HandBackEnds(w) ==
    /\ Goto(w, "reclaiming", "backoff")
    /\ \/ /\ ReclaimApply(w)
          /\ lapsed' = lapsed \cup TakenLive(w) /\ UNCHANGED faults
       \/ /\ ~ \E j \in Job : state[j] = "running" /\ lease[j] = "expired"
          /\ sweep[w] = NoSweep /\ UNCHANGED <<jobs, lapsed, faults>>
       \/ /\ IF sweep[w] = NoSweep THEN UNCHANGED jobs ELSE ReclaimFails(w)
          /\ Fault /\ UNCHANGED lapsed
    /\ UNCHANGED <<shutdown, restarts, handing, dispatcher, collector, inflight, child, left, renewing>>

Restart(w) ==
    /\ ~shutdown[w] /\ restarts[w] <= MaxRestarts
    /\ Goto(w, "backoff", "starting")
    /\ UNCHANGED <<jobs, shutdown, restarts, handing, dispatcher, collector, inflight, child, left,
                   renewing, lapsed, faults>>

\* Out of restarts, which cancels the whole process, or shut down meanwhile.
GiveUp(w) ==
    /\ Goto(w, "backoff", "stopped")
    /\ \/ /\ restarts[w] > MaxRestarts
          /\ shutdown' = [v \in Worker |-> shutdown[v] \/ Process[v] = Process[w]]
       \/ restarts[w] <= MaxRestarts /\ shutdown[w] /\ UNCHANGED shutdown
    /\ renewing' = Set(renewing, w, {})
    /\ UNCHANGED <<jobs, restarts, handing, dispatcher, collector, inflight, child, left, lapsed, faults>>

\* The machine is gone: nothing of the process and its children is left but rows.
Killed(p) ==
    LET gone == {w \in Worker : Process[w] = p}
        Forget(f) == [w \in Worker |-> IF w \in gone THEN {} ELSE f[w]] IN
    /\ p \in Stoppable /\ Fault
    /\ \E w \in gone : phase[w] # "stopped"
    /\ phase' = [w \in Worker |-> IF w \in gone THEN "stopped" ELSE phase[w]]
    /\ inflight' = Forget(inflight) /\ fetched' = Forget(fetched) /\ child' = Forget(child)
    /\ left' = Forget(left)
    /\ reported' = Forget(reported) /\ flushing' = Forget(flushing)
    /\ settling' = Forget(settling) /\ renewing' = Forget(renewing)
    /\ handing' = Forget(handing)
    /\ fetch' = [w \in Worker |-> IF w \in gone THEN "idle" ELSE fetch[w]]
    /\ Disconnect(gone)
    /\ UNCHANGED <<shutdown, restarts, limit, deaf, lapsed>>

-----------------------------------------------------------------------------
\* Before it is due a delayed job is invisible to every worker, so a delayed
\* enqueue is one that comes later; a job comes due after a retry's backoff.
Arrives(j) ==
    /\ Enqueue(j, "due") \/ ComesDue(j)
    /\ UNCHANGED local

Lapses(j) ==
    /\ LeaseExpires(j)
    /\ lapsed' = lapsed \cup {j}
    /\ UNCHANGED <<session, dispatcher, collector, inflight, child, left, renewing, faults>>

Dispatching(w) ==
    \/ FetchLock(w) \/ FetchFails(w) \/ Dispatch(w)
    \/ \E S \in SUBSET Job : FetchFirst(w, S) \/ FetchSecond(w, S) \/ FetchLost(w, S)
    \/ \E x \in fetched[w] : DispatchDiscard(w, x)

Collecting(w) ==
    \/ \E x \in child[w], o \in Outcomes : Finish(w, x, o)
    \/ \E x \in left[w] : ThreadEnds(w, x)
    \/ FlushBegin(w) \/ Release(w)
    \/ \E o \in Outcomes \ {"unreadable"} : FlushStatement(w, o)

Supervising(w) ==
    \/ Connect(w) \/ SpawnFails(w) \/ SessionFails(w)
    \/ DrainBegin(w) \/ DrainEnds(w) \/ Kill(w) \/ SessionStops(w) \/ SessionErrs(w)
    \/ HandBackAbandon(w) \/ HandBackEnds(w) \/ \E E \in SUBSET Job : HandBackScan(w, E)
    \/ Restart(w) \/ GiveUp(w)

Recovering == RecoverApply \/ RecoverFails \/ \E E \in SUBSET Job : RecoverScan(E)

WorkerNext ==
    \/ \E j \in Job : Arrives(j) \/ Lapses(j)
    \/ \E w \in Worker :
        Dispatching(w) \/ Collecting(w) \/ RenewSnapshot(w) \/ RenewApply(w) \/ Supervising(w)
    \/ Recovering
    \/ \E p \in Stoppable : Shutdown(p) \/ Killed(p)

WorkerSpec == WorkerInit /\ [][WorkerNext]_allvars

-----------------------------------------------------------------------------
(***************************************************************************)
(* Fairness.  Every task of a live process keeps taking its next step,     *)
(* task bodies end, and time passes: a delay runs out, and so does a lease *)
(* that nobody renews.  Nothing is assumed of failures, shutdowns or       *)
(* renewals.  Rows are fetched oldest first and the advisory lock is       *)
(* queued for, so neither passes the same job or worker over for ever.     *)
(***************************************************************************)
Renewed(j) ==
    \E w \in Worker : locked_by[j] = w /\ j \in inflight[w] /\ ~shutdown[w] /\ phase[w] # "stopped"

CollectorStep(w) == FlushBegin(w) \/ Release(w) \/ \E o \in Outcomes \ {"unreadable"} : FlushStatement(w, o)

SupervisorStep(w) ==
    \/ Connect(w) \/ DrainBegin(w) \/ DrainEnds(w) \/ Kill(w) \/ SessionStops(w) \/ SessionErrs(w)
    \/ HandBackAbandon(w) \/ HandBackEnds(w) \/ \E E \in SUBSET Job : HandBackScan(w, E)
    \/ Restart(w) \/ GiveUp(w)

DispatcherStep(w) ==
    \/ Dispatch(w)
    \/ \E S \in SUBSET Job : FetchFirst(w, S) \/ FetchSecond(w, S)
    \/ \E x \in fetched[w] : DispatchDiscard(w, x)

\* The clock moves job j on: its delay is over, or its unrenewed lease is.
TimePasses(j) == (ComesDue(j) /\ UNCHANGED local) \/ (Lapses(j) /\ ~Renewed(j))

Fairness ==
    /\ \A j \in Job : WF_allvars(TimePasses(j))
    /\ \A w \in Worker :
        /\ SF_allvars(FetchLock(w)) /\ WF_allvars(DispatcherStep(w))
        /\ \A j \in Job :
            /\ SF_allvars(\E S \in SUBSET Job : j \in S /\ (FetchFirst(w, S) \/ FetchSecond(w, S)))
            /\ WF_allvars(\E x \in child[w], o \in Outcomes : x[1] = j /\ Finish(w, x, o))
        /\ WF_allvars(CollectorStep(w)) /\ WF_allvars(SupervisorStep(w))
    /\ WF_allvars(RecoverApply \/ \E E \in SUBSET Job : RecoverScan(E))

FairSpec == WorkerSpec /\ Fairness

-----------------------------------------------------------------------------
\* Back-pressure (InFlight, dispatch): a child never has more ids in flight than
\* `concurrency`, but for the one job by which the keyed pass may overshoot, and
\* that whatever is fetched while flushes and hand-backs free room.
InflightBound ==
    \A w \in Worker :
        /\ Cardinality(inflight[w]) <= Concurrency + 1
        /\ Cardinality({j \in inflight[w] : ConcurrencyKey[j] = NoKey}) <= Concurrency

Executions(w) == child[w] \cup left[w]

\* A job whose lease never ran out, and was never reclaimed while live, executes
\* once at a time among all children, but for what a timeout left behind: where
\* two executions overlap, they are of two attempts, and the earlier one is the
\* thread of a synchronous body that was failed at its deadline.  Killing a child
\* before its jobs are handed back, and dropping what was fetched and not
\* reserved, makes it so.
OneExecution ==
    \A j \in Job \ lapsed :
        \A v, w \in Worker : \A x \in Executions(v), y \in Executions(w) :
            x[1] = j /\ y[1] = j /\ x[2] <= y[2] =>
                (v = w /\ x = y) \/ (x \in left[v] /\ x[2] < y[2])

\* A worker told to shut down stops, even when its child died during the drain
\* and will never report what is in flight (DRAIN_TIMEOUT).
ShutdownStops == \A w \in Worker : shutdown[w] ~> phase[w] = "stopped"

Settled(j) == state[j] \in {"completed", "discarded", "cancelled"}
Poisoned == \E j \in Job : state[j] = "available" /\ attempt[j] >= MaxAttempts[j]

Deaf == \E w \in Worker : deaf[w] /\ phase[w] = "serving"

\* No job is lost: once enqueued it is completed or dead-lettered, whichever
\* statements, replies, children and processes fail, as long as one process
\* lives.  Two exceptions: a row that RECLAIM made available with no attempt left
\* (see AvailableHasAttemptsLeft) blocks every batch it is in, and a report the
\* decoder rejects ends the collector while the session goes on renewing.
EventuallySettled == \A j \in Job : state[j] = "available" ~> Settled(j) \/ Poisoned \/ Deaf
=============================================================================
