# gylo: a verification project in TLA+

gylo is a task queue on Postgres. Applications insert jobs; worker processes
(Rust) lease them, have Python children execute them, and write the outcomes
back. There is no broker and no leader: everything that coordinates is a SQL
statement on a shared table. This directory models that coordination, checks it
with TLC on small instances, and proves its safety properties with TLAPS for
every instance, except where stated.

## Inventory

| part | source | state | operations | who else touches it |
|---|---|---|---|---|
| job table | `crates/gylo-pg`, `migrations/0001, 0007, 0009` | state, attempt, holder, lease, schedule, pending_deps of each row; edges | enqueue, two-pass fetch, complete, discard, retry, renew, abandon, reclaim, cancel, operator retry, purge, prune | every worker, every application, operators |
| worker supervisor | `crates/gylo-worker` | in-flight ids, session phase, pending outcomes | dispatch, collect, flush, renew, recover, hand back, drain, restart | the table, the child |
| retention | `crates/gylo-worker` (retain), `gylo jobs prune` | what the current tick removed | prune in batches, prune workflows | the table, each other, operators |
| settings | `capability.rs`, `Config`, restart pause | none (pure) | require, gaps, validate | worker start-up |
| Python child | `python/gylo/_worker.py` | running executions | serve, execute | the supervisor, through a socket |
| durable steps | `python/gylo/_steps.py`, `gylo_step` | recorded steps, waiting futures | step, record, acknowledge, replay | child, collector, dispatcher |
| recurring schedules | `gylo_cron`, worker, `gylo-core/schedule.rs` | expression, next_run_at, paused | register, scan, fire | every worker, operators |
| unique enqueue | `python/gylo/_adapters.py`, `migrations/0003` | rows of a key | insert unless live | callers' transactions, workers, operators |
| workflow builder | `python/gylo/_workflow.py` | none (pure) | chain, group, chord | insert_workflow |
| wire protocol | `gylo-core/protocol.rs`, `_protocol.py` | decoder buffer | encode, decode | supervisor, child |
| Redis backend | `crates/gylo-redis` | sorted sets and hashes | enqueue, claim, complete, retry, renew, abandon, reclaim | not reachable from the worker |
| CLI, metrics, chaos harness | `gylo-cli`, `observe.rs`, `gylo-chaos` | none that coordinates | | |

What is hard in it: statements at READ COMMITTED act on snapshots that are old
when the rows change; a worker that lost its lease goes on executing and reports
late; a fetch, a flush and a hand-back are several statements any of which can
fail or lose its reply; children, sessions and processes die between any two of
them; two clocks decide when a schedule is due and when it is due next; supervisor
and child feed each other through buffers that fill; the Redis backend keeps a lease
without its holder; retention deletes rows that belong to something larger than a
row. `PROJECT.json` lists each hazard at its line with the properties that watch it.

## Modules

| module | models | extends |
|---|---|---|
| `JobQueue` | the job table under all statements, called by anyone at any time | |
| `JobLifecycle` | the life of a job, abstractly | |
| `QueueLifecycle` | the mapping under which `JobQueue` implements `JobLifecycle` | `JobQueue` |
| `RedisLifecycle` | the mapping under which `RedisBackend` implements `JobLifecycle` | `RedisBackend` |
| `Worker` | supervisors, sessions and children over the table | `JobQueue` |
| `DurableSteps` | the runs of one durable job and its checkpoints | |
| `Cron` | schedules fired by every worker | |
| `UniqueEnqueue` | enqueues under one unique key | |
| `Link` | the socket of one session: frames, decoders, and the three loops around them | |
| `RedisBackend` | the second backend under its scripts and pipelines | |
| `Retention` | the retain tasks and `gylo jobs prune` over finished jobs and workflow rows | |
| `WorkflowGraph` | `chain`, `group`, `chord` as operators | |
| `Startup` | capabilities, validation of settings, restart pause as operators | |
| `*Proofs` | theorems: `JobQueueProofs` (with the refinement of `JobLifecycle`), `WorkerProofs`, `LinkProofs`, `StepsProofs`, `CronProofs`, `UniqueProofs`, `RetentionProofs`, `RedisProofs` (with the refinement of `JobLifecycle`) | the module they are about |
| `MC*` | instances for TLC | the module they are named after |

### JobQueue

One action per SQL statement. Time is abstracted to what statements compare:
`scheduled` is due, later or infinity, `lease` none, live or expired, and
`ComesDue` and `LeaseExpires` move them. Payloads, priorities, results and error
texts are left out: no guard reads them, and with `SKIP LOCKED` any batch of
eligible rows can be what a fetch gets, so a fetch leases any set `S` of them.

An update at READ COMMITTED locks a row and evaluates its WHERE clause again on
the newest version. A statement whose predicate reads only the row it changes is
therefore one step. Three statements act on more than that and are two steps each:

- `RECLAIM` computes `exhausted` in a CTE from its snapshot (`ReclaimScan`) and
  rechecks only `state = 'running'` (`ReclaimApply`);
- `FETCH_KEYED` counts running jobs in its snapshot (`FetchKeyedBegin`, after
  the advisory lock) and admits against that count later (`FetchKeyedCommit`);
- `PRUNE` looks at the other members of a workflow in its snapshot (`PruneScan`) and
  at the row alone when it locks it (`PruneApply`).

The rows `FETCH_KEYED` may lock are taken as of its second step, a superset of
those that were eligible in its snapshot and still are. The CHECK constraint on
`attempt` is the guard of `Lease`, which rejects the whole batch.

`Disconnect` is the loss of connections: Postgres rolls back what they had open, the
snapshot of a sweep, a fetch that holds the advisory lock.

`done` is history: the jobs that were ever completed.

### JobLifecycle

What an application may rely on: a job waits, starts once everything it depends on
has completed and its key has room, returns or ends, completes at most once, and is
given up without having started only when something it depends on never completed.
`status` is the column `state` and `completed` is `done`; leases, schedules,
counters, edges and snapshots are not in it. `ImplementsLifecycle` is that mapping.
The statements that only move time, leases or snapshots are stuttering steps.

### Worker

A member of `Worker` is one `supervise()`: a uuid, an in-flight set and a
succession of sessions. Its tasks interleave: the dispatcher (`FetchFirst`,
`FetchLock`, `FetchSecond`, `DispatchDiscard`, `Dispatch`), the child
(`Finish`), the collector (`FlushBegin`, one `FlushStatement` per outcome in the
code's order, `Release`), `renew` (snapshot, then statement), the supervisor
(`Connect` ... `GiveUp`). `recover` runs on a connection of its own; it stands
for the recover task of whichever process lives. Statements act through the
actions of `JobQueue`, on the rows the worker still holds; the loss of a process is
`Disconnect` of its workers.

Failures are actions: a statement fails, a commit's reply is lost, a child does
not connect, exits, or breaks its socket, a process is lost with its children.
`MaxFaults` bounds them. Back-off delays, poll intervals and the listener only
choose when an enabled step happens and are not represented; `DRAIN_TIMEOUT` may
pass at any moment of a drain. `lapsed` is history: the jobs whose lease ran out
or was reclaimed live.

A synchronous task runs in a thread, which its timeout cannot interrupt: the attempt
is reported as failed and the thread goes on. `Overruns` are the attempts that do so;
`Finish` puts them in `left`, where they stay until `ThreadEnds` or the death of the
child. `OneExecution` counts them: the only overlap it allows is between such a thread
and a later attempt.

### DurableSteps

Each dispatch starts a run; a lapsed lease leaves the old one running, so runs
overlap, in one child slot or in two. A result is named by the run that computed
it. Records and the final report of a run share a socket and are read in order.
A dying child's unread records are processed before the job is handed back, so
`Crash` records any subset of them. A collector may return on a frame it cannot decode
(`Deafen`), after which nothing the child sends is read. At shutdown dispatch returns
(`Close`): acknowledgements it has not forwarded, and those the collector sends from
then on, are dropped (`Acked`), and the child reads EOF behind the ones on the socket
(`EndOfFile`), where `abandon` fails the waits registered so far. `blind`, `shared`,
`known`, `repeated`, `denied` and `late` (waits begun after EOF) are history of live runs.

### Cron

An expression is the set of instants it names, `NextAfter` the first one after a
given time. `Skew[w]` says how far a reading of a worker's clock may be from `now()`:
the error of the clock and the way from the database to the worker. The reading is
made once per registration and once per scan and kept with the entries that follow
from it; nothing bounds the time until they are written, so `Tick` is always possible.
A worker runs one of its `Release`s at a time. An expression whose instants are all
past has no next one; registration and firing skip it.

Two histories say which writes went wrong: `wrote` (when `next_run_at` was last
written, from which expression, and whether by a clock ahead of the database's) and
`setback` (schedules whose `next_run_at` was computed from a time before the occurrence
it replaced). The properties exempt a schedule from such a write on, and nothing else.

### UniqueEnqueue

Rows of different keys never meet, so there is one key. The statement takes its
snapshot in `EnqueueBegin` and meets the index in `EnqueueEnds`, where it waits
while a conflicting row belongs to an open transaction.

### Link

A byte is only its position in one of two streams; a frame is its kind, job and
body size, and whether its text is valid UTF-8. The limits of the protocol are
constants, scaled down for TLC to a few bytes with their relations kept. Each language
has limits of its own: `payload_limit` and the child's decoder use Python's, `Encodes` and
the supervisor's decoder Rust's, and that they are equal is an assumption of the module, as
it is a convention of the two files. A task name has a length field (`MAX_NAME_BYTES`) that
only the dispatcher checks. A fetch may bring one job more than there is room for. The supervisor's
decoder is `base`, `pos` and what has been read; the child's is `start`. The kernel
holds `PipeBytes` per direction: `WriteAll` (the supervisor's `write_all`) blocks on
that, the child's transport buffers without bound (`PipeUp` empties it). `acks` is
the bounded channel from collector to dispatcher. `Worker` has the same loops as
the table sees them; here the table is reduced to "n more jobs were leased".
The frames of a fetched batch are appended one job at a time (`AddJobs`), and `InOrder` is
what one call of `drain` yields.
Frames are not interpreted beyond what moves the loops, so a result's contents and
the registration of schedules are absent.

### RedisBackend

A Lua script or a MULTI pipeline is one step, a call made of several is several.
Scores are future or past. `enqueue` does not look whether its id is known: that ids are
fresh is the obligation of its caller and the guard of the action. A caller that enqueued an
id again, after a lost reply say, could put it at a second level, which `OnePlace` excludes
only under that obligation. A client calls with ids that a fetch returned to it,
however late: nothing in Redis can tell. `overtaken` is history: the jobs whose
expired lease was reclaimed while a client still had them; the properties are about
the others. `dropped` are the jobs of a client that died inside `abandon`.

### Retention

A job is live, completed (or cancelled), discarded, or deleted, and has an age in
retention windows. A process is a worker's `retain` task or the one `gylo jobs prune`
that may run. Its PRUNE is open between `Lock` (the victims, locked) and `Delete`;
`After` says what the loop does next: another batch, the dead letters, the workflow
rows, or sleep. `slow` is a statement after which `TICK_BUDGET` is spent. Between the
two an operator's retry or purge waits for the locked rows. `PruneFails` is an error
the tick logs, `Aborts` the end of a tick or command at any point, by shutdown, error
or interrupt. Two histories carry the exceptions the properties name: `handled`
(workflows with a dead letter retried or purged) and `forgotten` (empty workflow rows
left by a process that ended, or by `purge`).

The other half of PRUNE, what may change between its snapshot and its locks, is in
`JobQueue`; the gap matters only after an operator's retry, which `handled` exempts.

### Startup

`supports`, `require` and `gaps` over both backends, `Config::validate` as the first
fault in the order the code looks, and the pause before a restart. Its assumptions
compare them with what they stand for; TLC evaluates them in every run of `MCWorker`.

### WorkflowGraph

A workflow is a number of nodes and a set of edges. The module's assumption
`Builders` compares the constructors with what their docstrings promise, in terms of
paths: a chain orders all of one step before all of the next, also across an empty
step; a group adds no path between branches and loses none inside one; a chord's
callback comes after everything. TLC evaluates it in every run of `MCJobQueue`, for
all pairs of forward graphs of up to three nodes and all chord bodies of up to four.
The graph of `queue_workflow` is built with these operators.

## Runs

Deadlock checking is off throughout: every system here may come to rest with all
jobs finished and all bounds used.

| run | instance | shows |
|---|---|---|
| `queue_workflow` | a, b -> c -> d, one worker, one sweep, two attempts | `TypeOK`, `LeaseIffRunning`, `PendingDepsExact`, `NoEarlyStart`, `NeverStranded`, `CompletedIsFinal`, `ImplementsLifecycle` |
| `queue_keyed` | three jobs of one key with limits 1, 2, 2, two workers, a sweep | `KeyedLimit` |
| `worker_flow` | two unkeyed jobs and a keyed one that cannot be encoded, batch 2, concurrency 1, all outcomes, an unreadable frame among them | `InflightBound`, `EventuallySettled` |
| `worker_lost` | one job, one process that lives, one that may stop or be lost, one fault, first attempts that outlast their timeout | `OneExecution`, `EventuallySettled`, `ShutdownStops` |
| `steps_steps` | two steps, two runs, two slots of which one is shut down, one fault, one reset | `TypeOK`, `DurableBeforeNext`, `StepsAgree`, `WaitEnds` |
| `cron_deploy` | one schedule, three expressions, two workers with two releases each, one clock on time or late and one behind, three instants | `TypeOK`, `OccurrenceOnce`, `NextMatchesExpression`, `NothingSkipped`, `PausedNeverFires`, `DueFires` |
| `unique_race` | three callers, three rows | `OneLive`, `UnansweredOnlyInARace` |
| `link_cycle` | five jobs, two at once and one beyond, frames of three to five bytes, an oversized one and an oversized name, buffers of three, one acknowledgement in the channel | `LinkTypeOK`, `InSync`, `NothingStranded`, `EnqueuedIsDispatchable`, `FailureFits`, `NeverJams` |
| `redis_clients` | two clients, two jobs, two levels, three claims of each | `RedisTypeOK`, `OnePlace`, `SoleHolder`, `NeverLost`, `ClaimableHasPayload` |
| `retention_retain` | a workflow of two jobs in two queues and a job outside, one retain task and the command, batches of one, one fault | `WholeWhileLive`, `EmptyFlowCollected`, `BacklogWorkedOff` |

The bounds are the smallest at which the hazard can happen: two parents for
fan-in, a grandchild for the transitive walk; two admitting workers and jobs with
different limits for a key; two workers and one job for overlapping executions; a
full batch plus a waiting keyed job for the overshoot; two runs for crossing
acknowledgements; two workers, two occurrences, and clocks on both
sides of the database's for a lost race, a schedule set back and one jumped over; three callers so
that one waits while another commits and the third's job ends; reads shorter than a
frame, a compaction threshold inside one, and as many jobs as fill the channel, both
sockets and the collector's hand; two clients and one lease between them, and a second
job to share a batch; a workflow across two queues, a batch smaller than it, and a second
pruning process.

### Where the code and its documentation disagree

Two runs check what a comment or a document says, and TLC returns the behaviour in
which the code does something else. `PROJECT.json` quotes the lines.

| run | claim | behaviour |
|---|---|---|
| `queue_attempts` | a released job has an attempt left | a sweep uses an `exhausted` it computed before the row was reclaimed and leased again; the row then makes every fetch that selects it fail its CHECK |
| `queue_deadletter` | a dead-lettered job cancels its descendants | only `DISCARD_MANY` walks the graph, not `RETRY_MANY` or `RECLAIM` |

Other differences the models are built around. They are behaviours of the modules, and
the conditions under which the properties above hold are stated so as to exclude them:

- A renewal that lands between the snapshot and the update of `RECLAIM` is ignored
  (`ReclaimApply` looks only at the state). `OneExecution` counts such a job as lapsed.
- `CANCEL` does not walk the graph either, although `docs/results.md:40` says a
  cancelled member "behaves like any dead parent".
- After a frame the decoder rejects (a result beyond the frame limit), the collector
  returns while dispatch and renewals go on: `deaf` in `Worker`. `EventuallySettled`
  exempts that state (`Deaf`); without the exemption `worker_flow` violates it.
- `flush` releases ids whether or not their statement went through (`Release`); the row
  waits for its lease to run out.
- A job fetched again by the worker that still executes it takes one in-flight id and
  two executions: `InflightBound` is about ids.
- Recorded steps are sent only from attempt 2 on and only when loading them succeeds.
  After `jobs retry` the attempts start over, so the next run repeats recorded work:
  the runs in `blind`, which `StepsAgree` exempts.
- `FIRE_CRON` and a changed `UPSERT_CRON` write a `next_run_at` computed from an earlier
  reading of the worker's clock, and from the expression the scan returned, without
  comparing either with the row. A clock behind the database's, or a firing that comes
  after another worker's, sets a schedule back to an occurrence that was fired (`setback`);
  a clock ahead jumps over one; a firing after a deployment writes an instant of the old
  expression. Without its exemption each of `OccurrenceOnce`, `NothingSkipped` and
  `NextMatchesExpression` is violated by `cron_deploy`.
- `docs/tasks.md:44` says a second enqueue under a unique key "returns the id of the job
  already there". When that job was committed after the statement's snapshot, the insert
  conflicts with it and the SELECT beside it does not see it: `EnqueueEnds` with no answer,
  in exactly the races `UnansweredOnlyInARace` allows.
- An error text of multi-byte characters that is cut at `MAX_ERROR_BYTES` may be cut inside
  one; the supervisor's decoder rejects the frame and the collector returns
  (`Unreadable`). So does a result or a record beyond the frame limit.
- A step begun after the child has seen EOF is not failed by `StepAcks.abandon`, which has
  already run, and waits for the drain to time out; `NeverJams` and `WaitEnds` exempt it.
- Of two runs of one job in one child, the later one's `expect` replaces the future of the
  earlier one for the same step, which then waits for its timeout; `WaitEnds` exempts it, as
  it does a wait whose record failed or whose collector has returned.
- `payload_limit` is checked by `enqueue`, not for the nodes of a workflow; the dispatcher
  discards what does not fit. The length of a task name is not checked at enqueue at all.
- On Redis, once a lease was reclaimed under a live client: its late `complete` deletes the
  payload of a job that is queued again, and every fetch that claims the id fails its
  batch; its late `retry` puts the id at a second level; its `renew` extends the lease of
  the next holder, although the comment at `lib.rs:278` says it must not.
- On Redis, a client that dies between the two pipelines of `abandon` leaves a payload that
  is in no set.
- `docs/workflows.md:45` says a graph under inspection "always reads whole". After an
  operator's `jobs retry` of a dead letter, or `jobs purge`, a live workflow may lack
  members: the workflows in `handled`.
- A `gylo_workflow` row emptied by `jobs purge`, by a tick that is aborted, or before a
  failing `prune_workflows`, stays until some later tick or command removes a job:
  `forgotten`.
- `docs/scheduling.md` says missed runs "are skipped, not backfilled"; the one that was due
  when the workers went away is fired late on recovery.
- The next occurrence is computed before the present one is fired, so the last occurrence
  of an expression with a year is never fired, and is found due by every scan
  (`Exhausted`, which `DueFires` exempts).
- `Config::requires` is checked at start-up, but the command line never fills it.
- On shutdown the command line logs that a second signal stops at once; only the first is
  awaited.
- `chord` adds the callback to `body` itself when that is a `Workflow`; a second use of the
  same object contains it. A callback after an empty body has no parents.

### Fairness

Five runs use `FairSpec`: `worker_flow`, `worker_lost`, `steps_steps`, `cron_deploy` and
`retention_retain`.

- `Worker`: each task of a live process is weakly fair: the tokio tasks loop and every
  wait in them has a timeout or a wake-up. Task bodies end (a task without a timeout that
  never ends is outside the claim). Delays run out, and so does a lease nobody renews. A
  job is not passed over for ever, because fetches take the oldest first (strong fairness
  per job), and the advisory lock is queued for (strong fairness of `FetchLock`). Nothing
  is assumed of failures, shutdowns or renewals.
- `DurableSteps`: the collector reads what is on the socket until a frame ends it, and the
  child reads what is acknowledged, and EOF. Whether a record is stored is left open; no timeout is assumed.
- `Cron`: each worker goes on scanning and working through what it found, and a
  firing that is tried again and again does not fail every time (strong fairness of
  `Fire` per schedule). Nothing obliges a worker to restart or an operator to act.
- `Retention`: the ticks and a running command go on; faults stop at `MaxFaults`. Nothing
  obliges a job to finish.

`EventuallySettled` exempts the states where a row is available with no attempt
left: such a row fails every batch it is selected into, which is the finding of
`queue_attempts`.

## Proofs

Every theorem holds for all values of the constants that satisfy the assumptions named
in the module it is about (columns have their types, NULLs are distinct, sets of jobs are
finite, edges stay inside a workflow, and so on); sizes, limits, graphs, expressions and
fault bounds are arbitrary. The theorems are about `Spec`, without fairness.

| module | theorem | statement |
|---|---|---|
| `JobQueueProofs` | `TypeCorrect` | `Spec => []TypeOK` |
| | `LeaseCorrect` | `Spec => []LeaseIffRunning` |
| | `FanInCorrect` | `Spec => []PendingDepsExact` |
| | `DependencyOrder` | `Spec => []NoEarlyStart` |
| | `NoneStranded` | `Spec => []NeverStranded` |
| | `CompletedOnce` | `Spec => CompletedIsFinal` |
| | `AdmissionCorrect` | `Spec => []KeyedLimit` |
| | `QueueImplementsLifecycle` | `Spec => ImplementsLifecycle` |
| `WorkerProofs` | `BackPressure` | `WorkerSpec => []InflightBound` |
| | `SoleExecution` | `WorkerSpec => []OneExecution` |
| | `SupervisorImplementsQueue` | `WorkerSpec => Spec`, the specification of `JobQueue` |
| | `SupervisorKeepsPromises` | `WorkerSpec => ImplementsLifecycle /\ []KeyedLimit` |
| `LinkProofs` | `LinkInSync`, `LinkStrandsNothing` | `Spec => []InSync`, `Spec => []NothingStranded` |
| | `LinkDispatches`, `LinkFailureFits`, `LinkTyped` | `Spec => []EnqueuedIsDispatchable`, `Spec => []FailureFits`, `Spec => []LinkTypeOK` |
| | `LinkNeverJams` | `Spec => []NeverJams` |
| `StepsProofs` | `StepsDurable`, `StepsConsistent`, `StepsTyped` | `Spec => []DurableBeforeNext`, `Spec => []StepsAgree`, `Spec => []TypeOK` |
| `CronProofs` | `CronOnce`, `CronMatches`, `CronSkipsNothing` | `Spec => []OccurrenceOnce`, `Spec => []NextMatchesExpression`, `Spec => []NothingSkipped` |
| | `CronPauseHolds`, `CronTyped` | `Spec => PausedNeverFires`, `Spec => []TypeOK` |
| `UniqueProofs` | `UniqueOneLive`, `UniqueUnanswered` | `OneLive`, `UnansweredOnlyInARace` |
| `RetentionProofs` | `WorkflowsStayWhole`, `EmptyRowsCollected` | `WholeWhileLive`, `EmptyFlowCollected` |
| `RedisProofs` | `RedisOnePlace`, `RedisSoleHolder`, `RedisNeverLost`, `RedisClaimable`, `RedisTypeCorrect` | `OnePlace`, `SoleHolder`, `NeverLost`, `ClaimableHasPayload`, `RedisTypeOK` |
| | `RedisImplements` | `Spec => RedisImplementsLifecycle` |

The arguments, one inductive invariant each:

- Job table. `LeaseIffRunning` is inductive given the types. Fan-in and order are not: the
  count of a child depends on which edges still exist, and order on where rows are parked.
  `FlowInv` adds that a waiting job not parked at infinity has only completed parents, that
  `done` agrees with the states, and that workflows appear whole with exactly the edges
  between existing rows; a completion then removes from a child's missing parents exactly
  the rows it counts. `KeyedLimit` needs that at most one worker admits, and that the count
  it read bounds the running jobs from above (`AdmissionInv`): rows only leave `running`
  meanwhile, and the row numbers of a batch are distinct, so the rank of the last admitted
  job bounds how many were.
- Refinement. Each statement is matched with one abstract action, or a stutter, under the
  invariants above: `Start` needs dependency order and the key's room, `GiveUp` that a
  cascade meets only children of parents that never completed.
- Worker. The ids in flight together with those just fetched fit the limit the dispatcher
  computed before the fetch, and nothing else adds ids in between (`RoomInv`).
- Sole execution. `OneExecution` follows a row through leases, sessions, flushes and
  hand-backs, so `SoleInv` says of every worker where its jobs are: what it fetched,
  executes, or is about to settle is leased to it with the attempt it knows, unless that
  lease lapsed or the row has been settled (`Sole`); each is with one of its tasks; and
  outside a session there is nothing at all (`Tasks`). A step then either leaves the rows
  of others alone (`RowKept`), or takes a row that nobody has. Of a thread that outlasted
  its timeout `Behind` says that its attempt is over: whoever has the job now has it in a
  later one, and no two children left the same attempt behind.
- Supervisor over table. `OneStatement`: every step of `Worker` is, on the variables of
  `JobQueue`, one of its statements or a stutter. This needs no invariant, since `Worker`
  acts on the table through the actions of `JobQueue` alone, with arguments of the right
  sets; the theorems about the table then hold under it.
- Link. In each direction (`Stream`) the frames lie end to end, the decoded ones are the
  first of them, the reader's buffer begins where these end, and the bytes read, the bytes
  with the kernel and the bytes written are in this order. A complete frame at the start of
  the buffer is then the next one written, whatever the chunks were. `LinkInv` adds that no
  frame going down and no failure report going up exceeds the limit of its reader, that a
  reader about to wait has nothing complete, and why a collector stopped. What a batch of
  dispatches (`AddJobs`) and a drained chunk (`InOrder`) compute is induction over data: it
  is done through the least place where it would fail (`Least`, from the well-foundedness of
  < on the naturals), and `Recursion` gives that such functions exist.
- No deadlock. `NeverJams` is not inductive: that nobody can move contradicts a job in
  somebody's hands only if one knows where the job is. `Whereabouts` follows each job
  (`Placed`): one in flight that has no task has its dispatch in the bytes before the child;
  one that waits has its record before the collector, in the collector's hands, in the
  channel, or its acknowledgement before the child; a finished one has its report before the
  collector or is pending there. `Flow` adds that the dispatcher writes exactly while the
  kernel lacks some of its bytes, and that the child ends only after it has decoded
  everything. If no loop can move, the pipes are empty (an empty pipe accepts bytes, and a
  read takes what there is), so both readers have decoded everything (`ChildHasAll`,
  `CollectorHasAll`), the channel is empty, and no place is left for the job (`NoJam`). The
  guards of the loops are written out in `Moving`, since the prover does not reason about
  ENABLED; `ENABLED` of the five steps gives the same value in every state of `link_cycle`.
- Steps. Every acknowledgement under way and every result in a run has its row (`Durable`);
  a run that is alone and knew the record has seen all of it except its own step that is
  stored and unacknowledged (`Seen`). The types rest on how a row, its attempts and the
  number of runs go together (`RowTyped`).
- Cron. Clocks and delays are arbitrary. `Waits`: `next_run_at` is an occurrence of the expression
  it was computed from, and unless a clock was ahead none lies between the write and it.
  `Passed`: unless the schedule was set back, what was fired lies before its `next_run_at`,
  so it is not fired again, and no later than the last write. Both rest on `Shaped`,
  the types and that an entry about to be registered has a next occurrence.
- Unique. A snapshot has everything that was committed and live when the statement began
  (`SnapshotComplete`).
- Retention. Rows locked by an open PRUNE belong to workflows without a live member, or to
  `handled` ones (`LockedQuiet`), because nothing but an operator's retry revives a member.
- Redis. For a job that was not overtaken: payload, place, lease and holder agree (`Sound`),
  and the counter goes with the payload (`Counted`).
- Redis and the life of a job. The status of a job is read off its keys: leased is running,
  otherwise a payload means waiting; an overtaken job counts as discarded from the moment
  its lease is reclaimed, since nothing is promised of it afterwards. The backend announces
  neither workflows nor concurrency keys (`capabilities`), so dependencies and room are
  empty. Needed beyond `RedisInv` is that a settled job has no payload (`Gone`). `enqueue`
  is then `Submit`, `CLAIM` is `Start`, `complete` and `discard` are `Finish`, and whatever
  takes leases away (`retry`, the first pipeline of `abandon`, `reclaim_expired`) is
  `Return`. No run checks this statement; it is proved for all instances.

Only model-checked: liveness (`EventuallySettled`, `ShutdownStops`, `WaitEnds`, `DueFires`,
`BacklogWorkedOff`: fairness is outside the prover's reach), and the assumptions of
`WorkflowGraph` and `Startup`, on bounded inputs. Every invariant and action property that
a passing run checks is also proved.

## Not modelled

Redis losing acknowledged writes (its capabilities depend on the server's fsync
setting), `clear` and `depth`; metrics, the chaos harness, argument parsing and printing; cron syntax and time zones;
serialisation of payloads; `LISTEN`/`NOTIFY`, which only shortens a poll; SIGKILL of a
supervisor that leaves its child finishing tasks (their leases lapse like any other);
Postgres failing over to a replica that lost commits.

## Plan

What could be added next: liveness of `Link`, for which its state space is too large as it
stands (`NeverJams` is the safety form).
