---------------------------- MODULE DurableSteps ----------------------------
(***************************************************************************)
(* Checkpoints of one durable job: StepContext and StepAcks in the child   *)
(* (python/gylo/_steps.py), the Record, Stored and Steps frames between    *)
(* child and supervisor, and the rows of gylo_step.                        *)
(*                                                                         *)
(* Every dispatch of the job starts an execution.  A lease that lapses     *)
(* leaves the old execution running beside the next one, in the same child *)
(* or in another.  A result is named by the execution that computed it.    *)
(***************************************************************************)
EXTENDS Integers, FiniteSets

CONSTANTS
    Steps,        \* the number of steps of the task body, run in this order
    Child,        \* worker slots, each with its lease identity and its child
    Stoppable,    \* slots that may be told to shut down
    MaxAttempts,  \* max_attempts of the job
    MaxRuns,      \* bound on dispatches
    MaxFaults,    \* bound on failing statements and unreadable frames
    MaxResets     \* bound on `gylo jobs retry`

ASSUME StepConfig ==
    /\ Stoppable \subseteq Child
    /\ Steps \in Nat \ {0} /\ MaxAttempts \in Nat \ {0}
    /\ MaxRuns \in Nat /\ MaxFaults \in Nat /\ MaxResets \in Nat

Step == 1..Steps
Run == 1..MaxRuns

VARIABLES
    status,    \* the row: "available", "running", "completed", "discarded"
    attempt,
    holder,    \* locked_by: the slot of the last dispatch
    recorded,  \* gylo_step: the run whose result is stored, 0 for no row
    runs,      \* dispatches so far
    where,     \* the slot each run executes in
    pos,       \* the step each run is at
    stage,     \* "none", "body", "wait", "raised", "returned", "over"
    have,      \* StepContext._completed of each run
    socket,    \* Record frames not read yet: <<run, step>>
    acks,      \* Stored frames not read yet, per slot and step
    waiting,   \* StepAcks._waiting: the run whose future is registered, or 0
    link,      \* dispatch's half of the socket: "open", "closing" once dispatch has
               \* returned at shutdown, "ended" once the child has read EOF
    deaf,      \* slots whose collector has returned on an unreadable frame
    blind,     \* history: live runs dispatched without the steps on record
    shared,    \* history: live runs that were not alone while they executed
    repeated,  \* history: live runs that did the work of a step on record before them
    known,     \* history: the steps on record when each live run was dispatched
    denied,    \* history: live runs one of whose records was not stored
    late,      \* history: live runs that began a wait after EOF
    faults, resets

row == <<status, attempt, holder>>
execs == <<where, pos, stage, have>>
frames == <<socket, acks, waiting>>
lines == <<link, deaf>>
history == <<blind, shared, repeated, known, denied, late>>
vars == <<row, recorded, runs, execs, frames, lines, history, faults, resets>>

\* The row, gylo_step, the sockets and the coroutines stay well typed: no run
\* goes past its last step, and no result is of a run that could not be.
TypeOK ==
    /\ status \in {"available", "running", "completed", "discarded"}
    /\ attempt \in 0..MaxAttempts /\ holder \in Child \cup {0}
    /\ recorded \in [Step -> 0..MaxRuns] /\ runs \in 0..MaxRuns
    /\ where \in [Run -> Child \cup {0}] /\ pos \in [Run -> 1..(Steps + 1)]
    /\ stage \in [Run -> {"none", "body", "wait", "raised", "returned", "over"}]
    /\ have \in [Run -> [Step -> 0..MaxRuns]]
    /\ socket \subseteq Run \X Step
    /\ acks \in [Child \X Step -> Nat] /\ waiting \in [Child \X Step -> 0..MaxRuns]
    /\ link \in [Child -> {"open", "closing", "ended"}] /\ deaf \subseteq Child
    /\ blind \subseteq Run /\ shared \subseteq Run /\ repeated \subseteq Run
    /\ known \in [Run -> SUBSET Step] /\ denied \subseteq Run /\ late \subseteq Run
    /\ faults \in 0..MaxFaults /\ resets \in 0..MaxResets

Init ==
    /\ status = "available" /\ attempt = 0 /\ holder = 0
    /\ recorded = [s \in Step |-> 0] /\ runs = 0
    /\ where = [e \in Run |-> 0] /\ pos = [e \in Run |-> 1] /\ stage = [e \in Run |-> "none"]
    /\ have = [e \in Run |-> [s \in Step |-> 0]]
    /\ socket = {} /\ acks = [x \in Child \X Step |-> 0] /\ waiting = [x \in Child \X Step |-> 0]
    /\ blind = {} /\ shared = {} /\ repeated = {} /\ known = [e \in Run |-> {}]
    /\ denied = {} /\ late = {}
    /\ link = [c \in Child |-> "open"] /\ deaf = {}
    /\ faults = 0 /\ resets = 0

Fault == faults < MaxFaults /\ faults' = faults + 1
Alive == {e \in Run : stage[e] \notin {"none", "over"}}
OnRecord == {s \in Step : recorded[s] # 0}

\* The runs in S end: the StepContext and the task are gone.
Over(S) ==
    /\ stage' = [e \in Run |-> IF e \in S THEN "over" ELSE stage[e]]
    /\ where' = [e \in Run |-> IF e \in S THEN 0 ELSE where[e]]
    /\ pos' = [e \in Run |-> IF e \in S THEN 1 ELSE pos[e]]
    /\ have' = [e \in Run |-> IF e \in S THEN [s \in Step |-> 0] ELSE have[e]]
    /\ known' = [e \in Run |-> IF e \in S THEN {} ELSE known[e]]
    /\ blind' = blind \ S /\ shared' = shared \ S /\ repeated' = repeated \ S
    /\ denied' = denied \ S /\ late' = late \ S

Unsent(e) == \A s \in Step : <<e, s>> \notin socket

-----------------------------------------------------------------------------
\* The Steps frame precedes the Dispatch unless this is attempt 1; when
\* steps_for or the encoding fails the job is dispatched without it.
Prior(next, loaded) == IF next > 1 /\ loaded THEN recorded ELSE [s \in Step |-> 0]

Dispatch(c, loaded) ==
    LET e == runs + 1
        prior == Prior(attempt + 1, loaded) IN
    /\ status = "available" /\ attempt < MaxAttempts /\ runs < MaxRuns /\ link[c] = "open"
    /\ IF loaded THEN UNCHANGED faults ELSE attempt > 0 /\ Fault
    /\ status' = "running" /\ attempt' = attempt + 1 /\ holder' = c
    /\ runs' = e
    /\ where' = [where EXCEPT ![e] = c] /\ stage' = [stage EXCEPT ![e] = "body"]
    /\ have' = [have EXCEPT ![e] = prior]
    /\ blind' = IF prior = recorded THEN blind ELSE blind \cup {e}
    /\ shared' = IF Alive = {} THEN shared ELSE shared \cup Alive \cup {e}
    /\ known' = [known EXCEPT ![e] = OnRecord]
    /\ UNCHANGED <<recorded, pos, frames, lines, repeated, denied, late, resets>>

\* step(): a step on record returns at once.
Replay(e) ==
    /\ stage[e] = "body" /\ pos[e] \in Step /\ have[e][pos[e]] # 0
    /\ pos' = [pos EXCEPT ![e] = @ + 1]
    /\ UNCHANGED <<row, recorded, runs, where, stage, have, frames, lines, history, faults, resets>>

\* step(): otherwise the work is done, its Record written, and a future for
\* (job, step) registered, over the one another run may have there.  A Record no
\* collector reads is as good as not written.
Work(e) ==
    /\ stage[e] = "body" /\ pos[e] \in Step /\ have[e][pos[e]] = 0
    /\ socket' = IF where[e] \in deaf THEN socket ELSE socket \cup {<<e, pos[e]>>}
    /\ waiting' = [waiting EXCEPT ![<<where[e], pos[e]>>] = e]
    /\ stage' = [stage EXCEPT ![e] = "wait"]
    /\ repeated' = IF pos[e] \in known[e] THEN repeated \cup {e} ELSE repeated
    /\ late' = IF where[e] \in Child /\ link[where[e]] = "ended" THEN late \cup {e} ELSE late
    /\ UNCHANGED <<row, recorded, runs, where, pos, have, acks, lines, blind, shared, known, denied, faults, resets>>

\* RECORD_STEP keeps the first record of a step (ON CONFLICT DO NOTHING).
record_step(e, s) == recorded' = [recorded EXCEPT ![s] = IF @ = 0 THEN e ELSE @]

\* The send of a Stored is dropped once dispatch, which forwards it, has returned.
Acked(e, s) ==
    IF where[e] \in Child /\ link[where[e]] = "open" THEN [acks EXCEPT ![<<where[e], s>>] = @ + 1] ELSE acks

\* Mutant of Record: the acknowledgement does not depend on the write.
RecordAcksAnyway(e, s, stored) ==
    /\ <<e, s>> \in socket
    /\ socket' = socket \ {<<e, s>>}
    /\ IF stored THEN record_step(e, s) /\ UNCHANGED <<denied, faults>>
                 ELSE denied' = denied \cup {e} /\ UNCHANGED recorded /\ Fault
    /\ acks' = Acked(e, s)
    /\ UNCHANGED <<row, runs, execs, waiting, lines, blind, shared, repeated, known, late, resets>>

\* The collector: the step is recorded and a Stored goes back, while dispatch is
\* there to send it; when the statement fails, nothing does.
Record(e, s, stored) ==
    /\ <<e, s>> \in socket
    /\ socket' = socket \ {<<e, s>>}
    /\ IF stored
       THEN /\ record_step(e, s)
            /\ acks' = Acked(e, s)
            /\ UNCHANGED <<denied, faults>>
       ELSE denied' = denied \cup {e} /\ UNCHANGED <<recorded, acks>> /\ Fault
    /\ UNCHANGED <<row, runs, execs, waiting, lines, blind, shared, repeated, known, late, resets>>

\* Mutant of Resolve: a future resolves without a Stored frame.
ResolveUnasked(c, s) ==
    LET e == waiting[<<c, s>>] IN
    /\ e # 0 /\ stage[e] = "wait" /\ pos[e] = s
    /\ acks' = [acks EXCEPT ![<<c, s>>] = @ - 1]
    /\ waiting' = [waiting EXCEPT ![<<c, s>>] = 0]
    /\ have' = [have EXCEPT ![e][s] = e]
    /\ pos' = [pos EXCEPT ![e] = s + 1]
    /\ stage' = [stage EXCEPT ![e] = "body"]
    /\ UNCHANGED <<row, recorded, runs, where, socket, lines, history, faults, resets>>

\* resolve(): whichever run has its future registered goes on, with the result
\* it computed itself.
Resolve(c, s) ==
    LET e == waiting[<<c, s>>] IN
    /\ acks[<<c, s>>] > 0
    /\ acks' = [acks EXCEPT ![<<c, s>>] = @ - 1]
    /\ waiting' = [waiting EXCEPT ![<<c, s>>] = 0]
    /\ IF e # 0 /\ stage[e] = "wait" /\ pos[e] = s
       THEN /\ have' = [have EXCEPT ![e][s] = e]
            /\ pos' = [pos EXCEPT ![e] = s + 1]
            /\ stage' = [stage EXCEPT ![e] = "body"]
       ELSE UNCHANGED <<have, pos, stage>>
    /\ UNCHANGED <<row, recorded, runs, where, socket, lines, history, faults, resets>>

\* The body raises or times out.
Raise(e) ==
    /\ stage[e] \in {"body", "wait"}
    /\ stage' = [stage EXCEPT ![e] = "raised"]
    /\ UNCHANGED <<row, recorded, runs, where, pos, have, frames, lines, history, faults, resets>>

Return(e) ==
    /\ stage[e] = "body" /\ pos[e] = Steps + 1
    /\ stage' = [stage EXCEPT ![e] = "returned"]
    /\ UNCHANGED <<row, recorded, runs, where, pos, have, frames, lines, history, faults, resets>>

Retried == IF attempt < MaxAttempts THEN "available" ELSE "discarded"

\* What a Complete frame makes of the row; should_retry may refuse a retry.
Verdicts(e) == IF stage[e] = "returned" THEN {"completed"} ELSE {Retried, "discarded"}

\* The collector reads the Complete of e and the slot holds the row.
Heard(e) == status = "running" /\ holder = where[e] /\ where[e] \notin deaf

\* Mutant of Settle: the outcome overtakes the Record written before it.
SettleOvertakes(e) ==
    /\ stage[e] \in {"raised", "returned"}
    /\ Over({e})
    /\ IF Heard(e) THEN status' \in Verdicts(e) ELSE UNCHANGED status
    /\ UNCHANGED <<attempt, holder, recorded, runs, frames, lines, faults, resets>>

\* The Complete frame follows the run's Records on the same socket.  It settles
\* the row while the slot holds it, be it for a later run.
Settle(e) ==
    /\ stage[e] \in {"raised", "returned"} /\ Unsent(e)
    /\ Over({e})
    /\ IF Heard(e) THEN status' \in Verdicts(e) ELSE UNCHANGED status
    /\ UNCHANGED <<attempt, holder, recorded, runs, frames, lines, faults, resets>>

\* The lease lapses and RECLAIM takes the row; the run does not notice.
Lapse ==
    /\ status = "running"
    /\ status' = Retried
    /\ UNCHANGED <<attempt, holder, recorded, runs, execs, frames, lines, history, faults, resets>>

\* The child dies, or is killed at the end of a drain.  What reached the socket is
\* still read and recorded (K is what did) before hand_back frees the row, and a
\* new child with a new collector takes its place; after a shutdown neither comes.
Crash(c, K) ==
    LET mine == {e \in Alive : where[e] = c}
        sent == {x \in socket : where[x[1]] = c} IN
    /\ mine # {} /\ K \subseteq sent
    /\ Over(mine)
    /\ \E first \in [Step -> 0..MaxRuns] :
        /\ \A s \in Step : first[s] \in IF {e \in Run : <<e, s>> \in K} = {} THEN {0}
                                        ELSE {e \in Run : <<e, s>> \in K}
        /\ recorded' = [s \in Step |-> IF recorded[s] = 0 THEN first[s] ELSE recorded[s]]
    /\ socket' = socket \ sent
    /\ acks' = [x \in Child \X Step |-> IF x[1] = c THEN 0 ELSE acks[x]]
    /\ waiting' = [x \in Child \X Step |-> IF x[1] = c THEN 0 ELSE waiting[x]]
    /\ status' = IF status = "running" /\ holder = c /\ link[c] = "open" THEN Retried ELSE status
    /\ deaf' = deaf \ {c}
    /\ UNCHANGED <<attempt, holder, runs, link, faults, resets>>

\* The collector of c meets a frame it cannot decode and returns: what is on the
\* socket, and all that follows, goes unread while the session goes on.
Deafen(c) ==
    /\ c \notin deaf /\ (\E e \in Alive : where[e] = c) /\ Fault
    /\ deaf' = deaf \cup {c}
    /\ socket' = {x \in socket : where[x[1]] # c}
    /\ UNCHANGED <<row, recorded, runs, execs, acks, waiting, link, history, resets>>

\* dispatch returns at shutdown, with acknowledgements it has not forwarded.
Close(c) ==
    /\ c \in Stoppable /\ link[c] = "open"
    /\ link' = [link EXCEPT ![c] = "closing"]
    /\ \E lost \in [Step -> 0..MaxRuns] :
        /\ \A s \in Step : lost[s] <= acks[<<c, s>>]
        /\ acks' = [x \in Child \X Step |-> IF x[1] = c THEN acks[x] - lost[x[2]] ELSE acks[x]]
    /\ UNCHANGED <<row, recorded, runs, execs, socket, waiting, deaf, history, faults, resets>>

\* Mutant of EndOfFile: serve() forgets the futures it does not fail.
EndOfFileForgets(c) ==
    /\ link[c] = "closing" /\ \A s \in Step : acks[<<c, s>>] = 0
    /\ link' = [link EXCEPT ![c] = "ended"]
    /\ UNCHANGED <<row, recorded, runs, execs, frames, deaf, history, faults, resets>>

\* The child reads EOF behind the last Stored, and abandon() fails every wait
\* whose future is registered.
EndOfFile(c) ==
    /\ link[c] = "closing" /\ \A s \in Step : acks[<<c, s>>] = 0
    /\ link' = [link EXCEPT ![c] = "ended"]
    /\ stage' = [e \in Run |-> IF where[e] = c /\ stage[e] = "wait" /\ waiting[<<c, pos[e]>>] = e
                             THEN "raised" ELSE stage[e]]
    /\ waiting' = [x \in Child \X Step |-> IF x[1] = c THEN 0 ELSE waiting[x]]
    /\ UNCHANGED <<row, recorded, runs, where, pos, have, socket, acks, deaf, history, faults, resets>>

\* `gylo jobs retry`: RETRY_DISCARDED starts the attempts over.
OperatorRetry ==
    /\ status = "discarded" /\ resets < MaxResets
    /\ status' = "available" /\ attempt' = 0 /\ resets' = resets + 1
    /\ UNCHANGED <<holder, recorded, runs, execs, frames, lines, history, faults>>

Next ==
    \/ \E c \in Child : \/ \E loaded \in BOOLEAN : Dispatch(c, loaded)
                        \/ \E s \in Step : Resolve(c, s)
                        \/ \E K \in SUBSET socket : Crash(c, K)
                        \/ Deafen(c) \/ Close(c) \/ EndOfFile(c)
    \/ \E e \in Run : Replay(e) \/ Work(e) \/ Raise(e) \/ Return(e) \/ Settle(e)
    \/ \E x \in socket, stored \in BOOLEAN : Record(x[1], x[2], stored)
    \/ Lapse
    \/ OperatorRetry

Spec == Init /\ [][Next]_vars

\* The child keeps reading its socket, and so does the collector until a frame
\* ends it.  Nothing is assumed of the body: a task without a timeout may wait for
\* ever, and no other failure need come to help.
Fairness ==
    /\ \A e \in Run, s \in Step : WF_vars(\E stored \in BOOLEAN : Record(e, s, stored))
    /\ \A c \in Child : WF_vars(EndOfFile(c)) /\ \A s \in Step : WF_vars(Resolve(c, s))

FairSpec == Spec /\ Fairness

-----------------------------------------------------------------------------
\* Control does not pass a step before its record is durable (StepContext.step):
\* not even when the acknowledgement a run waits for answers the Record of
\* another run of the job, and not when its own was ignored as a repeat.
DurableBeforeNext ==
    \A e \in Alive : \A s \in Step : s < pos[e] => recorded[s] # 0

\* A run that was dispatched with the steps on record and was alone throughout
\* has seen exactly the recorded results, its own included, and has repeated
\* none: a retry that follows a failure cannot miss a record the failed run had
\* written, because the outcome is read after it.
StepsAgree ==
    \A e \in Alive \ (blind \cup shared) :
        /\ e \notin repeated
        /\ \A s \in Step : s < pos[e] => have[e][s] = recorded[s]

\* Every wait for an acknowledgement ends without the help of a timeout: by a
\* Stored, also when the step was on record already, or by abandon(), also when
\* the Stored was dropped because dispatch had returned at shutdown.  Four waits
\* only a timeout or the death of the child ends: the record was not stored; the
\* next run of the job in the same child registered its future for the step in
\* place of this one (StepAcks.expect); the collector has returned on a frame it
\* could not decode; or the wait began after EOF, behind abandon().
WaitEnds ==
    \A e \in Run : stage[e] = "wait" ~>
        \/ stage[e] # "wait"
        \/ e \in denied \cup late
        \/ waiting[<<where[e], pos[e]>>] # e
        \/ where[e] \in deaf
=============================================================================
