-------------------------------- MODULE Cron --------------------------------
(***************************************************************************)
(* Recurring schedules without a leader: register_schedules and            *)
(* fire_due_schedules of every worker (gylo-worker) over the rows of       *)
(* gylo_cron (UPSERT_CRON, DUE_CRON, FIRE_CRON in gylo-pg).                *)
(*                                                                         *)
(* The database decides what is due by its own clock; the next occurrence  *)
(* is computed by the worker, from its clock, between the two statements,  *)
(* and nothing bounds the time that passes there.                          *)
(***************************************************************************)
EXTENDS Integers, FiniteSets, FiniteSetsExt

CONSTANTS
    Name,        \* schedules
    Expression,  \* cron expressions with their timezone
    Occurrence,  \* Occurrence[x]: the instants expression x names
    Worker,
    Release,     \* Release[w]: the releases w may run, as (name, expression) pairs
    Skew,        \* Skew[w]: how far a reading of w's clock may be from now(), for
                 \* the clock's error and the way from the database to the worker
    DueLimit,    \* how many due schedules one scan returns
    MaxTime      \* bound on the clock

ASSUME CronConfig ==
    /\ Occurrence \in [Expression -> SUBSET Nat] /\ Skew \in [Worker -> SUBSET Int]
    /\ Release \in [Worker -> SUBSET SUBSET (Name \X Expression)]
    /\ DueLimit \in Nat \ {0} /\ MaxTime \in Nat

VARIABLES
    now,     \* now() in the database
    cron,    \* gylo_cron: [expression, next, paused], or NoRow
    due,     \* per worker, what is left of the list it is firing, with the
             \* `now` of its fire_due_schedules
    regs,    \* per worker, what is left of the entries it is registering, with
             \* the `now` of its register_schedules
    fires,   \* history: jobs inserted for each occurrence of each schedule,
             \* counted up to two
    wrote,   \* history: per schedule, when its next_run_at was last written,
             \* from which expression, and whether by a clock ahead of now()
    setback  \* history: schedules whose next_run_at was computed from a time
             \* before the occurrence it replaced

vars == <<now, cron, due, regs, fires, wrote, setback>>
history == <<fires, wrote, setback>>

NoRow == [present |-> FALSE]
Instants == UNION {Occurrence[x] : x \in Expression}
Rows == [present : {TRUE}, expression : Expression, next : Instants, paused : BOOLEAN]
Writes == [at : 0..MaxTime, expression : Expression, ahead : BOOLEAN]

\* Every next_run_at, written by a registration or a firing, is an instant of
\* some expression, and every due list and reading is one a scan could make.
TypeOK ==
    /\ now \in 0..MaxTime
    /\ cron \in [Name -> Rows \cup {NoRow}]
    /\ due \in [Worker -> SUBSET [name : Name, expression : Expression, next : Instants,
                                  read : Int]]
    /\ regs \in [Worker -> SUBSET [name : Name, expression : Expression, read : Int]]
    /\ fires \in [Name \X Instants -> 0..2]
    /\ wrote \in [Name -> Writes \cup {NoRow}] /\ setback \subseteq Name

Init ==
    /\ now = 0 /\ cron = [n \in Name |-> NoRow]
    /\ due = [w \in Worker |-> {}] /\ regs = [w \in Worker |-> {}]
    /\ fires = [x \in Name \X Instants |-> 0]
    /\ wrote = [n \in Name |-> NoRow] /\ setback = {}

Readings(w) == {now + k : k \in Skew[w]}
Due(n) == cron[n].present /\ ~cron[n].paused /\ cron[n].next <= now

\* Mutant of After: an occurrence at t counts as after it.
AfterInclusive(x, t) == {o \in Occurrence[x] : o >= t}

\* Schedule::next_after: the first occurrence strictly after t, if any.
After(x, t) == {o \in Occurrence[x] : o > t}
NextAfter(x, t) == Min(After(x, t))

\* The history of a write of next_run_at computed from x and the time t.
Written(n, x, t) ==
    wrote' = [wrote EXCEPT ![n] = [at |-> now, expression |-> x, ahead |-> t > now]]

-----------------------------------------------------------------------------
\* Mutant of Upsert: every registration sets the clock anew.
UpsertResets(w, e) ==
    LET n == e.name
        x == e.expression
        next == NextAfter(x, e.read) IN
    /\ e \in regs[w]
    /\ regs' = [regs EXCEPT ![w] = @ \ {e}]
    /\ cron' = [cron EXCEPT ![n] = [present |-> TRUE, expression |-> x, next |-> next,
                                    paused |-> @.present /\ @.paused]]
    /\ IF cron[n].present /\ cron[n].expression = x THEN UNCHANGED wrote
       ELSE Written(n, x, e.read)
    /\ UNCHANGED <<now, due, fires, setback>>

\* Mutant of Upsert: an edited expression keeps the old clock.
UpsertKeepsClock(w, e) ==
    LET n == e.name
        x == e.expression IN
    /\ e \in regs[w]
    /\ regs' = [regs EXCEPT ![w] = @ \ {e}]
    /\ cron' = [cron EXCEPT ![n] =
                    IF @.present THEN [@ EXCEPT !.expression = x]
                    ELSE [present |-> TRUE, expression |-> x,
                          next |-> NextAfter(x, e.read), paused |-> FALSE]]
    /\ IF cron[n].present /\ cron[n].expression = x THEN UNCHANGED wrote
       ELSE Written(n, x, e.read)
    /\ UNCHANGED <<now, due, fires, setback>>

\* A child starts and declares its schedules; entries with no next occurrence
\* are reported and left out.
Register(w, code, t) ==
    /\ regs[w] = {}
    /\ regs' = [regs EXCEPT ![w] = {[name |-> e[1], expression |-> e[2], read |-> t] :
                                     e \in {c \in code : After(c[2], t) # {}}}]
    /\ UNCHANGED <<now, cron, due, history>>

\* UPSERT_CRON for one entry: `next_run_at` moves only when the definition
\* changed, `paused` never.
Upsert(w, e) ==
    LET n == e.name
        x == e.expression
        same == cron[n].present /\ cron[n].expression = x IN
    /\ e \in regs[w]
    /\ regs' = [regs EXCEPT ![w] = @ \ {e}]
    /\ cron' = [cron EXCEPT ![n] =
                    [present |-> TRUE, expression |-> x,
                     next |-> IF same THEN @.next ELSE NextAfter(x, e.read),
                     paused |-> @.present /\ @.paused]]
    /\ IF same THEN UNCHANGED <<wrote, setback>>
       ELSE /\ Written(n, x, e.read)
            /\ setback' = IF cron[n].present /\ e.read < wrote[n].at
                          THEN setback \cup {n} ELSE setback
    /\ UNCHANGED <<now, due, fires>>

UpsertFails(w, e) ==
    /\ e \in regs[w]
    /\ regs' = [regs EXCEPT ![w] = @ \ {e}]
    /\ UNCHANGED <<now, cron, due, history>>

-----------------------------------------------------------------------------
\* Mutant of Scan: only what comes due at this very instant is found.
ScanPunctual(w, S, t) ==
    /\ due[w] = {} /\ S # {}
    /\ S \subseteq {n \in Name : Due(n) /\ cron[n].next = now}
    /\ Cardinality(S) <= DueLimit
    /\ due' = [due EXCEPT ![w] = {[name |-> n, expression |-> cron[n].expression,
                                   next |-> cron[n].next, read |-> t] : n \in S}]
    /\ UNCHANGED <<now, cron, regs, history>>

\* DUE_CRON: the first DueLimit due schedules by next_run_at.
Scan(w, S, t) ==
    /\ due[w] = {} /\ S # {}
    /\ S \subseteq {n \in Name : Due(n)}
    /\ Cardinality(S) <= DueLimit
    /\ \A n \in Name \ S : Due(n) => /\ Cardinality(S) = DueLimit
                                     /\ \A m \in S : cron[m].next <= cron[n].next
    /\ due' = [due EXCEPT ![w] = {[name |-> n, expression |-> cron[n].expression,
                                   next |-> cron[n].next, read |-> t] : n \in S}]
    /\ UNCHANGED <<now, cron, regs, history>>

\* The entry at the head of the list.
First(w, d) == d \in due[w] /\ \A other \in due[w] : d.next <= other.next
Taken(w, d) == due' = [due EXCEPT ![w] = @ \ {d}]

\* Mutant of Insert: the schedule advances by one instant, not to an occurrence.
InsertDrifts(n, next) ==
    /\ cron' = [cron EXCEPT ![n].next = now + 1]
    /\ fires' = [fires EXCEPT ![<<n, cron[n].next>>] = IF @ = 0 THEN 1 ELSE 2]

\* FIRE_CRON as the row update and the insert of the job.
Insert(n, next) ==
    /\ cron' = [cron EXCEPT ![n].next = next]
    /\ fires' = [fires EXCEPT ![<<n, cron[n].next>>] = IF @ = 0 THEN 1 ELSE 2]

\* The history of a firing.
Fired(d) ==
    /\ Written(d.name, d.expression, d.read)
    /\ setback' = IF d.read < cron[d.name].next THEN setback \cup {d.name} ELSE setback

\* Mutant of Fire: only the clock is looked at again.
FirePaused(w, d) ==
    /\ First(w, d) /\ After(d.expression, d.read) # {} /\ Taken(w, d)
    /\ cron[d.name].next <= now
    /\ Insert(d.name, NextAfter(d.expression, d.read)) /\ Fired(d)
    /\ UNCHANGED <<now, regs>>

\* The schedule is still due: this worker wins the occurrence.
Fire(w, d) ==
    /\ First(w, d) /\ After(d.expression, d.read) # {} /\ Taken(w, d)
    /\ Due(d.name)
    /\ Insert(d.name, NextAfter(d.expression, d.read)) /\ Fired(d)
    /\ UNCHANGED <<now, regs>>

\* Someone else won it, the expression has no further occurrence, or the
\* statement failed.
Skip(w, d) ==
    /\ First(w, d) /\ Taken(w, d)
    /\ UNCHANGED <<now, cron, regs, history>>

-----------------------------------------------------------------------------
\* Time passes, also while workers are between a scan and a firing, or between
\* the start of a registration and its end.
Tick ==
    /\ now < MaxTime
    /\ now' = now + 1
    /\ UNCHANGED <<cron, due, regs, history>>

\* An operator sets or clears `paused` on the row.
Pause(n) ==
    /\ cron[n].present
    /\ cron' = [cron EXCEPT ![n].paused = ~@]
    /\ UNCHANGED <<now, due, regs, history>>

\* A release that loads has declared each schedule once.
Code(w) == {code \in Release[w] : \A d, e \in code : d[1] = e[1] => d = e}

Next ==
    \/ \E w \in Worker :
        \/ \E code \in Code(w), t \in Readings(w) : Register(w, code, t)
        \/ \E e \in regs[w] : Upsert(w, e) \/ UpsertFails(w, e)
        \/ \E S \in SUBSET Name, t \in Readings(w) : Scan(w, S, t)
        \/ \E d \in due[w] : Fire(w, d) \/ Skip(w, d)
    \/ \E n \in Name : Pause(n)
    \/ Tick

Spec == Init /\ [][Next]_vars

\* Every worker's maintenance loop goes on, and a firing that is tried again and
\* again does not fail every time.
Fairness ==
    \A w \in Worker :
        /\ WF_vars(\E S \in SUBSET Name, t \in Readings(w) : Scan(w, S, t))
        /\ WF_vars(\E d \in due[w] : Fire(w, d) \/ Skip(w, d))
        /\ \A n \in Name : SF_vars(\E d \in due[w] : d.name = n /\ Fire(w, d))

FairSpec == Spec /\ Fairness

-----------------------------------------------------------------------------
\* No occurrence of a schedule is enqueued twice, however many workers find it
\* due, how long they take to fire it and whatever their clocks say (fire_cron;
\* docs/scheduling.md: "exactly one of them wins each occurrence").  The one way
\* round it is a next_run_at computed from a time that is already behind the row:
\* FIRE_CRON and UPSERT_CRON write it without comparing it with what they replace.
OccurrenceOnce == \A n \in Name \ setback : \A o \in Instants : fires[<<n, o>>] <= 1

\* The instant a schedule waits for is one its current expression names, also
\* when a deployment changes the expression while a worker is about to fire the
\* old one, unless that worker's firing came after the change and found the
\* schedule due again: FIRE_CRON then writes an instant of the old expression.
NextMatchesExpression ==
    \A n \in Name :
        (cron[n].present /\ wrote[n].expression = cron[n].expression)
            => cron[n].next \in Occurrence[cron[n].expression]

\* Nothing but a firing or a new definition moves a schedule past an
\* occurrence: restarts that register it again, pauses and lost statements
\* leave the run it owes in place (upsert_cron).  A worker whose clock is ahead
\* of the database's, or that fires an expression no longer on record, may jump
\* over one.
NothingSkipped ==
    \A n \in Name :
        (cron[n].present /\ wrote[n].expression = cron[n].expression /\ ~wrote[n].ahead) =>
            \A o \in Occurrence[cron[n].expression] :
                ~(wrote[n].at < o /\ o < cron[n].next)

\* A pause takes hold at once: a worker that had found the schedule due before
\* the operator set `paused` does not fire it any more.
PausedNeverFires ==
    [][\A n \in Name : (cron[n].present /\ cron[n].paused) =>
            \A o \in Instants : fires'[<<n, o>>] = fires[<<n, o>>]]_vars

\* Due schedules that no worker can fire: fire_due_schedules wants the next
\* occurrence before it fires this one, and their expressions have none left.
Exhausted == {n \in Name : Due(n) /\ After(cron[n].expression, now) = {}}

\* A due schedule fires, on whichever worker, unless it is paused or redefined
\* first.  The exception are exhausted schedules: every scan finds them due, each
\* is passed over for ever, and a DueLimit of them hides all the others.
DueFires ==
    \A n \in Name :
        Due(n) ~> ~Due(n) \/ n \in Exhausted \/ Cardinality(Exhausted) >= DueLimit
=============================================================================
