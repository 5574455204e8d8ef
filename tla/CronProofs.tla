----------------------------- MODULE CronProofs -----------------------------
(***************************************************************************)
(* What the models of TLC suggest about Cron, for any schedules, cron      *)
(* expressions, workers and length of time, whatever the workers' clocks   *)
(* read and however long they take between two statements: an occurrence   *)
(* is enqueued twice, or passed over, only after one of the writes of      *)
(* next_run_at that the properties name.                                   *)
(***************************************************************************)
EXTENDS Cron, WellFoundedInduction, TLAPS

\* A set of instants has a first one, which Schedule::next_after returns.
LEMMA FirstInstant ==
    ASSUME NEW S \in SUBSET Nat, S # {}
    PROVE  Min(S) \in S /\ \A o \in S : Min(S) <= o
<1> DEFINE Less == OpToRel(<, Nat)
<1>1. IsWellFoundedOn(Less, Nat)
  BY NatLessThanWellFounded, Zenon
<1>2. PICK x \in S : \A y \in S : ~(<<y, x>> \in Less)
  <2> HIDE DEF Less
  <2> QED BY <1>1, WFMin, Zenon
<1>3. \A y \in S : x <= y
  <2> TAKE y \in S
  <2>1. <<y, x>> \in Nat \X Nat /\ ~(y < x)
    BY <1>2 DEF OpToRel
  <2> QED BY <2>1
<1> QED BY <1>3, Zenon DEF Min

\* With occurrences left after t, the next one is the first of them.
LEMMA NextAfterFacts ==
    ASSUME NEW x \in Expression, NEW t \in Int, After(x, t) # {}
    PROVE  /\ NextAfter(x, t) \in Occurrence[x] /\ NextAfter(x, t) > t
           /\ NextAfter(x, t) \in Nat /\ NextAfter(x, t) \in Instants
           /\ \A o \in Occurrence[x] : o > t => NextAfter(x, t) <= o
<1>1. After(x, t) \in SUBSET Nat
  BY CronConfig DEF After
<1>2. /\ NextAfter(x, t) \in After(x, t)
      /\ \A o \in After(x, t) : NextAfter(x, t) <= o
  BY <1>1, FirstInstant DEF NextAfter
<1> QED BY <1>1, <1>2 DEF After, Instants

-----------------------------------------------------------------------------
\* The type invariant, with what register_schedules makes sure of: an entry it
\* kept has an occurrence after the time that was read for it.
Shaped ==
    /\ TypeOK
    /\ \A w \in Worker : \A e \in regs[w] : After(e.expression, e.read) # {}

Entries == [name : Name, expression : Expression, read : Int]
Found == [name : Name, expression : Expression, next : Instants, read : Int]

\* The history of a write is well formed.
LEMMA WrittenTyped ==
    ASSUME TypeOK, NEW n \in Name, NEW x \in Expression, NEW t \in Int, Written(n, x, t)
    PROVE  /\ wrote' \in [Name -> Writes \cup {NoRow}]
           /\ wrote'[n] = [at |-> now, expression |-> x, ahead |-> t > now]
           /\ wrote'[n] \in Writes
           /\ \A m \in Name \ {n} : wrote'[m] = wrote[m]
<1>1. [at |-> now, expression |-> x, ahead |-> t > now] \in Writes
  BY CronConfig DEF TypeOK, Writes
<1> QED BY <1>1 DEF TypeOK, Written

\* UPSERT_CRON writes a row.
LEMMA ShapedUpsert ==
    ASSUME Shaped, NEW w \in Worker, NEW e \in regs[w], Upsert(w, e)
    PROVE  Shaped'
<1> USE DEF Shaped
<1> DEFINE n == e.name
           x == e.expression
           same == cron[n].present /\ cron[n].expression = x
           next == IF same THEN cron[n].next ELSE NextAfter(x, e.read)
<1>1. n \in Name /\ x \in Expression /\ now \in 0..MaxTime /\ e.read \in Int
  BY DEF TypeOK
<1>2. NextAfter(x, e.read) \in Instants
  BY <1>1, NextAfterFacts
<1>3. same => cron[n] \in Rows
  BY <1>1 DEF TypeOK, NoRow
<1>4. [present |-> TRUE, expression |-> x, next |-> next,
       paused |-> cron[n].present /\ cron[n].paused] \in Rows
  <2>1. next \in Instants
    BY <1>2, <1>3, Zenon DEF Rows
  <2>2. (cron[n].present /\ cron[n].paused) \in BOOLEAN
    OBVIOUS
  <2> HIDE DEF next
  <2> QED BY <1>1, <2>1, <2>2 DEF Rows
<1>5. cron' \in [Name -> Rows \cup {NoRow}]
  BY <1>1, <1>4 DEF Upsert, TypeOK
<1>6. wrote' \in [Name -> Writes \cup {NoRow}] /\ setback' \subseteq Name
  <2>1. CASE same
    BY <2>1 DEF Upsert, TypeOK
  <2>2. CASE ~same
    <3>1. Written(n, x, e.read) /\ setback' \subseteq setback \cup {n}
      BY <2>2 DEF Upsert
    <3> QED BY <1>1, <3>1, WrittenTyped DEF TypeOK
  <2> QED BY <2>1, <2>2
<1>7. /\ regs' \in [Worker -> SUBSET Entries]
      /\ \A v \in Worker : regs'[v] \subseteq regs[v]
  BY DEF Upsert, TypeOK, Entries
<1> QED BY <1>5, <1>6, <1>7 DEF Upsert, TypeOK, After, Entries

\* DUE_CRON returns rows as they are.
LEMMA ShapedScan ==
    ASSUME Shaped, NEW w \in Worker, NEW S \in SUBSET Name, NEW t \in Int, Scan(w, S, t)
    PROVE  Shaped'
<1> USE DEF Shaped
<1> DEFINE list == {[name |-> n, expression |-> cron[n].expression,
                     next |-> cron[n].next, read |-> t] : n \in S}
<1>1. \A n \in S : cron[n].expression \in Expression /\ cron[n].next \in Instants
  <2> TAKE n \in S
  <2>1. cron[n] \in Rows
    BY DEF Scan, Due, TypeOK, NoRow
  <2> QED BY <2>1, Zenon DEF Rows
<1>2. list \in SUBSET Found
  BY <1>1 DEF Found
<1>3. due' = [due EXCEPT ![w] = list]
  BY DEF Scan
<1> HIDE DEF list
<1>4. due' \in [Worker -> SUBSET Found]
  BY <1>2, <1>3 DEF TypeOK, Found
<1> QED BY <1>4 DEF Scan, history, TypeOK, After, Found

\* FIRE_CRON moves a row to another instant, and counts the one it leaves.
LEMMA ShapedFire ==
    ASSUME Shaped, NEW w \in Worker, NEW d \in due[w], Fire(w, d)
    PROVE  Shaped'
<1> USE DEF Shaped
<1> DEFINE n == d.name
           x == d.expression
           next == NextAfter(x, d.read)
<1>1. /\ n \in Name /\ x \in Expression /\ d.read \in Int
      /\ After(x, d.read) # {}
  BY DEF TypeOK, Fire
<1>2. next \in Instants
  BY <1>1, NextAfterFacts
<1>3. cron[n] \in Rows
  BY <1>1 DEF Fire, Due, TypeOK, NoRow
<1>4. cron[n].next \in Instants /\ [cron[n] EXCEPT !.next = next] \in Rows
  BY <1>2, <1>3, Zenon DEF Rows
<1>5. /\ cron' = [cron EXCEPT ![n].next = next]
      /\ fires' = [fires EXCEPT ![<<n, cron[n].next>>] = IF @ = 0 THEN 1 ELSE 2]
      /\ Written(n, x, d.read) /\ setback' \subseteq setback \cup {n}
  BY DEF Fire, Insert, Fired
<1> HIDE DEF next
<1>6. cron' \in [Name -> Rows \cup {NoRow}]
  BY <1>1, <1>4, <1>5 DEF TypeOK
<1>7. fires' \in [Name \X Instants -> 0..2]
  BY <1>1, <1>4, <1>5 DEF TypeOK
<1>8. wrote' \in [Name -> Writes \cup {NoRow}] /\ setback' \subseteq Name
  BY <1>1, <1>5, WrittenTyped DEF TypeOK
<1>9. due' \in [Worker -> SUBSET Found]
  BY DEF Fire, Taken, TypeOK, Found
<1> QED BY <1>6, <1>7, <1>8, <1>9 DEF Fire, TypeOK, After, Found

\* An operator's pause touches `paused` only.
LEMMA ShapedPause == ASSUME Shaped, NEW n \in Name, Pause(n) PROVE Shaped'
<1>1. cron[n] \in Rows
  BY DEF Shaped, Pause, TypeOK, NoRow
<1>2. [cron[n] EXCEPT !.paused = ~cron[n].paused] \in Rows
  BY <1>1, Zenon DEF Rows
<1>3. cron' \in [Name -> Rows \cup {NoRow}]
  BY <1>2 DEF Shaped, Pause, TypeOK
<1> QED BY <1>3 DEF Shaped, Pause, history, TypeOK, After

\* A clock shows an integer.
LEMMA ReadingsTyped ==
    ASSUME TypeOK, NEW w \in Worker
    PROVE  \A t \in Readings(w) : t \in Int
  BY CronConfig DEF Readings, TypeOK

\* Every step leaves rows, lists and histories of their types.
LEMMA ShapedStep == Shaped /\ [Next]_vars => Shaped'
<1> SUFFICES ASSUME Shaped, [Next]_vars PROVE Shaped'
  OBVIOUS
<1>1. ASSUME NEW w \in Worker, NEW code \in Code(w), NEW t \in Readings(w), Register(w, code, t)
      PROVE  Shaped'
  <2> DEFINE kept == {[name |-> e[1], expression |-> e[2], read |-> t] :
                        e \in {c \in code : After(c[2], t) # {}}}
  <2>1. t \in Int /\ code \subseteq Name \X Expression
    BY ReadingsTyped, CronConfig DEF Shaped, Code
  <2>2. kept \subseteq Entries /\ \A e \in kept : After(e.expression, e.read) # {}
    BY <2>1 DEF Entries
  <2>3. regs' = [regs EXCEPT ![w] = kept]
    BY <1>1 DEF Register
  <2> HIDE DEF kept
  <2>4. TypeOK'
    BY <1>1, <2>2, <2>3 DEF Register, history, Shaped, TypeOK, Entries
  <2>5. \A v \in Worker : \A e \in regs'[v] : After(e.expression, e.read) # {}
    BY <2>2, <2>3 DEF Shaped, TypeOK
  <2> QED BY <2>4, <2>5 DEF Shaped, After
<1>2. ASSUME NEW w \in Worker, NEW e \in regs[w], UpsertFails(w, e) PROVE Shaped'
  BY <1>2 DEF UpsertFails, history, Shaped, TypeOK, After
<1>3. ASSUME NEW w \in Worker, NEW d \in due[w], Skip(w, d) PROVE Shaped'
  BY <1>3 DEF Skip, Taken, history, Shaped, TypeOK, After
<1>4. CASE Tick
  <2>1. now' \in 0..MaxTime
    BY <1>4, CronConfig DEF Tick, Shaped, TypeOK
  <2> QED BY <1>4, <2>1 DEF Tick, history, Shaped, TypeOK, After
<1>5. CASE UNCHANGED vars
  BY <1>5, Zenon DEF vars, Shaped, TypeOK, After
<1>6. ASSUME NEW w \in Worker, NEW S \in SUBSET Name, NEW t \in Readings(w), Scan(w, S, t)
      PROVE  Shaped'
  BY <1>6, ReadingsTyped, ShapedScan DEF Shaped
<1> QED
  BY <1>1, <1>2, <1>3, <1>4, <1>5, <1>6, ShapedUpsert, ShapedFire, ShapedPause DEF Next

\* gylo_cron and the workers' lists are well formed whatever the clocks say and
\* however long a worker takes.
THEOREM CronTyped == Spec => []TypeOK
<1>1. Init => Shaped
  BY CronConfig DEF Init, Shaped, TypeOK
<1>2. Shaped => TypeOK
  BY DEF Shaped
<1> QED BY <1>1, <1>2, ShapedStep, PTL DEF Spec

-----------------------------------------------------------------------------
\* A row waits for the first occurrence, after the time of its last write or
\* after an earlier one, of the expression that write knew.
Waits(n) ==
    cron[n].present =>
        /\ wrote[n] \in Writes /\ wrote[n].at <= now
        /\ cron[n].next \in Occurrence[wrote[n].expression]
        /\ ~wrote[n].ahead => \A o \in Occurrence[wrote[n].expression] :
                                 ~(wrote[n].at < o /\ o < cron[n].next)

\* Unless it was set back, a row has left behind what was fired for it, and the
\* write that left it came later.
Passed(n) ==
    n \notin setback => \A o \in Instants :
        /\ fires[<<n, o>>] <= 1
        /\ fires[<<n, o>>] > 0 =>
            cron[n].present /\ o < cron[n].next /\ o <= wrote[n].at

CronInv == Shaped /\ \A n \in Name : Waits(n) /\ Passed(n)

\* Init of Cron (an empty gylo_cron): nothing was read, fired or scheduled.
LEMMA CronStart == Init => CronInv
<1> SUFFICES ASSUME Init PROVE CronInv
  OBVIOUS
<1>1. Shaped
  BY CronConfig DEF Init, Shaped, TypeOK
<1>2. \A n \in Name : Waits(n) /\ Passed(n)
  BY DEF Init, Waits, Passed, NoRow
<1> QED BY <1>1, <1>2 DEF CronInv

\* Whatever leaves the rows' instants and the histories alone keeps the invariant,
\* time included.
LEMMA CronSame ==
    ASSUME CronInv, Shaped', UNCHANGED <<fires, wrote, setback>>, now' >= now,
           \A n \in Name : cron'[n].present = cron[n].present /\ cron'[n].next = cron[n].next
    PROVE  CronInv'
<1> SUFFICES ASSUME NEW n \in Name PROVE Waits(n)' /\ Passed(n)'
  BY DEF CronInv
<1>1. Waits(n) /\ Passed(n) /\ now \in Nat /\ now' \in Nat
  BY CronConfig DEF CronInv, Shaped, TypeOK
<1>2. wrote[n] \in Writes => wrote[n].at \in Nat
  BY CronConfig DEF Writes
<1>3. Waits(n)'
  BY <1>1, <1>2 DEF Waits, Writes
<1>4. Passed(n)'
  BY <1>1 DEF Passed
<1> QED BY <1>3, <1>4

\* A write of next_run_at for expression x and time t: the row waits for the
\* first occurrence of x after t.
LEMMA WritesWait ==
    ASSUME TypeOK, NEW n \in Name, NEW x \in Expression, NEW t \in Int, After(x, t) # {},
           Written(n, x, t), cron'[n].next = NextAfter(x, t), now' = now
    PROVE  Waits(n)'
<1>1. /\ wrote'[n] = [at |-> now, expression |-> x, ahead |-> t > now]
      /\ wrote'[n] \in Writes
  BY WrittenTyped
<1>2. now \in Nat
  BY CronConfig DEF TypeOK
<1>3. ASSUME ~(t > now), NEW o \in Occurrence[x], now < o, o < NextAfter(x, t) PROVE FALSE
  <2>1. o \in Nat
    BY CronConfig
  <2>2. o > t
    BY <1>2, <1>3, <2>1
  <2>3. NextAfter(x, t) <= o /\ NextAfter(x, t) \in Nat
    BY <2>2, NextAfterFacts
  <2> QED BY <1>3, <2>1, <2>3
<1>4. wrote'[n].at = now /\ wrote'[n].expression = x /\ wrote'[n].ahead = (t > now)
  BY <1>1
<1>5. cron'[n].next \in Occurrence[x]
  BY NextAfterFacts
<1>6. wrote'[n].at <= now'
  BY <1>2, <1>4
<1>7. ~wrote'[n].ahead => \A o \in Occurrence[x] : ~(now < o /\ o < cron'[n].next)
  BY <1>3, <1>4
<1> QED BY <1>1, <1>4, <1>5, <1>6, <1>7 DEF Waits, Writes

\* UPSERT_CRON: an unchanged definition keeps its instant; a new one waits for
\* an instant after the time that was read, which is after all that was fired
\* unless that time is before the row's last write.
LEMMA CronUpsert ==
    ASSUME CronInv, NEW w \in Worker, NEW e \in regs[w], Upsert(w, e)
    PROVE  CronInv'
<1> USE DEF CronInv
<1> DEFINE n == e.name
           x == e.expression
           same == cron[n].present /\ cron[n].expression = x
<1>1. n \in Name /\ x \in Expression /\ e.read \in Int /\ After(x, e.read) # {} /\ now \in Nat
  BY CronConfig DEF Shaped, TypeOK
<1>2. Shaped'
  BY ShapedUpsert
<1>3. /\ cron'[n].present
      /\ cron'[n].next = IF same THEN cron[n].next ELSE NextAfter(x, e.read)
      /\ \A m \in Name : m # n => cron'[m] = cron[m]
      /\ now' = now /\ fires' = fires
  BY <1>1 DEF Upsert, Shaped, TypeOK
<1>4. CASE same
  <2>1. UNCHANGED <<fires, wrote, setback>>
    BY <1>4 DEF Upsert
  <2>2. \A m \in Name : cron'[m].present = cron[m].present /\ cron'[m].next = cron[m].next
    <3>1. cron[n] \in Rows /\ cron'[n] \in Rows
      BY <1>1, <1>2, <1>3, <1>4 DEF Shaped, TypeOK, NoRow
    <3>2. cron[n].present = TRUE /\ cron'[n].present = TRUE
      BY <3>1, Zenon DEF Rows
    <3> QED BY <1>3, <1>4, <3>2
  <2> QED BY <1>1, <1>2, <1>3, <2>1, <2>2, CronSame
<1>5. CASE ~same
  <2>1. /\ Written(n, x, e.read)
        /\ setback' = IF cron[n].present /\ e.read < wrote[n].at
                      THEN setback \cup {n} ELSE setback
    BY <1>5 DEF Upsert
  <2>2. /\ wrote'[n] = [at |-> now, expression |-> x, ahead |-> e.read > now]
        /\ \A m \in Name \ {n} : wrote'[m] = wrote[m]
    BY <1>1, <2>1, WrittenTyped DEF Shaped
  <2>3. Waits(n)'
    BY <1>1, <1>3, <1>5, <2>1, WritesWait DEF Shaped
  <2>4. Passed(n)'
    <3> SUFFICES ASSUME n \notin setback', NEW o \in Instants
                 PROVE  /\ fires[<<n, o>>] <= 1
                        /\ fires[<<n, o>>] > 0 => o < cron'[n].next /\ o <= wrote'[n].at
      BY <1>3 DEF Passed
    <3>1. n \notin setback /\ (cron[n].present => ~(e.read < wrote[n].at))
      BY <2>1
    <3>2. /\ fires[<<n, o>>] <= 1
          /\ fires[<<n, o>>] > 0 => cron[n].present /\ o <= wrote[n].at
      BY <1>1, <3>1 DEF Passed
    <3>3. cron[n].present => wrote[n].at \in Nat /\ wrote[n].at <= now
      BY <1>1, CronConfig DEF Waits, Writes
    <3>4. NextAfter(x, e.read) > e.read /\ NextAfter(x, e.read) \in Nat
      BY <1>1, NextAfterFacts
    <3>5. wrote'[n].at = now /\ cron'[n].next = NextAfter(x, e.read) /\ o \in Nat
      BY <1>3, <1>5, <2>2, CronConfig DEF Instants
    <3> HIDE DEF n, x
    <3> QED BY <1>1, <3>1, <3>2, <3>3, <3>4, <3>5
  <2>5. ASSUME NEW m \in Name, m # n PROVE Waits(m)' /\ Passed(m)'
    <3>1. cron'[m] = cron[m] /\ wrote'[m] = wrote[m] /\ (m \notin setback' => m \notin setback)
      BY <1>3, <2>1, <2>2, <2>5
    <3> QED BY <1>3, <3>1 DEF Waits, Passed, Writes
  <2> QED BY <1>2, <2>3, <2>4, <2>5
<1> QED BY <1>4, <1>5

\* FIRE_CRON: the row moves to the first occurrence after the time that was
\* read, and the one it leaves was never fired before.
LEMMA CronFire ==
    ASSUME CronInv, NEW w \in Worker, NEW d \in due[w], Fire(w, d)
    PROVE  CronInv'
<1> USE DEF CronInv
<1> DEFINE n == d.name
           x == d.expression
           fired == cron[n].next
<1>1. n \in Name /\ x \in Expression /\ d.read \in Int /\ After(x, d.read) # {} /\ now \in Nat
  BY CronConfig DEF Shaped, TypeOK, Fire
<1>2. Shaped'
  BY ShapedFire
<1>3. cron[n] \in Rows /\ cron[n].present /\ fired <= now /\ fired \in Instants /\ fired \in Nat
  <2>1. cron[n].present /\ fired <= now
    BY DEF Fire, Due
  <2>2. cron[n] \in Rows
    BY <1>1, <2>1 DEF Shaped, TypeOK, NoRow
  <2>3. fired \in Instants
    BY <2>2, Zenon DEF Rows
  <2>4. fired \in Nat
    BY <2>3, CronConfig DEF Instants
  <2> QED BY <2>1, <2>2, <2>3, <2>4
<1>4. /\ cron' = [cron EXCEPT ![n].next = NextAfter(x, d.read)]
      /\ fires' = [fires EXCEPT ![<<n, fired>>] = IF @ = 0 THEN 1 ELSE 2]
      /\ Written(n, x, d.read) /\ now' = now
      /\ setback' = IF d.read < fired THEN setback \cup {n} ELSE setback
  BY DEF Fire, Insert, Fired
<1>5. /\ cron'[n].present /\ cron'[n].next = NextAfter(x, d.read)
      /\ \A m \in Name : m # n => cron'[m] = cron[m]
  BY <1>1, <1>3, <1>4 DEF Shaped, TypeOK, Rows
<1>6. /\ wrote'[n] = [at |-> now, expression |-> x, ahead |-> d.read > now]
      /\ \A m \in Name \ {n} : wrote'[m] = wrote[m]
  BY <1>1, <1>4, WrittenTyped DEF Shaped
<1>7. Waits(n)'
  BY <1>1, <1>4, <1>5, WritesWait DEF Shaped
<1>8. \A m \in Name, o \in Instants :
        fires'[<<m, o>>] = IF m = n /\ o = fired
                           THEN IF fires[<<m, o>>] = 0 THEN 1 ELSE 2
                           ELSE fires[<<m, o>>]
  BY <1>1, <1>3, <1>4, Zenon DEF Shaped, TypeOK
<1>9. Passed(n)'
  <2> SUFFICES ASSUME n \notin setback', NEW o \in Instants
               PROVE  /\ fires'[<<n, o>>] <= 1
                      /\ fires'[<<n, o>>] > 0 => o < cron'[n].next /\ o <= wrote'[n].at
    BY <1>5 DEF Passed
  <2>1. n \notin setback /\ ~(d.read < fired)
    BY <1>4
  <2>2. /\ fires[<<n, o>>] <= 1 /\ fires[<<n, o>>] \in 0..2
        /\ fires[<<n, o>>] > 0 => o < fired /\ o <= wrote[n].at
    BY <1>1, <2>1 DEF Passed, Shaped, TypeOK
  <2>3. wrote[n].at \in Nat /\ wrote[n].at <= now
    BY <1>1, <1>3, CronConfig DEF Waits, Writes
  <2>4. NextAfter(x, d.read) > d.read /\ NextAfter(x, d.read) \in Nat
    BY <1>1, NextAfterFacts
  <2>5. wrote'[n].at = now /\ cron'[n].next = NextAfter(x, d.read) /\ o \in Nat
    BY <1>5, <1>6, CronConfig DEF Instants
  <2>6. fires'[<<n, o>>] = IF o = fired THEN IF fires[<<n, o>>] = 0 THEN 1 ELSE 2
                           ELSE fires[<<n, o>>]
    BY <1>1, <1>8
  <2> HIDE DEF n, x, fired
  <2> QED BY <1>1, <1>3, <2>1, <2>2, <2>3, <2>4, <2>5, <2>6
<1>10. ASSUME NEW m \in Name, m # n PROVE Waits(m)' /\ Passed(m)'
  <2>1. /\ cron'[m] = cron[m] /\ wrote'[m] = wrote[m] /\ (m \notin setback' => m \notin setback)
        /\ \A o \in Instants : fires'[<<m, o>>] = fires[<<m, o>>]
    BY <1>4, <1>5, <1>6, <1>8, <1>10
  <2> QED BY <1>4, <2>1 DEF Waits, Passed, Writes
<1> QED BY <1>2, <1>7, <1>9, <1>10

\* The invariant is kept by every step of every worker, of an operator and of time.
LEMMA CronStep == CronInv /\ [Next]_vars => CronInv'
<1> SUFFICES ASSUME CronInv, [Next]_vars PROVE CronInv'
  OBVIOUS
<1>1. Shaped'
  BY ShapedStep DEF CronInv
<1>2. now \in Nat
  BY CronConfig DEF CronInv, Shaped, TypeOK
<1>3. ASSUME UNCHANGED <<now, cron, fires, wrote, setback>> PROVE CronInv'
  BY <1>1, <1>2, <1>3, CronSame
<1>4. ASSUME NEW w \in Worker, NEW code \in Code(w), NEW t \in Readings(w), Register(w, code, t)
      PROVE  CronInv'
  BY <1>3, <1>4 DEF Register, history
<1>5. ASSUME NEW w \in Worker, NEW e \in regs[w], Upsert(w, e) \/ UpsertFails(w, e)
      PROVE  CronInv'
  BY <1>3, <1>5, CronUpsert DEF UpsertFails, history
<1>6. ASSUME NEW w \in Worker, NEW S \in SUBSET Name, NEW t \in Readings(w), Scan(w, S, t)
      PROVE  CronInv'
  BY <1>3, <1>6 DEF Scan, history
<1>7. ASSUME NEW w \in Worker, NEW d \in due[w], Fire(w, d) \/ Skip(w, d) PROVE CronInv'
  BY <1>3, <1>7, CronFire DEF Skip, history
<1>8. ASSUME NEW n \in Name, Pause(n) PROVE CronInv'
  <2>1. cron[n] \in Rows
    BY <1>8 DEF CronInv, Shaped, Pause, TypeOK, NoRow
  <2>2. \A m \in Name : cron'[m].present = cron[m].present /\ cron'[m].next = cron[m].next
    BY <1>8, <2>1 DEF CronInv, Shaped, Pause, TypeOK, Rows
  <2> QED BY <1>1, <1>2, <1>8, <2>2, CronSame DEF Pause, history
<1>9. CASE Tick
  BY <1>1, <1>2, <1>9, CronSame DEF Tick, history
<1>10. CASE UNCHANGED vars
  BY <1>3, <1>10 DEF vars
<1> QED BY <1>4, <1>5, <1>6, <1>7, <1>8, <1>9, <1>10 DEF Next

-----------------------------------------------------------------------------
\* Every reachable state satisfies the invariant, for any number of workers that
\* register, scan and fire at once.
LEMMA CronAlways == Spec => []CronInv
  BY CronStart, CronStep, PTL DEF Spec

\* fire_cron enqueues an occurrence twice only for a schedule whose next_run_at
\* was computed from a time already behind the row, whatever the clocks and
\* delays of the workers and however many of them find it due.
THEOREM CronOnce == Spec => []OccurrenceOnce
<1>1. CronInv => OccurrenceOnce
  BY DEF CronInv, Passed, OccurrenceOnce
<1> QED BY <1>1, CronAlways, PTL

\* A row waits for an instant of its current expression, through deployments
\* that change the expression while other workers fire the old one, unless one
\* of those firings was the last to write the row.
THEOREM CronMatches == Spec => []NextMatchesExpression
<1>1. CronInv => NextMatchesExpression
  BY DEF CronInv, Waits, NextMatchesExpression
<1> QED BY <1>1, CronAlways, PTL

\* Restarts, pauses, lost statements and slow workers move no row past an
\* occurrence it owes; only a clock that is ahead or an old expression does.
THEOREM CronSkipsNothing == Spec => []NothingSkipped
<1>1. CronInv => NothingSkipped
  BY DEF CronInv, Waits, NothingSkipped
<1> QED BY <1>1, CronAlways, PTL

\* FIRE_CRON looks at `paused` again: whatever the clocks and delays of the
\* workers, none of them fires a schedule that is paused at that moment.
THEOREM CronPauseHolds == Spec => PausedNeverFires
<1> DEFINE Domain == DOMAIN fires = Name \X Instants
<1>1. Init => Domain
  BY DEF Init
<1>2. \A w \in Worker : \A d \in due[w] : Fire(w, d) =>
        /\ DOMAIN fires' = DOMAIN fires
        /\ \A n \in Name : \A o \in Instants :
            Domain /\ cron[n].present /\ cron[n].paused
                => fires'[<<n, o>>] = fires[<<n, o>>]
  BY DEF Fire, Insert, Due
<1>3. [Next]_vars => \/ UNCHANGED fires
                     \/ \E w \in Worker : \E d \in due[w] : Fire(w, d)
  BY Zenon DEF Next, vars, Register, Upsert, UpsertFails, Scan, Skip, Pause, Tick, history
<1>4. Domain /\ [Next]_vars => Domain'
  BY <1>2, <1>3
<1>5. Domain /\ [Next]_vars =>
        [\A n \in Name : (cron[n].present /\ cron[n].paused) =>
            \A o \in Instants : fires'[<<n, o>>] = fires[<<n, o>>]]_vars
  BY <1>2, <1>3
<1> HIDE DEF Domain
<1> QED BY <1>1, <1>4, <1>5, PTL DEF Spec, PausedNeverFires
=============================================================================
