---------------------------- MODULE WorkerProofs ----------------------------
(***************************************************************************)
(* The supervisor, for any number of workers, jobs and failures and any    *)
(* batch and concurrency.                                                  *)
(*                                                                         *)
(* First back-pressure: what a turn of dispatch fetches fits the room it   *)
(* saw, because only dispatch fills it.                                    *)
(*                                                                         *)
(* Then no job executes twice at a time while its lease holds: what a      *)
(* worker has is leased to it, and is with one of its tasks only.          *)
(*                                                                         *)
(* Last, every step of the supervisor is a statement on the table or none, *)
(* so what is proved of the table holds under it, JobLifecycle included.   *)
(***************************************************************************)
EXTENDS Worker, JobQueueProofs

Unkeyed(S) == {j \in S : ConcurrencyKey[j] = NoKey}

\* What fetch() is about to hand to dispatch fits the room dispatch saw, but for
\* one job, and that one is keyed.
Room(w) ==
    /\ inflight[w] \subseteq Job /\ limit[w] \in Nat
    /\ IsFiniteSet(fetched[w]) /\ JobsOf(fetched[w]) \subseteq Job
    /\ Cardinality(inflight[w]) <= Concurrency + 1
    /\ Cardinality(Unkeyed(inflight[w])) <= Concurrency
    /\ fetch[w] # "idle" =>
        /\ Cardinality(inflight[w]) + limit[w] <= Concurrency
        /\ Cardinality(JobsOf(fetched[w])) <= limit[w] + 1
        /\ Cardinality(Unkeyed(JobsOf(fetched[w]))) <= limit[w]
    /\ fetch[w] \in {"keyed", "admit"} => Cardinality(JobsOf(fetched[w])) <= limit[w]

PerWorker ==
    /\ DOMAIN inflight = Worker /\ DOMAIN fetched = Worker
    /\ DOMAIN fetch = Worker /\ DOMAIN limit = Worker

RoomInv == PerWorker /\ \A w \in Worker : Room(w)

-----------------------------------------------------------------------------
\* Sets of job ids are finite, and a part is no larger than the whole.
LEMMA Part ==
    ASSUME NEW S \in SUBSET Job, NEW T \in SUBSET S
    PROVE  /\ IsFiniteSet(S) /\ Cardinality(S) \in Nat
           /\ IsFiniteSet(T) /\ Cardinality(T) \in Nat /\ Cardinality(T) <= Cardinality(S)
<1>1. IsFiniteSet(S)
  BY JobsFinite, FS_Subset, Zenon
<1>2. IsFiniteSet(T) /\ Cardinality(T) <= Cardinality(S)
  BY <1>1, FS_Subset, Zenon
<1> QED BY <1>1, <1>2, FS_CardinalityType, Zenon

\* Two sets of ids together hold at most as many as both.
LEMMA Joined ==
    ASSUME NEW S \in SUBSET Job, NEW T \in SUBSET Job
    PROVE  Cardinality(S \cup T) <= Cardinality(S) + Cardinality(T)
<1>1. IsFiniteSet(S) /\ IsFiniteSet(T) /\ Cardinality(S) \in Nat /\ Cardinality(T) \in Nat
  BY Part, Zenon
<1>2. Cardinality(S \cap T) \in Nat
  BY Part, Zenon
<1>3. Cardinality(S \cup T) = Cardinality(S) + Cardinality(T) - Cardinality(S \cap T)
  BY <1>1, FS_Union, Zenon
<1> QED BY <1>1, <1>2, <1>3

\* The pairs <<job, attempt>> of a fetch are as many as its jobs at most, and
\* name exactly those.
LEMMA Pairs ==
    ASSUME NEW S \in SUBSET Job, NEW a
    PROVE  /\ IsFiniteSet({<<j, a[j]>> : j \in S})
           /\ JobsOf({<<j, a[j]>> : j \in S}) = S
<1> DEFINE T == {<<j, a[j]>> : j \in S}
           f == [j \in S |-> <<j, a[j]>>]
<1>1. f \in Surjection(S, T)
  BY Zenon DEF Surjection
<1>2. IsFiniteSet(T)
  <2> HIDE DEF T, f
  <2> QED BY <1>1, Part, FS_Surjection, Zenon
<1>3. JobsOf(T) = S
  <2>1. \A x \in T : x[1] \in S
    OBVIOUS
  <2>2. \A j \in S : <<j, a[j]>> \in T /\ <<j, a[j]>>[1] = j
    BY Zenon
  <2> HIDE DEF T
  <2> QED BY <2>1, <2>2, Zenon DEF JobsOf
<1> QED BY <1>2, <1>3, Zenon

\* A list of pairs names no more jobs than it has members.
LEMMA Named ==
    ASSUME NEW P, IsFiniteSet(P)
    PROVE  Cardinality(JobsOf(P)) <= Cardinality(P) /\ Cardinality(P) \in Nat
<1> DEFINE f == [x \in P |-> x[1]]
<1>1. f \in Surjection(P, JobsOf(P))
  BY Zenon DEF Surjection, JobsOf
<1> HIDE DEF f
<1> QED BY <1>1, FS_Surjection, FS_CardinalityType, Zenon

-----------------------------------------------------------------------------
\* Whatever leaves the dispatcher alone and only takes ids out of flight keeps
\* the room.
LEMMA OnlyReleases ==
    ASSUME RoomInv, UNCHANGED dispatcher, DOMAIN inflight' = Worker,
           \A w \in Worker : inflight'[w] \subseteq inflight[w]
    PROVE  RoomInv'
<1>1. UNCHANGED <<fetch, limit, fetched>>
  BY Zenon DEF dispatcher
<1>2. ASSUME NEW w \in Worker PROVE Room(w)'
  <2>1. /\ Cardinality(inflight'[w]) <= Cardinality(inflight[w])
        /\ Cardinality(inflight'[w]) \in Nat /\ Cardinality(inflight[w]) \in Nat
    BY Part, Zenon DEF RoomInv, Room
  <2>2. /\ Cardinality(Unkeyed(inflight'[w])) <= Cardinality(Unkeyed(inflight[w]))
        /\ Cardinality(Unkeyed(inflight'[w])) \in Nat
        /\ Cardinality(Unkeyed(inflight[w])) \in Nat
    BY Part, Zenon DEF RoomInv, Room, Unkeyed
  <2>3. Room(w) /\ Concurrency \in Nat
    BY WorkerConfig, Zenon DEF RoomInv
  <2>4. Unkeyed(inflight[w])' = Unkeyed(inflight'[w])
    BY Zenon DEF Unkeyed
  <2> QED BY <1>1, <2>1, <2>2, <2>3, <2>4 DEF Room, JobsOf, Unkeyed
<1> QED BY <1>1, <1>2, Zenon DEF RoomInv, PerWorker

\* A step that touches one worker's dispatcher has that worker's room to keep.
LEMMA OneDispatches ==
    ASSUME RoomInv, NEW w \in Worker, PerWorker', Room(w)',
           \A v \in Worker \ {w} : /\ inflight'[v] = inflight[v] /\ fetched'[v] = fetched[v]
                                   /\ fetch'[v] = fetch[v] /\ limit'[v] = limit[v]
    PROVE  RoomInv'
<1>1. ASSUME NEW v \in Worker \ {w} PROVE Room(v)'
  BY <1>1, Zenon DEF RoomInv, Room, JobsOf, Unkeyed
<1> QED BY <1>1, Zenon DEF RoomInv

\* The error paths of fetch() and the end of a session drop what was fetched.
LEMMA FetchDropped ==
    ASSUME RoomInv, NEW w \in Worker, UNCHANGED <<inflight, limit>>,
           fetched' = Set(fetched, w, {}), fetch' = Set(fetch, w, "idle")
    PROVE  RoomInv'
<1>1. fetched'[w] = {} /\ fetch'[w] = "idle" /\ PerWorker'
  BY Zenon DEF RoomInv, PerWorker, Set
<1>2. IsFiniteSet(fetched'[w]) /\ JobsOf(fetched'[w]) = {}
  BY <1>1, FS_EmptySet, Zenon DEF JobsOf
<1>3. Room(w)'
  BY <1>1, <1>2, Zenon DEF RoomInv, Room, Unkeyed, JobsOf
<1> QED BY <1>1, <1>3, OneDispatches, Zenon DEF RoomInv, PerWorker, Set

\* The first pass of fetch() leases unkeyed jobs, no more than the room.
LEMMA RoomFetchFirst ==
    ASSUME RoomInv, NEW w \in Worker, NEW S \in SUBSET Job, FetchFirst(w, S)
    PROVE  RoomInv'
<1> DEFINE room == Smaller(Batch, Available(w))
           held == Cardinality(inflight[w])
<1>1. held \in Nat /\ Cardinality(S) \in Nat /\ Batch \in Nat /\ Concurrency \in Nat
  BY Part, WorkerConfig, ColumnTypes DEF RoomInv, Room
<1>2. room \in Nat /\ held + room <= Concurrency /\ Cardinality(S) <= room
  <2>1. held < Concurrency /\ Available(w) = Concurrency - held
    BY <1>1 DEF FetchFirst, Available
  <2> QED BY <1>1, <2>1 DEF FetchFirst, Smaller
<1> HIDE DEF room, held
<1>3. /\ limit'[w] = room /\ fetched'[w] = {<<j, attempt'[j]>> : j \in S}
      /\ inflight' = inflight /\ PerWorker'
  BY Zenon DEF FetchFirst, RoomInv, PerWorker, Set, room
<1>4. IsFiniteSet(fetched'[w]) /\ JobsOf(fetched'[w]) = S
  <2>1. /\ IsFiniteSet({<<j, attempt'[j]>> : j \in S})
        /\ JobsOf({<<j, attempt'[j]>> : j \in S}) = S
    <3> DEFINE a == attempt'
    <3> HIDE DEF a
    <3>1. IsFiniteSet({<<j, a[j]>> : j \in S}) /\ JobsOf({<<j, a[j]>> : j \in S}) = S
      BY Pairs, Zenon
    <3> QED BY <3>1, Zenon DEF a
  <2> QED BY <1>3, <2>1, Zenon
<1>5. Cardinality(Unkeyed(S)) <= Cardinality(S) /\ Cardinality(Unkeyed(S)) \in Nat
  BY Part, Zenon DEF Unkeyed
<1>6. JobsOf(fetched[w])' = S /\ Unkeyed(JobsOf(fetched[w]))' = Unkeyed(S)
  BY <1>4, Zenon DEF JobsOf, Unkeyed
<1>7. Room(w)'
  <2>1. /\ inflight'[w] \subseteq Job /\ Cardinality(inflight'[w]) <= Concurrency + 1
        /\ Cardinality(Unkeyed(inflight[w])') <= Concurrency
    BY <1>3, Zenon DEF RoomInv, Room, Unkeyed
  <2>2. Cardinality(inflight'[w]) + limit'[w] <= Concurrency
    BY <1>2, <1>3, Zenon DEF held
  <2>3. /\ Cardinality(JobsOf(fetched[w])') <= limit'[w]
        /\ Cardinality(JobsOf(fetched[w])') <= limit'[w] + 1
        /\ Cardinality(Unkeyed(JobsOf(fetched[w]))') <= limit'[w]
    BY <1>1, <1>2, <1>3, <1>5, <1>6
  <2> QED BY <1>2, <1>3, <1>4, <1>6, <2>1, <2>2, <2>3, Zenon DEF Room
<1> QED BY <1>3, <1>7, OneDispatches, Zenon DEF FetchFirst, RoomInv, PerWorker, Set

\* The keyed pass is asked for what is spare and for one job at least: it adds
\* keyed jobs only, and at most one beyond the room.
LEMMA RoomFetchSecond ==
    ASSUME RoomInv, NEW w \in Worker, NEW L \in SUBSET Job, FetchSecond(w, L)
    PROVE  RoomInv'
<1> DEFINE M == {l \in L : state'[l] = "running"}
           F == JobsOf(fetched[w])
           new == {<<j, attempt'[j]>> : j \in M}
<1>1. /\ M \subseteq L /\ M \subseteq Job /\ Unkeyed(M) = {}
      /\ Cardinality(M) \in Nat /\ Cardinality(M) <= Spare(w)
  <2>1. Unkeyed(M) = {}
    BY Zenon DEF FetchSecond, FetchKeyedCommit, Lockable, Unkeyed
  <2>2. /\ Cardinality(M) \in Nat /\ Cardinality(M) <= Cardinality(L)
        /\ Cardinality(L) \in Nat /\ Cardinality(L) <= Spare(w)
    BY Part, Zenon DEF FetchSecond
  <2>3. Spare(w) \in Int
    BY Named DEF Spare, RoomInv, Room
  <2> QED BY <2>1, <2>2, <2>3
<1>2. IsFiniteSet(new) /\ JobsOf(new) = M
  <2> DEFINE a == attempt'
  <2> HIDE DEF a, M
  <2>1. IsFiniteSet({<<j, a[j]>> : j \in M}) /\ JobsOf({<<j, a[j]>> : j \in M}) = M
    BY <1>1, Pairs, Zenon
  <2> QED BY <2>1, Zenon DEF a
<1>3. /\ fetched'[w] = fetched[w] \cup new /\ fetch'[w] = "got" /\ fetch[w] = "admit"
      /\ UNCHANGED <<inflight, limit>> /\ PerWorker'
  BY Zenon DEF FetchSecond, RoomInv, PerWorker, Set
<1> HIDE DEF M, new
<1>4. /\ IsFiniteSet(fetched'[w])
      /\ JobsOf(fetched[w])' = F \cup M
  <2>1. IsFiniteSet(fetched[w] \cup new)
    BY <1>2, FS_Union, Zenon DEF RoomInv, Room
  <2>2. JobsOf(fetched[w] \cup new) = JobsOf(fetched[w]) \cup JobsOf(new)
    BY Zenon DEF JobsOf
  <2> QED BY <1>2, <1>3, <2>1, <2>2, Zenon DEF JobsOf
<1>5. /\ F \subseteq Job /\ Cardinality(F) \in Nat /\ Cardinality(F) <= limit[w]
      /\ Cardinality(F) <= Cardinality(fetched[w]) /\ Cardinality(fetched[w]) \in Nat
      /\ limit[w] \in Nat
  BY <1>3, Named, Part, Zenon DEF RoomInv, Room
<1>6. Cardinality(F \cup M) <= limit[w] + 1
  <2>1. /\ Cardinality(F \cup M) <= Cardinality(F) + Cardinality(M)
        /\ Cardinality(F \cup M) \in Nat
    BY <1>1, <1>5, Joined, Part, Zenon
  <2>2. CASE limit[w] > Cardinality(fetched[w])
    BY <1>1, <1>5, <2>1, <2>2 DEF Spare
  <2>3. CASE ~(limit[w] > Cardinality(fetched[w]))
    BY <1>1, <1>5, <2>1, <2>3 DEF Spare
  <2> QED BY <2>2, <2>3, Zenon
<1>7. Unkeyed(JobsOf(fetched[w]))' = Unkeyed(F)
  BY <1>1, <1>4, Zenon DEF Unkeyed
<1>8. Room(w)'
  BY <1>1, <1>3, <1>4, <1>5, <1>6, <1>7, Zenon DEF RoomInv, Room, Unkeyed
<1> QED BY <1>3, <1>8, OneDispatches, Zenon DEF FetchSecond, RoomInv, PerWorker, Set

\* A job that cannot be encoded leaves the list.
LEMMA RoomDiscard ==
    ASSUME RoomInv, NEW w \in Worker, NEW x \in fetched[w], DispatchDiscard(w, x)
    PROVE  RoomInv'
<1>1. /\ fetched'[w] = fetched[w] \ {x} /\ fetch[w] = "got"
      /\ UNCHANGED <<inflight, limit, fetch>> /\ PerWorker'
  BY Zenon DEF DispatchDiscard, RoomInv, PerWorker, Set
<1> DEFINE F == JobsOf(fetched[w])
           G == JobsOf(fetched[w] \ {x})
<1>2. G \subseteq F /\ F \subseteq Job /\ Unkeyed(G) \subseteq Unkeyed(F) /\ Unkeyed(F) \subseteq Job
  BY Zenon DEF JobsOf, Unkeyed, RoomInv, Room
<1>3. IsFiniteSet(fetched'[w])
  <2>1. IsFiniteSet(fetched[w])
    BY Zenon DEF RoomInv, Room
  <2> QED BY <1>1, <2>1, FS_Difference, Zenon
<1>4. JobsOf(fetched[w])' = G /\ Unkeyed(JobsOf(fetched[w]))' = Unkeyed(G)
  BY <1>1, Zenon DEF JobsOf, Unkeyed
<1>5. /\ Cardinality(G) <= Cardinality(F) /\ Cardinality(G) \in Nat /\ Cardinality(F) \in Nat
      /\ Cardinality(Unkeyed(G)) <= Cardinality(Unkeyed(F))
      /\ Cardinality(Unkeyed(G)) \in Nat /\ Cardinality(Unkeyed(F)) \in Nat
  BY <1>2, Part, Zenon
<1>6. Room(w)'
  <2> HIDE DEF F, G
  <2>1. /\ Cardinality(F) <= limit[w] + 1 /\ Cardinality(Unkeyed(F)) <= limit[w]
        /\ limit[w] \in Nat
    BY <1>1, Zenon DEF RoomInv, Room, F
  <2>2. /\ Cardinality(G) <= limit[w] + 1 /\ Cardinality(Unkeyed(G)) <= limit[w]
    BY <1>5, <2>1
  <2> QED BY <1>1, <1>2, <1>3, <1>4, <2>2, Zenon DEF RoomInv, Room, Unkeyed
<1> QED BY <1>1, <1>6, OneDispatches, Zenon DEF DispatchDiscard, RoomInv, PerWorker, Set

\* reserve(): what was fetched fills the room that is still there.
LEMMA RoomDispatch ==
    ASSUME RoomInv, NEW w \in Worker, Dispatch(w)
    PROVE  RoomInv'
<1> DEFINE F == JobsOf(fetched[w])
           I == inflight[w]
<1>1. /\ inflight'[w] = I \cup F /\ fetched'[w] = {} /\ fetch'[w] = "idle"
      /\ fetch[w] = "got" /\ limit' = limit /\ PerWorker'
  BY Zenon DEF Dispatch, RoomInv, PerWorker, Set
<1>2. /\ I \subseteq Job /\ F \subseteq Job /\ limit[w] \in Nat
      /\ Cardinality(I) + limit[w] <= Concurrency
      /\ Cardinality(F) <= limit[w] + 1 /\ Cardinality(Unkeyed(F)) <= limit[w]
  BY <1>1, Zenon DEF RoomInv, Room
<1> HIDE DEF F, I
<1>3. /\ Cardinality(I) \in Nat /\ Cardinality(F) \in Nat /\ Cardinality(I \cup F) \in Nat
      /\ Cardinality(I \cup F) <= Cardinality(I) + Cardinality(F) /\ Concurrency \in Nat
  BY <1>2, Part, Joined, WorkerConfig, Zenon
<1>4. /\ Unkeyed(I \cup F) = Unkeyed(I) \cup Unkeyed(F)
      /\ Unkeyed(I) \subseteq I /\ Unkeyed(F) \subseteq F
  BY Zenon DEF Unkeyed
<1>5. /\ Cardinality(Unkeyed(I)) \in Nat /\ Cardinality(Unkeyed(F)) \in Nat
      /\ Cardinality(Unkeyed(I)) <= Cardinality(I)
      /\ Cardinality(Unkeyed(I) \cup Unkeyed(F)) \in Nat
      /\ Cardinality(Unkeyed(I) \cup Unkeyed(F)) <= Cardinality(Unkeyed(I)) + Cardinality(Unkeyed(F))
  <2>1. Unkeyed(I) \in SUBSET Job /\ Unkeyed(F) \in SUBSET Job
    BY <1>2, <1>4, Zenon
  <2> QED BY <1>2, <1>4, <2>1, Part, Joined, Zenon
<1>6. /\ Cardinality(I \cup F) <= Concurrency + 1
      /\ Cardinality(Unkeyed(I \cup F)) <= Concurrency
  <2>1. Cardinality(I \cup F) <= Concurrency + 1
    BY <1>2, <1>3
  <2>2. Cardinality(Unkeyed(I) \cup Unkeyed(F)) <= Concurrency
    BY <1>2, <1>3, <1>5
  <2> QED BY <1>4, <2>1, <2>2, Zenon
<1>7. Unkeyed(inflight[w])' = Unkeyed(I \cup F)
  BY <1>1, Zenon DEF Unkeyed
<1>8. IsFiniteSet(fetched'[w]) /\ JobsOf(fetched[w])' = {}
  BY <1>1, FS_EmptySet, Zenon DEF JobsOf
<1>9. Room(w)'
  BY <1>1, <1>2, <1>6, <1>7, <1>8, Zenon DEF Room
<1> QED BY <1>1, <1>9, OneDispatches, Zenon DEF Dispatch, RoomInv, PerWorker, Set

\* A process that is lost has nothing in flight and nothing fetched.
LEMMA RoomKilled ==
    ASSUME RoomInv, NEW p, Killed(p)
    PROVE  RoomInv'
<1> DEFINE gone == {w \in Worker : Process[w] = p}
<1>1. /\ inflight' = [w \in Worker |-> IF w \in gone THEN {} ELSE inflight[w]]
      /\ fetched' = [w \in Worker |-> IF w \in gone THEN {} ELSE fetched[w]]
      /\ fetch' = [w \in Worker |-> IF w \in gone THEN "idle" ELSE fetch[w]]
      /\ limit' = limit
  BY Zenon DEF Killed
<1> HIDE DEF gone
<1>2. PerWorker'
  BY <1>1, Zenon DEF RoomInv, PerWorker
<1>3. ASSUME NEW w \in Worker PROVE Room(w)'
  <2>1. CASE w \in gone
    <3>1. inflight'[w] = {} /\ fetched'[w] = {} /\ fetch'[w] = "idle"
      BY <1>1, <2>1, Zenon
    <3>2. /\ IsFiniteSet(fetched'[w]) /\ JobsOf(fetched[w])' = {}
          /\ Unkeyed(inflight[w])' = {} /\ Cardinality({}) = 0
      BY <3>1, FS_EmptySet, Zenon DEF JobsOf, Unkeyed
    <3>3. limit'[w] \in Nat /\ 0 <= Concurrency /\ 0 <= Concurrency + 1
      <4>1. Room(w) /\ limit'[w] = limit[w]
        BY <1>1, Zenon DEF RoomInv
      <4>2. 0 <= Concurrency /\ 0 <= Concurrency + 1
        BY WorkerConfig
      <4> QED BY <4>1, <4>2, Zenon DEF Room
    <3> QED BY <3>1, <3>2, <3>3, Zenon DEF Room
  <2>2. CASE w \notin gone
    <3>1. /\ inflight'[w] = inflight[w] /\ fetched'[w] = fetched[w] /\ fetch'[w] = fetch[w]
          /\ limit'[w] = limit[w]
      BY <1>1, <2>2, Zenon
    <3> QED BY <3>1, Zenon DEF RoomInv, Room, JobsOf, Unkeyed
  <2> QED BY <2>1, <2>2, Zenon
<1> QED BY <1>2, <1>3, Zenon DEF RoomInv

\* No worker begins with anything in flight or fetched.
LEMMA RoomStart == WorkerInit => RoomInv
<1> SUFFICES ASSUME WorkerInit PROVE RoomInv
  BY Zenon
<1>1. PerWorker
  BY Zenon DEF WorkerInit, PerWorker, Empty
<1>2. ASSUME NEW w \in Worker PROVE Room(w)
  <2>1. inflight[w] = {} /\ fetched[w] = {} /\ fetch[w] = "idle" /\ limit[w] = 0
    BY Zenon DEF WorkerInit, Empty
  <2>2. /\ IsFiniteSet(fetched[w]) /\ JobsOf(fetched[w]) = {}
        /\ Unkeyed(inflight[w]) = {} /\ Cardinality({}) = 0
    BY <2>1, FS_EmptySet, Zenon DEF JobsOf, Unkeyed
  <2>3. 0 \in Nat /\ 0 <= Concurrency /\ 0 <= Concurrency + 1
    BY WorkerConfig
  <2> QED BY <2>1, <2>2, <2>3, Zenon DEF Room
<1> QED BY <1>1, <1>2, Zenon DEF RoomInv

\* The steps of dispatch and of fetch() keep the room.
LEMMA RoomDispatching ==
    ASSUME RoomInv, NEW w \in Worker, Dispatching(w)
    PROVE  RoomInv'
<1>1. CASE FetchLock(w)
  <2>1. /\ UNCHANGED <<inflight, fetched, limit>> /\ PerWorker'
        /\ fetch[w] = "keyed" /\ fetch'[w] = "admit"
    BY <1>1, Zenon DEF FetchLock, RoomInv, PerWorker, Set
  <2>2. Room(w)'
    BY <2>1, Zenon DEF RoomInv, Room, JobsOf, Unkeyed
  <2> QED BY <1>1, <2>1, <2>2, OneDispatches, Zenon DEF FetchLock, RoomInv, PerWorker, Set
<1>2. CASE FetchFails(w)
  BY <1>2, FetchDropped, Zenon DEF FetchFails
<1>3. CASE Dispatch(w)
  BY <1>3, RoomDispatch, Zenon
<1>4. ASSUME NEW S \in SUBSET Job, FetchFirst(w, S) \/ FetchSecond(w, S) PROVE RoomInv'
  BY <1>4, RoomFetchFirst, RoomFetchSecond, Zenon
<1>5. ASSUME NEW S \in SUBSET Job, FetchLost(w, S) PROVE RoomInv'
  BY <1>5, FetchDropped, Zenon DEF FetchLost
<1>6. ASSUME NEW x \in fetched[w], DispatchDiscard(w, x) PROVE RoomInv'
  BY <1>6, RoomDiscard, Zenon
<1> QED BY <1>1, <1>2, <1>3, <1>4, <1>5, <1>6, Zenon DEF Dispatching

\* The child and the collector only take ids out of flight.
LEMMA RoomCollecting ==
    ASSUME RoomInv, NEW w \in Worker, Collecting(w)
    PROVE  RoomInv'
<1>1. UNCHANGED dispatcher
  BY Zenon DEF Collecting, Finish, ThreadEnds, FlushBegin, Release, FlushStatement
<1>2. \/ UNCHANGED inflight
      \/ inflight' = [inflight EXCEPT ![w] = inflight[w] \ settling[w]]
  BY Zenon DEF Collecting, Finish, ThreadEnds, FlushBegin, Release, FlushStatement, Set
<1>3. DOMAIN inflight' = Worker /\ \A v \in Worker : inflight'[v] \subseteq inflight[v]
  BY <1>2, Zenon DEF RoomInv, PerWorker
<1> QED BY <1>1, <1>3, OnlyReleases, Zenon

\* So does the supervisor, which drops an unfinished fetch with its session.
LEMMA RoomSupervising ==
    ASSUME RoomInv, NEW w \in Worker, Supervising(w)
    PROVE  RoomInv'
<1>1. CASE SessionFails(w)
  BY <1>1, FetchDropped, Zenon DEF SessionFails
<1>2. CASE ~SessionFails(w)
  <2>1. UNCHANGED dispatcher
    BY <1>2, Zenon DEF Supervising, Connect, SpawnFails, DrainBegin, DrainEnds, Kill, SessionStops,
                SessionErrs, HandBackAbandon, HandBackEnds, HandBackScan, local, Restart, GiveUp
  <2>2. UNCHANGED inflight \/ inflight' = [inflight EXCEPT ![w] = {}]
    BY <1>2, Zenon DEF Supervising, Connect, SpawnFails, DrainBegin, DrainEnds, Kill, SessionStops,
                SessionErrs, HandBackAbandon, HandBackEnds, HandBackScan, local, Restart, GiveUp,
                Set
  <2>3. DOMAIN inflight' = Worker /\ \A v \in Worker : inflight'[v] \subseteq inflight[v]
    BY <2>2, Zenon DEF RoomInv, PerWorker
  <2> QED BY <2>1, <2>3, OnlyReleases, Zenon
<1> QED BY <1>1, <1>2, Zenon

\* Every step of every task keeps the room of every worker.
LEMMA RoomStep == RoomInv /\ [WorkerNext]_allvars => RoomInv'
<1> SUFFICES ASSUME RoomInv, [WorkerNext]_allvars PROVE RoomInv'
  BY Zenon
<1>1. ASSUME UNCHANGED <<dispatcher, inflight>> PROVE RoomInv'
  BY <1>1, OnlyReleases, Zenon DEF RoomInv, PerWorker
<1>2. ASSUME NEW j \in Job, Arrives(j) \/ Lapses(j) PROVE RoomInv'
  BY <1>1, <1>2, Zenon DEF Arrives, Lapses, local
<1>3. ASSUME NEW w \in Worker, RenewSnapshot(w) \/ RenewApply(w) PROVE RoomInv'
  BY <1>1, <1>3 DEF RenewSnapshot, RenewApply
<1>4. ASSUME NEW w \in Worker, Dispatching(w) \/ Collecting(w) \/ Supervising(w) PROVE RoomInv'
  BY <1>4, RoomDispatching, RoomCollecting, RoomSupervising, Zenon
<1>5. CASE Recovering
  BY <1>1, <1>5, Zenon DEF Recovering, RecoverApply, RecoverFails, RecoverScan, local
<1>6. ASSUME NEW p \in Stoppable, Shutdown(p) \/ Killed(p) PROVE RoomInv'
  BY <1>1, <1>6, RoomKilled, Zenon DEF Shutdown
<1>7. CASE UNCHANGED allvars
  BY <1>1, <1>7, Zenon DEF allvars, local
<1> QED BY <1>2, <1>3, <1>4, <1>5, <1>6, <1>7, Zenon DEF WorkerNext

-----------------------------------------------------------------------------
\* The concurrency of a child is exceeded by one keyed job at most, whichever
\* statements, children and processes fail (InFlight, dispatch, fetch).
THEOREM BackPressure == WorkerSpec => []InflightBound
<1>1. RoomInv => InflightBound
  BY Zenon DEF RoomInv, Room, InflightBound, Unkeyed
<1> QED BY <1>1, RoomStart, RoomStep, PTL DEF WorkerSpec

-----------------------------------------------------------------------------
\* Job j is run by w under a lease that has not run out.
Leased(w, j) == j \in Held(w) /\ lease[j] = "live"

\* The pair x is about a job whose lease ran out: others may have it as well.
Gone(x) == x[1] \in lapsed

\* What w has been given and has not settled is leased to it, in the attempt it
\* was given, and it is in one place only: fetched, executing, reported or in
\* the flush, there with one outcome.
Sole(w) ==
    /\ \A x \in fetched[w] \cup child[w] :
           Gone(x) \/ (Leased(w, x[1]) /\ x = <<x[1], attempt[x[1]]>>)
    /\ \A y \in reported[w] \cup flushing[w] : Gone(y) \/ Leased(w, y[1])
    /\ \A x \in fetched[w], y \in child[w] : x[1] = y[1] => Gone(x)
    /\ \A x \in fetched[w] \cup child[w], y \in reported[w] \cup flushing[w] :
           x[1] = y[1] => Gone(x)
    /\ \A y, z \in reported[w] \cup flushing[w] : y[1] = z[1] => y = z \/ Gone(y)
    /\ \A y \in reported[w], z \in flushing[w] : y[1] = z[1] => Gone(y)

\* Only a session that serves fetches, and outside a session there is no child,
\* no report and no flush.
Outside == {"starting", "abandoning", "reclaiming", "backoff", "stopped"}
Tasks(w) ==
    /\ fetch[w] = "idle" => fetched[w] = {}
    /\ phase[w] # "serving" => fetch[w] = "idle"
    /\ \A y \in flushing[w] : y[1] \in settling[w]
    /\ phase[w] \in Outside => child[w] = {} /\ reported[w] = {} /\ settling[w] = {}

Shape ==
    /\ DOMAIN state = Job /\ DOMAIN lease = Job
    /\ DOMAIN phase = Worker /\ DOMAIN fetch = Worker /\ DOMAIN fetched = Worker
    /\ DOMAIN child = Worker /\ DOMAIN reported = Worker /\ DOMAIN flushing = Worker
    /\ DOMAIN settling = Worker

SoleInv == Shape /\ \A w \in Worker : Tasks(w) /\ Sole(w)

\* A step leaves what the row of j says of its run alone.
RowKept(j) ==
    /\ state'[j] = state[j] /\ locked_by'[j] = locked_by[j]
    /\ lease'[j] = lease[j] /\ attempt'[j] = attempt[j]

-----------------------------------------------------------------------------
\* A worker that has no more than before, and whose jobs' rows are as before,
\* has them alone.
LEMMA SoleLess ==
    ASSUME NEW w \in Worker, Sole(w), lapsed \subseteq lapsed',
           fetched'[w] \subseteq fetched[w], child'[w] \subseteq child[w],
           reported'[w] \subseteq reported[w], flushing'[w] \subseteq flushing[w],
           \A x \in fetched'[w] \cup child'[w] \cup reported'[w] \cup flushing'[w] :
               x[1] \notin lapsed' /\ Leased(w, x[1]) => RowKept(x[1])
    PROVE  Sole(w)'
<1>1. \A x \in fetched'[w] \cup child'[w] :
         Gone(x)' \/ (Leased(w, x[1])' /\ x = <<x[1], attempt'[x[1]]>>)
  BY Zenon DEF Sole, Gone, Leased, Held, RowKept
<1>2. \A y \in reported'[w] \cup flushing'[w] : Gone(y)' \/ Leased(w, y[1])'
  BY Zenon DEF Sole, Gone, Leased, Held, RowKept
<1>3. \A x \in fetched'[w], y \in child'[w] : x[1] = y[1] => Gone(x)'
  BY Zenon DEF Sole, Gone
<1>4. \A x \in fetched'[w] \cup child'[w], y \in reported'[w] \cup flushing'[w] :
         x[1] = y[1] => Gone(x)'
  BY Zenon DEF Sole, Gone
<1>5. \A y, z \in reported'[w] \cup flushing'[w] : y[1] = z[1] => y = z \/ Gone(y)'
  BY Zenon DEF Sole, Gone
<1>6. \A y \in reported'[w], z \in flushing'[w] : y[1] = z[1] => Gone(y)'
  BY Zenon DEF Sole, Gone
<1> QED BY <1>1, <1>2, <1>3, <1>4, <1>5, <1>6, Zenon DEF Sole, Gone, Leased, Held

\* A step that gives nobody anything.
LEMMA NobodyGets ==
    ASSUME SoleInv, Shape', lapsed \subseteq lapsed',
           \A w \in Worker :
               /\ Tasks(w)'
               /\ fetched'[w] \subseteq fetched[w] /\ child'[w] \subseteq child[w]
               /\ reported'[w] \subseteq reported[w] /\ flushing'[w] \subseteq flushing[w]
               /\ \A x \in fetched'[w] \cup child'[w] \cup reported'[w] \cup flushing'[w] :
                      x[1] \notin lapsed' /\ Leased(w, x[1]) => RowKept(x[1])
    PROVE  SoleInv'
BY SoleLess, Zenon DEF SoleInv

\* A step that gives w something and leaves the others what they have.
LEMMA OneGets ==
    ASSUME SoleInv, Shape', NEW w \in Worker, Tasks(w)', Sole(w)', lapsed' = lapsed,
           \A v \in Worker \ {w} :
               /\ phase'[v] = phase[v] /\ fetch'[v] = fetch[v] /\ settling'[v] = settling[v]
               /\ fetched'[v] = fetched[v] /\ child'[v] = child[v]
               /\ reported'[v] = reported[v] /\ flushing'[v] = flushing[v],
           \A j \in Job : state[j] = "running" => RowKept(j)
    PROVE  SoleInv'
<1>1. ASSUME NEW v \in Worker \ {w} PROVE Tasks(v)' /\ Sole(v)'
  <2>1. Tasks(v)'
    BY Zenon DEF SoleInv, Tasks
  <2>2. \A x : Leased(v, x[1]) => RowKept(x[1])
    BY Zenon DEF Leased, Held
  <2> QED BY <2>1, <2>2, SoleLess, Zenon DEF SoleInv
<1> QED BY <1>1, Zenon DEF SoleInv

-----------------------------------------------------------------------------
\* The UPDATE of both fetches takes waiting rows and makes them running.
LEMMA LeaseTakes ==
    ASSUME NEW w \in Worker, NEW S \in SUBSET Job, \A j \in S : state[j] = "available", Lease(w, S)
    PROVE  /\ DOMAIN state' = Job /\ DOMAIN lease' = Job
           /\ \A j \in Job : state[j] = "running" => RowKept(j)
           /\ \A j \in S : Leased(w, j)'
           /\ \A j \in Job \ S : state'[j] = state[j]
BY Zenon DEF Lease, Assign, RowKept, Leased, Held

\* The statements that settle rows leave other running rows alone.
LEMMA SettleKeeps ==
    ASSUME NEW w \in Worker, NEW S \in SUBSET Job,
           Complete(w, S) \/ DiscardMany(w, S) \/ RetryMany(w, S)
    PROVE  /\ DOMAIN state' = Job /\ DOMAIN lease' = Job
           /\ \A j \in Job \ S : state[j] = "running" => RowKept(j)
<1>1. CASE Complete(w, S)
  BY <1>1, Zenon DEF Complete, Assign, RowKept
<1>2. CASE DiscardMany(w, S)
  BY <1>2, Zenon DEF DiscardMany, Assign, RowKept
<1>3. CASE RetryMany(w, S)
  BY <1>3, Zenon DEF RetryMany, Assign, RowKept
<1> QED BY <1>1, <1>2, <1>3, Zenon

-----------------------------------------------------------------------------
\* fetch(): a row it leases was waiting, so no task has it under a live lease.
LEMMA SoleFetch ==
    ASSUME NEW w \in Worker, NEW A \in SUBSET Job, Sole(w),
           \A j \in A : state[j] = "available" /\ Leased(w, j)',
           \A j \in Job : state[j] = "running" => RowKept(j),
           fetched'[w] = fetched[w] \cup {<<j, attempt'[j]>> : j \in A},
           UNCHANGED <<child, reported, flushing, lapsed>>
    PROVE  Sole(w)'
<1> DEFINE New == {<<j, attempt'[j]>> : j \in A}
<1>1. \A x \in New : Leased(w, x[1])' /\ x = <<x[1], attempt'[x[1]]>> /\ x[1] \in A
  OBVIOUS
<1>2. fetched'[w] = fetched[w] \cup New
  BY Zenon
<1> HIDE DEF New
<1>3. \A x \in fetched[w] \cup child[w] :
         Gone(x) \/ (Leased(w, x[1])' /\ x = <<x[1], attempt'[x[1]]>>)
  BY DEF Sole, Leased, Held, RowKept
<1>4. \A y \in reported[w] \cup flushing[w] : Gone(y) \/ Leased(w, y[1])'
  BY DEF Sole, Leased, Held, RowKept
<1>5. \A y \in child[w] \cup reported[w] \cup flushing[w] : y[1] \in A => Gone(y)
  BY Zenon DEF Sole, Leased, Held
<1> QED BY <1>1, <1>2, <1>3, <1>4, <1>5 DEF Sole, Gone, Leased, Held

\* Both passes of fetch() at once: only the dispatcher of w moves.
LEMMA SoleFetching ==
    ASSUME SoleInv, NEW w \in Worker, NEW S \in SUBSET Job, FetchFirst(w, S) \/ FetchSecond(w, S)
    PROVE  SoleInv'
<1>1. PICK A \in SUBSET S :
         /\ \A j \in A : state[j] = "available" /\ Leased(w, j)'
         /\ \A j \in Job : state[j] = "running" => RowKept(j)
         /\ DOMAIN state' = Job /\ DOMAIN lease' = Job
         /\ fetched' = Set(fetched, w, fetched[w] \cup {<<j, attempt'[j]>> : j \in A})
  <2>1. CASE FetchFirst(w, S)
    <3>1. fetched[w] \cup {<<j, attempt'[j]>> : j \in S} = {<<j, attempt'[j]>> : j \in S}
      BY <2>1, Zenon DEF FetchFirst, SoleInv, Tasks
    <3>2. fetched' = Set(fetched, w, fetched[w] \cup {<<j, attempt'[j]>> : j \in S})
      BY <2>1, <3>1, Zenon DEF FetchFirst
    <3>3. CASE S = {}
      BY <2>1, <3>2, <3>3, Zenon DEF FetchFirst, jobs, rows, RowKept, SoleInv, Shape
    <3>4. CASE S # {}
      <4>1. Lease(w, S) /\ \A j \in S : state[j] = "available"
        BY <2>1, <3>4, Zenon DEF FetchFirst, FetchUnkeyed, Eligible
      <4> QED BY <3>2, <4>1, LeaseTakes, Zenon
    <3> QED BY <3>3, <3>4, Zenon
  <2>2. CASE FetchSecond(w, S)
    <3>1. /\ S \subseteq Eligible
          /\ \E n : Lease(w, Admitted(w, S, n))
      BY <2>2, Zenon DEF FetchSecond, FetchKeyedCommit, Lockable
    <3>2. PICK n : Lease(w, Admitted(w, S, n))
      BY <3>1, Zenon
    <3> DEFINE A == Admitted(w, S, n)
    <3>3. A \subseteq S /\ \A j \in S : state[j] = "available"
      BY <3>1, Zenon DEF Admitted, Eligible
    <3> HIDE DEF A
    <3>4. /\ DOMAIN state' = Job /\ DOMAIN lease' = Job
          /\ \A j \in Job : state[j] = "running" => RowKept(j)
          /\ \A j \in A : Leased(w, j)'
          /\ \A j \in Job \ A : state'[j] = state[j]
      BY <3>2, <3>3, LeaseTakes, Zenon DEF A
    <3>5. {l \in S : state'[l] = "running"} = A
      BY <3>3, <3>4, Zenon DEF Leased, Held
    <3>6. fetched' = Set(fetched, w, fetched[w] \cup {<<j, attempt'[j]>> : j \in A})
      BY <2>2, <3>5, Zenon DEF FetchSecond
    <3> QED BY <3>3, <3>4, <3>6, Zenon
  <2> QED BY <2>1, <2>2, Zenon
<1>2. /\ UNCHANGED <<phase, child, reported, flushing, settling, lapsed>>
      /\ phase[w] = "serving" /\ (fetch' = Set(fetch, w, fetch'[w]) /\ fetch'[w] # "idle")
  BY Zenon DEF FetchFirst, FetchSecond, session, collector, SoleInv, Shape, Tasks, Set
<1>3. /\ Shape' /\ fetched'[w] = fetched[w] \cup {<<j, attempt'[j]>> : j \in A}
      /\ \A v \in Worker \ {w} : fetched'[v] = fetched[v] /\ fetch'[v] = fetch[v]
  BY <1>1, <1>2, Zenon DEF SoleInv, Shape, Set
<1>4. Tasks(w)'
  BY <1>2, Zenon DEF SoleInv, Tasks, Outside
<1>5. Sole(w)'
  BY <1>1, <1>2, <1>3, SoleFetch, Zenon DEF SoleInv
<1> QED BY <1>1, <1>2, <1>3, <1>4, <1>5, OneGets, Zenon

\* dispatch writes to the child what it has fetched.
LEMMA SoleDispatch ==
    ASSUME SoleInv, NEW w \in Worker, Dispatch(w)
    PROVE  SoleInv'
<1>1. /\ UNCHANGED <<jobs, phase, reported, flushing, settling, lapsed>>
      /\ child'[w] = child[w] \cup fetched[w] /\ fetched'[w] = {} /\ fetch'[w] = "idle"
      /\ phase[w] = "serving" /\ Shape'
      /\ \A v \in Worker \ {w} :
             fetched'[v] = fetched[v] /\ fetch'[v] = fetch[v] /\ child'[v] = child[v]
  BY Zenon DEF Dispatch, session, collector, SoleInv, Shape, Tasks, Set, jobs, rows
<1>2. UNCHANGED <<state, locked_by, lease, attempt>>
  BY <1>1, Zenon DEF jobs, rows
<1>3. Tasks(w)'
  BY <1>1, Zenon DEF SoleInv, Tasks, Outside
<1>4. Sole(w)'
  BY <1>1, <1>2 DEF SoleInv, Sole, Gone, Leased, Held
<1> QED BY <1>1, <1>2, <1>3, <1>4, OneGets, Zenon DEF RowKept

\* An execution that ends is one no more: its report takes its place, or nothing.
LEMMA SoleFinish ==
    ASSUME SoleInv, NEW w \in Worker, NEW x \in child[w], NEW o, Finish(w, x, o)
    PROVE  SoleInv'
<1>1. /\ UNCHANGED <<jobs, phase, fetch, fetched, flushing, settling, lapsed>>
      /\ child'[w] = child[w] \ {x} /\ reported'[w] \subseteq reported[w] \cup {<<x[1], o>>}
      /\ Shape'
      /\ \A v \in Worker \ {w} : child'[v] = child[v] /\ reported'[v] = reported[v]
  BY Zenon DEF Finish, session, dispatcher, SoleInv, Shape, Set, jobs, rows
<1>2. UNCHANGED <<state, locked_by, lease, attempt>>
  BY <1>1, Zenon DEF jobs, rows
<1>3. Tasks(w)'
  BY <1>1, Zenon DEF SoleInv, Tasks, Outside
<1>4. Sole(w)'
  <2> DEFINE y == <<x[1], o>>
  <2>1. y[1] = x[1] /\ (Gone(x) \/ (Leased(w, x[1]) /\ x = <<x[1], attempt[x[1]]>>))
    BY Zenon DEF SoleInv, Sole
  <2> HIDE DEF y
  <2>2. /\ \A z \in fetched[w] \cup (child[w] \ {x}) : z[1] = x[1] => Gone(x)
        /\ \A z \in reported[w] \cup flushing[w] : z[1] = x[1] => Gone(x)
    BY <2>1, Zenon DEF SoleInv, Sole, Gone
  <2>3. reported'[w] \subseteq reported[w] \cup {y}
    BY <1>1, Zenon DEF y
  <2> QED BY <1>1, <1>2, <2>1, <2>2, <2>3 DEF SoleInv, Sole, Gone, Leased, Held
<1> QED BY <1>1, <1>2, <1>3, <1>4, OneGets, Zenon DEF RowKept

\* flush takes all reports at once, when the flush before it is over.
LEMMA SoleFlushBegin ==
    ASSUME SoleInv, NEW w \in Worker, FlushBegin(w)
    PROVE  SoleInv'
<1>1. /\ UNCHANGED <<jobs, phase, fetch, fetched, child, lapsed>>
      /\ flushing'[w] = reported[w] /\ reported'[w] = {} /\ settling'[w] = JobsOf(reported[w])
      /\ reported[w] # {} /\ flushing[w] = {} /\ Shape'
      /\ \A v \in Worker \ {w} : /\ flushing'[v] = flushing[v] /\ reported'[v] = reported[v]
                                 /\ settling'[v] = settling[v]
  BY Zenon DEF FlushBegin, session, dispatcher, SoleInv, Shape, Tasks, Set, jobs, rows
<1>2. UNCHANGED <<state, locked_by, lease, attempt>>
  BY <1>1, Zenon DEF jobs, rows
<1>3. Tasks(w)'
  BY <1>1, Zenon DEF SoleInv, Tasks, Outside, JobsOf
<1>4. Sole(w)'
  BY <1>1, <1>2 DEF SoleInv, Sole, Gone, Leased, Held
<1> QED BY <1>1, <1>2, <1>3, <1>4, OneGets, Zenon DEF RowKept

-----------------------------------------------------------------------------
\* A step that moves no task keeps the tasks, when it leaves every row that runs
\* under a live lease alone, or notes that it did not.
LEMMA SoleStill ==
    ASSUME SoleInv, lapsed \subseteq lapsed', DOMAIN state' = Job, DOMAIN lease' = Job,
           UNCHANGED <<phase, fetch, fetched, child, reported, flushing, settling>>,
           \A j \in Job \ lapsed' : state[j] = "running" /\ lease[j] = "live" => RowKept(j)
    PROVE  SoleInv'
<1>1. Shape' /\ \A w \in Worker : Tasks(w)'
  BY Zenon DEF SoleInv, Shape, Tasks
<1>2. \A w, j : j \notin lapsed' /\ Leased(w, j) => RowKept(j)
  BY Zenon DEF Leased, Held
<1> QED BY <1>1, <1>2, NobodyGets, Zenon

\* A step that takes from w, and whose statement settles nothing that w keeps and
\* no row of another worker.
LEMMA SoleTakes ==
    ASSUME SoleInv, NEW w \in Worker, Shape', Tasks(w)', lapsed' = lapsed,
           fetched'[w] \subseteq fetched[w], child'[w] \subseteq child[w],
           reported'[w] \subseteq reported[w], flushing'[w] \subseteq flushing[w],
           \A v \in Worker \ {w} :
               /\ phase'[v] = phase[v] /\ fetch'[v] = fetch[v] /\ settling'[v] = settling[v]
               /\ fetched'[v] = fetched[v] /\ child'[v] = child[v]
               /\ reported'[v] = reported[v] /\ flushing'[v] = flushing[v],
           \A x \in fetched'[w] \cup child'[w] \cup reported'[w] \cup flushing'[w] :
               x[1] \notin lapsed /\ Leased(w, x[1]) => RowKept(x[1]),
           \A j \in Job : state[j] = "running" /\ locked_by[j] # w => RowKept(j)
    PROVE  SoleInv'
<1>1. \A v \in Worker \ {w} : Tasks(v)' /\ \A j : Leased(v, j) => RowKept(j)
  BY DEF SoleInv, Tasks, Leased, Held
<1> QED BY <1>1, NobodyGets, Zenon

\* The sweep takes a running row from its worker: what it takes live, it notes.
LEMMA SweepNotes ==
    ASSUME SoleInv, NEW s, ReclaimApply(s), lapsed' = lapsed \cup TakenLive(s)
    PROVE  /\ DOMAIN state' = Job /\ DOMAIN lease' = Job
           /\ \A j \in Job \ lapsed' : state[j] = "running" /\ lease[j] = "live" => RowKept(j)
BY Zenon DEF ReclaimApply, TakenLive, Assign, RowKept

\* The error paths of fetch() and the end of a session drop what was fetched; a
\* fetch whose reply is lost has leased rows nobody else has.
LEMMA SoleDrop ==
    ASSUME SoleInv, NEW w \in Worker,
           \/ FetchFails(w) \/ SessionFails(w)
           \/ \E S \in SUBSET Job : FetchLost(w, S)
    PROVE  SoleInv'
<1>1. /\ DOMAIN state' = Job /\ DOMAIN lease' = Job
      /\ \A j \in Job : state[j] = "running" => RowKept(j)
  <2>1. CASE FetchFails(w) \/ SessionFails(w)
    BY <2>1, Zenon DEF FetchFails, SessionFails, FetchKeyedAbort, jobs, rows, RowKept, SoleInv, Shape
  <2>2. ASSUME NEW S \in SUBSET Job, FetchLost(w, S)
        PROVE  \E A \in SUBSET Job : Lease(w, A) /\ \A j \in A : state[j] = "available"
    <3>1. CASE FetchUnkeyed(w, S)
      BY <3>1, Zenon DEF FetchUnkeyed, Eligible
    <3>2. CASE FetchKeyedCommit(w, S)
      BY <3>2, ZenonT(20) DEF FetchKeyedCommit, Lockable, Admitted, Eligible
    <3> QED BY <2>2, <3>1, <3>2, Zenon DEF FetchLost
  <2> QED BY <2>1, <2>2, LeaseTakes, Zenon
<1>2. /\ UNCHANGED <<child, reported, flushing, settling, lapsed>>
      /\ fetched' = Set(fetched, w, {}) /\ fetch' = Set(fetch, w, "idle")
      /\ phase' = phase \/ (phase' = Set(phase, w, "dead"))
      /\ phase[w] = "serving"
  BY Zenon DEF FetchFails, SessionFails, FetchLost, Goto, session, collector, SoleInv, Tasks
<1>3. Shape' /\ phase'[w] \in {"serving", "dead"}
  BY <1>1, <1>2, Zenon DEF SoleInv, Shape, Set
<1>4. Tasks(w)'
  BY <1>2, <1>3, Zenon DEF SoleInv, Shape, Tasks, Outside, Set
<1>5. \A x : Leased(w, x[1]) => RowKept(x[1])
  BY <1>1, Zenon DEF Leased, Held
<1> QED BY <1>1, <1>2, <1>3, <1>4, <1>5, SoleTakes, Zenon DEF SoleInv, Shape, Set

\* A job that cannot be encoded is settled as it leaves the list.
LEMMA SoleDiscard ==
    ASSUME SoleInv, NEW w \in Worker, NEW x \in fetched[w], DispatchDiscard(w, x)
    PROVE  SoleInv'
<1>1. /\ DOMAIN state' = Job /\ DOMAIN lease' = Job
      /\ \A j \in Job \ ({x[1]} \cap Held(w)) : state[j] = "running" => RowKept(j)
  <2>1. CASE UNCHANGED jobs
    BY <2>1, Zenon DEF jobs, rows, RowKept, SoleInv, Shape
  <2>2. CASE x[1] \in Held(w) /\ DiscardMany(w, {x[1]})
    <3>1. {x[1]} \in SUBSET Job
      BY <2>2, Zenon DEF Held
    <3> QED BY <2>2, <3>1, SettleKeeps, Zenon
  <2> QED BY <2>1, <2>2, Zenon DEF DispatchDiscard
<1>2. /\ UNCHANGED <<phase, fetch, child, reported, flushing, settling, lapsed>>
      /\ fetched'[w] = fetched[w] \ {x} /\ fetch[w] = "got" /\ Shape'
      /\ \A v \in Worker \ {w} : fetched'[v] = fetched[v]
  BY <1>1, Zenon DEF DispatchDiscard, session, collector, SoleInv, Shape, Set
<1>3. Tasks(w)'
  BY <1>2, Zenon DEF SoleInv, Tasks
<1>4. ASSUME NEW y \in (fetched[w] \ {x}) \cup child[w] \cup reported[w] \cup flushing[w],
             y[1] \notin lapsed, Leased(w, y[1])
      PROVE  RowKept(y[1])
  <2>1. y[1] # x[1]
    BY <1>4 DEF SoleInv, Sole, Gone
  <2> QED BY <1>1, <1>4, <2>1, Zenon DEF Leased, Held
<1>5. \A j \in Job : state[j] = "running" /\ locked_by[j] # w => RowKept(j)
  BY <1>1, Zenon DEF Held
<1> QED BY <1>2, <1>3, <1>4, <1>5, SoleTakes, Zenon

\* A statement of the flush settles the rows it then forgets: each has one
\* outcome, and no other task has it.
LEMMA SoleFlush ==
    ASSUME SoleInv, NEW w \in Worker, NEW o \in Outcomes \ {"unreadable"}, FlushStatement(w, o)
    PROVE  SoleInv'
<1> DEFINE S == {j \in Job : <<j, o>> \in flushing[w]}
<1>1. /\ DOMAIN state' = Job /\ DOMAIN lease' = Job
      /\ \A j \in Job \ (S \cap Held(w)) : state[j] = "running" => RowKept(j)
  <2>1. CASE UNCHANGED jobs
    BY <2>1, Zenon DEF jobs, rows, RowKept, SoleInv, Shape
  <2>2. CASE Settle(w, o, S \cap Held(w))
    <3> DEFINE T == S \cap Held(w)
    <3>1. T \in SUBSET Job /\ o \in {"success", "result", "retry", "terminal"}
      BY Zenon DEF Outcomes
    <3> HIDE DEF T, S
    <3>2. UNCHANGED jobs \/ Complete(w, T) \/ DiscardMany(w, T) \/ RetryMany(w, T)
      BY <2>2, <3>1, Zenon DEF Settle, T
    <3> QED BY <2>1, <3>1, <3>2, SettleKeeps, Zenon DEF T
  <2> QED BY <2>1, <2>2, Zenon DEF FlushStatement
<1>2. /\ UNCHANGED <<phase, fetch, fetched, child, reported, settling, lapsed>>
      /\ flushing'[w] = flushing[w] \ (S \X {o}) /\ Shape'
      /\ \A v \in Worker \ {w} : flushing'[v] = flushing[v]
  BY <1>1, Zenon DEF FlushStatement, session, dispatcher, SoleInv, Shape, Set
<1>3. Tasks(w)'
  BY <1>2, Zenon DEF SoleInv, Tasks
<1>4. ASSUME NEW y \in fetched[w] \cup child[w] \cup reported[w] \cup (flushing[w] \ (S \X {o})),
             y[1] \notin lapsed, Leased(w, y[1])
      PROVE  RowKept(y[1])
  <2>1. ASSUME y[1] \in S PROVE FALSE
    <3> DEFINE z == <<y[1], o>>
    <3>1. z \in flushing[w] /\ z[1] = y[1] /\ z \in S \X {o}
      BY <2>1, Zenon
    <3> HIDE DEF z, S
    <3> QED BY <1>4, <3>1, Zenon DEF SoleInv, Sole, Gone
  <2> HIDE DEF S
  <2> QED BY <1>1, <1>4, <2>1, Zenon DEF Leased, Held
<1>5. \A j \in Job : state[j] = "running" /\ locked_by[j] # w => RowKept(j)
  BY <1>1, Zenon DEF Held
<1> HIDE DEF S
<1> QED BY <1>2, <1>3, <1>4, <1>5, SoleTakes, Zenon

\* The other steps of the supervisor: a child is killed before its session ends,
\* and what hand_back gives away no task of the worker has.
LEMMA SoleSupervising ==
    ASSUME SoleInv, NEW w \in Worker, Supervising(w)
    PROVE  SoleInv'
<1>1. CASE SessionFails(w)
  BY <1>1, SoleDrop, Zenon
<1>2. CASE Kill(w)
  <2>1. /\ UNCHANGED <<phase, fetch, fetched, reported, flushing, settling, lapsed>>
        /\ UNCHANGED <<state, locked_by, lease, attempt>>
        /\ child'[w] = {} /\ Shape' /\ \A v \in Worker \ {w} : child'[v] = child[v]
    BY <1>2, Zenon DEF Kill, session, dispatcher, collector, jobs, rows, SoleInv, Shape, Set
  <2>2. Tasks(w)'
    BY <2>1, Zenon DEF SoleInv, Tasks
  <2> QED BY <2>1, <2>2, SoleTakes, Zenon DEF RowKept
<1>3. CASE HandBackAbandon(w)
  <2>1. /\ UNCHANGED <<fetch, fetched, child, reported, flushing, settling, lapsed>>
        /\ phase[w] = "abandoning" /\ phase'[w] \in {"reclaiming", "backoff"} /\ Shape'
        /\ \A v \in Worker \ {w} : phase'[v] = phase[v]
    BY <1>3, Zenon DEF HandBackAbandon, Goto, AbandonLeases, Assign, dispatcher, collector, jobs, rows,
                SoleInv, Shape, Set
  <2>2. \A j \in Job : state[j] = "running" /\ locked_by[j] # w => RowKept(j)
    BY <1>3, Zenon DEF HandBackAbandon, AbandonLeases, Assign, Held, jobs, rows, RowKept
  <2>3. Tasks(w)'
    BY <2>1, Zenon DEF SoleInv, Tasks, Outside
  <2>4. fetched[w] \cup child[w] \cup reported[w] \cup flushing[w] = {}
    BY <2>1, Zenon DEF SoleInv, Tasks, Outside
  <2> QED BY <2>1, <2>2, <2>3, <2>4, SoleTakes, Zenon
<1>4. CASE HandBackEnds(w)
  <2>1. /\ UNCHANGED <<fetch, fetched, child, reported, flushing, settling>>
        /\ phase[w] = "reclaiming" /\ phase' = Set(phase, w, "backoff")
    BY <1>4, Zenon DEF HandBackEnds, Goto, dispatcher, collector
  <2>2. /\ DOMAIN state' = Job /\ DOMAIN lease' = Job /\ lapsed \subseteq lapsed'
        /\ \A j \in Job \ lapsed' : state[j] = "running" /\ lease[j] = "live" => RowKept(j)
    <3>1. CASE ReclaimApply(w) /\ lapsed' = lapsed \cup TakenLive(w)
      BY <3>1, SweepNotes, Zenon
    <3>2. CASE UNCHANGED <<jobs, lapsed>>
      BY <3>2, Zenon DEF jobs, rows, RowKept, SoleInv, Shape
    <3>3. CASE ReclaimFails(w) /\ UNCHANGED lapsed
      BY <3>3, Zenon DEF ReclaimFails, rows, RowKept, SoleInv, Shape
    <3> QED BY <1>4, <3>1, <3>2, <3>3, Zenon DEF HandBackEnds
  <2>3. Shape' /\ \A v \in Worker : Tasks(v)'
    BY <2>1, <2>2, Zenon DEF SoleInv, Shape, Tasks, Outside, Set
  <2>4. \A v, j : j \notin lapsed' /\ Leased(v, j) => RowKept(j)
    BY <2>2, Zenon DEF Leased, Held
  <2> QED BY <2>1, <2>2, <2>3, <2>4, NobodyGets, Zenon
<1>5. ASSUME NEW E, HandBackScan(w, E) PROVE SoleInv'
  BY <1>5, SoleStill, Zenon DEF HandBackScan, ReclaimScan, local, session, dispatcher, collector, rows,
                         RowKept, SoleInv, Shape
<1>6. CASE \/ Connect(w) \/ SpawnFails(w) \/ DrainBegin(w) \/ DrainEnds(w)
           \/ SessionStops(w) \/ SessionErrs(w) \/ Restart(w) \/ GiveUp(w)
  <2>1. /\ UNCHANGED <<jobs, fetch, fetched, child, reported, flushing, settling, lapsed>>
        /\ phase' = Set(phase, w, phase'[w])
        /\ phase'[w] # "serving" => fetch[w] = "idle"
        /\ phase'[w] \in Outside => child[w] = {} /\ reported[w] = {} /\ settling[w] = {}
    BY <1>6, Zenon DEF Connect, SpawnFails, DrainBegin, DrainEnds, SessionStops, SessionErrs, Restart, GiveUp,
                Goto, Outside, Collected, dispatcher, collector, SoleInv, Shape, Tasks, Set
  <2>2. UNCHANGED <<state, locked_by, lease, attempt>>
    BY <2>1, Zenon DEF jobs, rows
  <2>3. Shape' /\ \A v \in Worker \ {w} : phase'[v] = phase[v]
    BY <2>1, <2>2, Zenon DEF SoleInv, Shape, Set
  <2>4. Tasks(w)'
    BY <2>1, Zenon DEF SoleInv, Tasks
  <2> QED BY <2>1, <2>2, <2>3, <2>4, SoleTakes, Zenon DEF RowKept
<1> QED BY <1>1, <1>2, <1>3, <1>4, <1>5, <1>6, Zenon DEF Supervising

\* A process that is lost leaves no task behind.
LEMMA SoleKilled ==
    ASSUME SoleInv, NEW p, Killed(p)
    PROVE  SoleInv'
<1> DEFINE gone == {w \in Worker : Process[w] = p}
<1>1. /\ phase' = [w \in Worker |-> IF w \in gone THEN "stopped" ELSE phase[w]]
      /\ fetch' = [w \in Worker |-> IF w \in gone THEN "idle" ELSE fetch[w]]
      /\ fetched' = [w \in Worker |-> IF w \in gone THEN {} ELSE fetched[w]]
      /\ child' = [w \in Worker |-> IF w \in gone THEN {} ELSE child[w]]
      /\ reported' = [w \in Worker |-> IF w \in gone THEN {} ELSE reported[w]]
      /\ flushing' = [w \in Worker |-> IF w \in gone THEN {} ELSE flushing[w]]
      /\ settling' = [w \in Worker |-> IF w \in gone THEN {} ELSE settling[w]]
      /\ UNCHANGED <<state, locked_by, lease, attempt, lapsed>>
  BY Zenon DEF Killed, Disconnect, rows
<1> HIDE DEF gone
<1>2. Shape' /\ \A w \in Worker : Tasks(w)'
  BY <1>1, Zenon DEF SoleInv, Shape, Tasks, Outside
<1>3. \A w \in Worker :
         /\ fetched'[w] \subseteq fetched[w] /\ child'[w] \subseteq child[w]
         /\ reported'[w] \subseteq reported[w] /\ flushing'[w] \subseteq flushing[w]
  BY <1>1, Zenon
<1> QED BY <1>1, <1>2, <1>3, NobodyGets, Zenon DEF RowKept

\* Every step of every task.
LEMMA SoleStep == SoleInv /\ [WorkerNext]_allvars => SoleInv'
<1> SUFFICES ASSUME SoleInv, [WorkerNext]_allvars PROVE SoleInv'
  BY Zenon
<1> USE DEF session, dispatcher, collector
<1>1. ASSUME NEW j \in Job, Arrives(j) \/ Lapses(j) PROVE SoleInv'
  <2>1. /\ DOMAIN state' = Job /\ DOMAIN lease' = Job /\ lapsed \subseteq lapsed'
        /\ \A i \in Job \ lapsed' : state[i] = "running" => RowKept(i)
    BY <1>1, Zenon DEF Arrives, Enqueue, ComesDue, Lapses, LeaseExpires, local, RowKept, SoleInv, Shape
  <2> QED BY <1>1, <2>1, SoleStill, Zenon DEF Arrives, Lapses, local
<1>2. ASSUME NEW w \in Worker, Dispatching(w) PROVE SoleInv'
  <2>1. CASE FetchLock(w)
    <3>1. /\ UNCHANGED <<phase, fetched, child, reported, flushing, settling, lapsed>>
          /\ UNCHANGED <<state, locked_by, lease, attempt>>
          /\ fetch[w] = "keyed" /\ fetch' = Set(fetch, w, "admit")
      BY <2>1, Zenon DEF FetchLock, FetchKeyedBegin, rows
    <3>2. Shape' /\ Tasks(w)' /\ \A v \in Worker \ {w} : fetch'[v] = fetch[v]
      BY <3>1, Zenon DEF SoleInv, Shape, Tasks, Outside, Set
    <3> QED BY <3>1, <3>2, SoleTakes, Zenon DEF RowKept
  <2> QED BY <1>2, <2>1, SoleDrop, SoleDispatch, SoleFetching, SoleDiscard, Zenon DEF Dispatching
<1>3. ASSUME NEW w \in Worker, Collecting(w) PROVE SoleInv'
  <2>1. CASE Release(w)
    <3>1. /\ UNCHANGED <<phase, fetch, fetched, child, reported, flushing, lapsed>>
          /\ UNCHANGED <<state, locked_by, lease, attempt>>
          /\ flushing[w] = {} /\ settling' = Set(settling, w, {})
      BY <2>1, Zenon DEF Release, jobs, rows
    <3>2. Shape' /\ Tasks(w)' /\ \A v \in Worker \ {w} : settling'[v] = settling[v]
      BY <3>1, Zenon DEF SoleInv, Shape, Tasks, Set
    <3> QED BY <3>1, <3>2, SoleTakes, Zenon DEF RowKept
  <2>2. ASSUME NEW x \in left[w], ThreadEnds(w, x) PROVE SoleInv'
    BY <2>2, SoleStill, Zenon DEF ThreadEnds, jobs, rows, RowKept, SoleInv, Shape
  <2> QED BY <1>3, <2>1, <2>2, SoleFinish, SoleFlushBegin, SoleFlush, Zenon DEF Collecting
<1>4. ASSUME NEW w \in Worker, RenewSnapshot(w) \/ RenewApply(w) PROVE SoleInv'
  <2>1. /\ DOMAIN state' = Job /\ DOMAIN lease' = Job
        /\ \A j \in Job : state[j] = "running" /\ lease[j] = "live" => RowKept(j)
    BY <1>4, Zenon DEF RenewSnapshot, RenewApply, RenewLeases, Assign, jobs, rows, RowKept, SoleInv, Shape
  <2> QED BY <1>4, <2>1, SoleStill, Zenon DEF RenewSnapshot, RenewApply
<1>5. CASE Recovering
  <2>1. CASE RecoverApply
    BY <2>1, SweepNotes, SoleStill, Zenon DEF RecoverApply
  <2>2. ASSUME NEW E, RecoverFails \/ RecoverScan(E) PROVE SoleInv'
    BY <2>2, SoleStill, Zenon DEF RecoverFails, ReclaimFails, RecoverScan, ReclaimScan, local, rows, RowKept,
                           SoleInv, Shape
  <2> QED BY <1>5, <2>1, <2>2, Zenon DEF Recovering
<1>6. ASSUME NEW p, Shutdown(p) PROVE SoleInv'
  BY <1>6, SoleStill, Zenon DEF Shutdown, jobs, rows, RowKept, SoleInv, Shape
<1>7. CASE UNCHANGED allvars
  BY <1>7, SoleStill, Zenon DEF allvars, local, jobs, rows, RowKept, SoleInv, Shape
<1> QED BY <1>1, <1>2, <1>3, <1>4, <1>5, <1>6, <1>7, SoleSupervising, SoleKilled, Zenon DEF WorkerNext

\* Nothing is fetched, executing or reported when the workers start.
LEMMA SoleStart == WorkerInit => SoleInv
<1> SUFFICES ASSUME WorkerInit PROVE SoleInv
  BY Zenon
<1>1. Shape
  BY Zenon DEF WorkerInit, Init, Empty, Shape
<1>2. ASSUME NEW w \in Worker
      PROVE  /\ fetched[w] = {} /\ child[w] = {} /\ reported[w] = {} /\ flushing[w] = {}
             /\ settling[w] = {} /\ fetch[w] = "idle"
  BY Zenon DEF WorkerInit, Empty
<1>3. \A w \in Worker : Tasks(w) /\ Sole(w)
  BY <1>2, Zenon DEF Tasks, Sole
<1> QED BY <1>1, <1>3, Zenon DEF SoleInv

-----------------------------------------------------------------------------
\* What a timeout left behind is of an attempt that is over: any task that has the
\* job now has it in a later one, and no attempt is left behind by two children.
Behind ==
    /\ DOMAIN left = Worker
    /\ \A v \in Worker : \A x \in left[v] :
           \/ Gone(x)
           \/ /\ x = <<x[1], x[2]>> /\ x[1] \in Job /\ x[2] \in Nat /\ x[2] <= attempt[x[1]]
              /\ \A w \in Worker : \A y \in fetched[w] \cup child[w] :
                     y[1] = x[1] => x[2] < attempt[x[1]]
    /\ \A v, w \in Worker : \A x \in left[v], y \in left[w] :
           x[1] = y[1] /\ x[2] = y[2] => v = w \/ Gone(x)

\* A step that leaves nothing behind, and gives out only jobs in new attempts.
LEMMA BehindKept ==
    ASSUME Behind, NEW A \in SUBSET Job, lapsed \subseteq lapsed', DOMAIN left' = Worker,
           attempt \in [Job -> Nat], attempt' \in [Job -> Nat],
           \A j \in Job : attempt[j] <= attempt'[j],
           \A j \in A : attempt[j] < attempt'[j],
           \A w \in Worker :
               /\ left'[w] \subseteq left[w]
               /\ \A y \in fetched'[w] \cup child'[w] : y \in fetched[w] \cup child[w] \/ y[1] \in A
    PROVE  Behind'
<1>1. ASSUME NEW v \in Worker, NEW x \in left'[v], ~Gone(x)'
      PROVE  /\ x = <<x[1], x[2]>> /\ x[1] \in Job /\ x[2] \in Nat /\ x[2] <= attempt'[x[1]]
             /\ \A w \in Worker : \A y \in fetched'[w] \cup child'[w] :
                    y[1] = x[1] => x[2] < attempt'[x[1]]
  <2>1. x \in left[v] /\ ~Gone(x)
    BY <1>1, Zenon DEF Gone
  <2>2. /\ x = <<x[1], x[2]>> /\ x[1] \in Job /\ x[2] \in Nat /\ x[2] <= attempt[x[1]]
        /\ \A w \in Worker : \A y \in fetched[w] \cup child[w] :
               y[1] = x[1] => x[2] < attempt[x[1]]
    BY <2>1, Zenon DEF Behind
  <2> DEFINE a == attempt[x[1]]
             b == attempt'[x[1]]
             n == x[2]
  <2>3. a \in Nat /\ b \in Nat /\ n \in Nat /\ n <= a /\ a <= b /\ (x[1] \in A => a < b)
    BY <2>2
  <2> HIDE DEF a, b, n
  <2>4. n <= b /\ (x[1] \in A => n < b) /\ (n < a => n < b)
    BY <2>3
  <2>5. ASSUME NEW w \in Worker, NEW y \in fetched'[w] \cup child'[w], y[1] = x[1]
        PROVE  n < b
    BY <2>2, <2>4, <2>5, Zenon DEF n, a
  <2> QED BY <2>2, <2>4, <2>5, Zenon DEF n, b
<1>2. ASSUME NEW v \in Worker, NEW w \in Worker, NEW x \in left'[v], NEW y \in left'[w],
             x[1] = y[1], x[2] = y[2], ~Gone(x)'
      PROVE  v = w
  BY <1>2, Zenon DEF Behind, Gone
<1> QED BY <1>1, <1>2, Zenon DEF Behind, Gone

\* The UPDATE of the fetches counts an attempt of every row it takes.
LEMMA LeaseCounts ==
    ASSUME TypeOK, NEW w, NEW S \in SUBSET Job, Lease(w, S)
    PROVE  /\ \A j \in Job : attempt[j] <= attempt'[j]
           /\ \A j \in S : attempt[j] < attempt'[j]
BY DEF TypeOK, Lease

\* fetch() gives out new attempts only.
LEMMA BehindFetching ==
    ASSUME TypeOK, TypeOK', Behind, NEW w \in Worker, NEW S \in SUBSET Job, DOMAIN fetched = Worker,
           FetchFirst(w, S) \/ FetchSecond(w, S) \/ FetchLost(w, S)
    PROVE  Behind'
<1>1. /\ UNCHANGED <<left, child, lapsed>>
      /\ attempt \in [Job -> Nat] /\ attempt' \in [Job -> Nat] /\ DOMAIN left = Worker
  BY Zenon DEF FetchFirst, FetchSecond, FetchLost, TypeOK, Behind
<1>2. PICK A \in SUBSET S :
         /\ Lease(w, A) \/ (A = {} /\ UNCHANGED attempt)
         /\ \A v \in Worker : \A y \in fetched'[v] : y \in fetched[v] \/ y[1] \in A
  <2>1. CASE FetchFirst(w, S)
    <3>1. \A v \in Worker : \A y \in fetched'[v] : y \in fetched[v] \/ y[1] \in S
      BY <2>1 DEF FetchFirst, Set
    <3>2. Lease(w, S) \/ (S = {} /\ UNCHANGED attempt)
      BY <2>1, Zenon DEF FetchFirst, FetchUnkeyed, jobs, rows
    <3>3. S \in SUBSET S
      BY Zenon
    <3> QED BY <3>1, <3>2, <3>3, Zenon
  <2>2. ASSUME FetchKeyedCommit(w, S)
        PROVE  \E A \in SUBSET S : Lease(w, A) /\ {l \in S : state'[l] = "running"} \subseteq A
    <3>1. S \subseteq Eligible /\ \E n : Lease(w, Admitted(w, S, n))
      BY <2>2, Zenon DEF FetchKeyedCommit, Lockable
    <3>2. PICK n : Lease(w, Admitted(w, S, n))
      BY <3>1, Zenon
    <3> DEFINE A == Admitted(w, S, n)
    <3>3. A \in SUBSET S
      BY Zenon DEF Admitted
    <3> HIDE DEF A
    <3>4. \A l \in S \ A : state'[l] = "available"
      BY <3>1, <3>2, Zenon DEF A, Lease, Assign, Eligible
    <3> QED BY <3>2, <3>3, <3>4 DEF A
  <2>3. CASE FetchSecond(w, S)
    <3>1. PICK A \in SUBSET S : Lease(w, A) /\ {l \in S : state'[l] = "running"} \subseteq A
      BY <2>2, <2>3, Zenon DEF FetchSecond
    <3>2. \A v \in Worker : \A y \in fetched'[v] : y \in fetched[v] \/ y[1] \in A
      BY <2>3, <3>1 DEF FetchSecond, Set
    <3> QED BY <3>1, <3>2, Zenon
  <2>4. CASE FetchLost(w, S)
    <3>1. \A v \in Worker : \A y \in fetched'[v] : y \in fetched[v]
      BY <2>4, Zenon DEF FetchLost, Set
    <3>2. CASE FetchUnkeyed(w, S)
      <4>1. Lease(w, S) /\ S \in SUBSET S
        BY <3>2, Zenon DEF FetchUnkeyed
      <4> QED BY <3>1, <4>1, Zenon
    <3>3. CASE FetchKeyedCommit(w, S)
      BY <2>2, <3>1, <3>3, Zenon
    <3> QED BY <2>4, <3>2, <3>3, Zenon DEF FetchLost
  <2> QED BY <2>1, <2>3, <2>4, Zenon
<1>3. A \in SUBSET Job
  BY <1>2, Zenon
<1>4. (\A j \in Job : attempt[j] <= attempt'[j]) /\ (\A j \in A : attempt[j] < attempt'[j])
  <2>1. CASE Lease(w, A)
    BY <1>3, <2>1, LeaseCounts, Zenon
  <2>2. CASE A = {} /\ UNCHANGED attempt
    BY <1>1, <2>2
  <2> QED BY <1>2, <2>1, <2>2, Zenon
<1> QED BY <1>1, <1>2, <1>3, <1>4, BehindKept, Zenon

\* A step that gives out nothing and leaves nothing behind.
LEMMA BehindStill ==
    ASSUME TypeOK, TypeOK', Behind, lapsed \subseteq lapsed', DOMAIN left' = Worker, UNCHANGED attempt,
           \A w \in Worker :
               /\ left'[w] \subseteq left[w]
               /\ fetched'[w] \cup child'[w] \subseteq fetched[w] \cup child[w]
    PROVE  Behind'
<1>1. attempt \in [Job -> Nat] /\ attempt' \in [Job -> Nat]
  BY Zenon DEF TypeOK
<1>2. \A j \in Job : attempt[j] <= attempt'[j]
  BY <1>1
<1>3. {} \in SUBSET Job /\ \A j \in {} : attempt[j] < attempt'[j]
  BY Zenon
<1>4. \A w \in Worker : \A y \in fetched'[w] \cup child'[w] : y \in fetched[w] \cup child[w]
  BY Zenon
<1> QED BY <1>1, <1>2, <1>3, <1>4, BehindKept, Zenon

\* A body that is reported at its timeout was the only execution of its attempt,
\* and no task has the job any more.
LEMMA BehindFinish ==
    ASSUME TypeOK, SoleInv, Behind, NEW w \in Worker, NEW x \in child[w], NEW o, Finish(w, x, o)
    PROVE  Behind'
<1>1. /\ UNCHANGED <<jobs, fetched, lapsed>> /\ child'[w] = child[w] \ {x}
      /\ left'[w] \subseteq left[w] \cup {x} /\ DOMAIN left' = Worker
      /\ \A v \in Worker \ {w} : child'[v] = child[v] /\ left'[v] = left[v]
  BY Zenon DEF Finish, dispatcher, SoleInv, Shape, Behind, Set
<1>2. UNCHANGED <<attempt, lapsed, fetched>>
  BY <1>1, Zenon DEF jobs, rows
<1>3. ASSUME ~Gone(x)
      PROVE  /\ x = <<x[1], attempt[x[1]]>> /\ x[1] \in Job /\ attempt[x[1]] \in Nat
             /\ \A v \in Worker : \A y \in fetched'[v] \cup child'[v] : y[1] # x[1]
             /\ \A v \in Worker : \A z \in left[v] : z[1] = x[1] => z[2] \in Nat /\ z[2] < attempt[x[1]]
  <2>1. Leased(w, x[1]) /\ x = <<x[1], attempt[x[1]]>>
    BY <1>3, Zenon DEF SoleInv, Sole
  <2>2. x[1] \in Job /\ attempt[x[1]] \in Nat
    BY <2>1 DEF Leased, Held, TypeOK
  <2>3. ASSUME NEW v \in Worker, NEW y \in fetched'[v] \cup child'[v], y[1] = x[1] PROVE FALSE
    <3>1. y \in fetched[v] \cup child[v] /\ ~Gone(y) /\ (v = w => y # x)
      <4>1. CASE v # w
        BY <1>1, <1>2, <1>3, <2>3, <4>1, Zenon DEF Gone
      <4>2. CASE v = w /\ y \in child'[w]
        BY <1>1, <1>3, <2>3, <4>2, Zenon DEF Gone
      <4>3. CASE v = w /\ y \in fetched[w]
        <5>1. Gone(y)
          BY <2>3, <4>3, Zenon DEF SoleInv, Sole
        <5> QED BY <1>3, <2>3, <5>1, Zenon DEF Gone
      <4> QED BY <1>2, <2>3, <4>1, <4>2, <4>3, Zenon
    <3>2. Leased(v, y[1]) /\ y = <<y[1], attempt[y[1]]>>
      BY <3>1, Zenon DEF SoleInv, Sole
    <3>3. v = w /\ y = x
      BY <2>1, <2>3, <3>2, Zenon DEF Leased, Held
    <3> QED BY <3>1, <3>3, Zenon
  <2>4. ASSUME NEW v \in Worker, NEW z \in left[v], z[1] = x[1]
        PROVE  z[2] \in Nat /\ z[2] < attempt[x[1]]
    BY <1>3, <2>4, Zenon DEF Behind, Gone
  <2> QED BY <2>1, <2>2, <2>3, <2>4, Zenon
<1>4. ASSUME NEW v \in Worker, NEW z \in left'[v], ~Gone(z)
      PROVE  /\ z = <<z[1], z[2]>> /\ z[1] \in Job /\ z[2] \in Nat /\ z[2] <= attempt[z[1]]
             /\ \A u \in Worker : \A y \in fetched'[u] \cup child'[u] :
                    y[1] = z[1] => z[2] < attempt[z[1]]
  <2>1. CASE z = x
    <3>1. z[2] = attempt[z[1]]
      BY <1>3, <1>4, <2>1
    <3> QED BY <1>3, <1>4, <2>1, <3>1
  <2>2. CASE z # x
    <3>1. z \in left[v]
      BY <1>1, <2>2, <1>4, Zenon
    <3>2. \A u \in Worker : \A y \in fetched'[u] \cup child'[u] : y \in fetched[u] \cup child[u]
      BY <1>1, <1>2, Zenon
    <3> QED BY <1>4, <3>1, <3>2, Zenon DEF Behind
  <2> QED BY <2>1, <2>2, Zenon
<1>5. ASSUME NEW v \in Worker, NEW u \in Worker, NEW y \in left'[v], NEW z \in left'[u],
             y[1] = z[1], y[2] = z[2], ~Gone(y), v # u
      PROVE  FALSE
  <2>1. CASE y \in left[v] /\ z \in left[u]
    BY <1>5, <2>1, Zenon DEF Behind
  <2>2. CASE y = x /\ z \in left[u]
    <3>1. x[2] = attempt[x[1]] /\ z[2] < attempt[x[1]] /\ z[2] \in Nat
      BY <1>3, <1>5, <2>2
    <3> QED BY <1>5, <2>2, <3>1
  <2>3. CASE z = x /\ y \in left[v]
    <3>1. x[2] = attempt[x[1]] /\ y[2] < attempt[x[1]] /\ y[2] \in Nat
      BY <1>3, <1>5, <2>3 DEF Gone
    <3> QED BY <1>5, <2>3, <3>1
  <2>4. (y \in left[v] \/ (y = x /\ v = w)) /\ (z \in left[u] \/ (z = x /\ u = w))
    <3>1. \A t \in Worker : \A r \in left'[t] : r \in left[t] \/ (r = x /\ t = w)
      BY <1>1, Zenon
    <3> QED BY <1>5, <3>1, Zenon
  <2> QED BY <1>5, <2>1, <2>2, <2>3, <2>4, Zenon
<1>6. \A v \in Worker : \A z \in left'[v] :
         \/ Gone(z)'
         \/ /\ z = <<z[1], z[2]>> /\ z[1] \in Job /\ z[2] \in Nat /\ z[2] <= attempt'[z[1]]
            /\ \A u \in Worker : \A y \in fetched'[u] \cup child'[u] :
                   y[1] = z[1] => z[2] < attempt'[z[1]]
  BY <1>2, <1>4, Zenon DEF Gone
<1>7. \A v, u \in Worker : \A y \in left'[v], z \in left'[u] :
         y[1] = z[1] /\ y[2] = z[2] => v = u \/ Gone(y)'
  BY <1>2, <1>5, Zenon DEF Gone
<1> QED BY <1>1, <1>6, <1>7, Zenon DEF Behind, Gone

\* A statement that settles a row, renews its lease or gives it up counts no attempt.
LEMMA SettleCounts ==
    ASSUME NEW w, NEW S, NEW o, Settle(w, o, S), o \in Outcomes \ {"unreadable"}
    PROVE  UNCHANGED attempt
<1>1. UNCHANGED jobs \/ Complete(w, S) \/ RetryMany(w, S) \/ DiscardMany(w, S)
  BY Zenon DEF Settle, Outcomes
<1> QED BY <1>1, Zenon DEF Complete, RetryMany, DiscardMany, jobs, rows

\* Every step of every task.
LEMMA BehindStep ==
    ASSUME TypeOK, TypeOK', SoleInv, SoleInv', Behind, [WorkerNext]_allvars
    PROVE  Behind'
<1> USE DEF session, dispatcher, collector
<1>1. DOMAIN left = Worker /\ DOMAIN fetched = Worker /\ DOMAIN child = Worker
  BY Zenon DEF Behind, SoleInv, Shape
<1>2. ASSUME NEW w \in Worker, Dispatching(w) PROVE Behind'
  <2>1. CASE FetchLock(w) \/ FetchFails(w) \/ Dispatch(w)
    <3>1. UNCHANGED <<attempt, left, lapsed>>
      BY <2>1, Zenon DEF FetchLock, FetchFails, Dispatch, FetchKeyedBegin, FetchKeyedAbort, jobs, rows
    <3>2. \A v \in Worker : fetched'[v] \cup child'[v] \subseteq fetched[v] \cup child[v]
      <4>1. CASE FetchLock(w)
        BY <4>1, Zenon DEF FetchLock
      <4>2. CASE FetchFails(w)
        BY <1>1, <4>2, Zenon DEF FetchFails, Set
      <4>3. CASE Dispatch(w)
        BY <1>1, <4>3, Zenon DEF Dispatch, Set
      <4> QED BY <2>1, <4>1, <4>2, <4>3, Zenon
    <3> QED BY <1>1, <3>1, <3>2, BehindStill, Zenon
  <2>2. ASSUME NEW x \in fetched[w], DispatchDiscard(w, x) PROVE Behind'
    <3>1. UNCHANGED <<attempt, left, lapsed, child>> /\ fetched' = Set(fetched, w, fetched[w] \ {x})
      BY <2>2, Zenon DEF DispatchDiscard, DiscardMany, jobs, rows
    <3>2. \A v \in Worker : fetched'[v] \cup child'[v] \subseteq fetched[v] \cup child[v]
      BY <1>1, <3>1, Zenon DEF Set
    <3> QED BY <1>1, <3>1, <3>2, BehindStill, Zenon
  <2> QED BY <1>1, <1>2, <2>1, <2>2, BehindFetching, Zenon DEF Dispatching
<1>3. ASSUME NEW w \in Worker, Collecting(w) PROVE Behind'
  <2>1. ASSUME NEW x \in left[w], ThreadEnds(w, x) PROVE Behind'
    <3>1. UNCHANGED <<attempt, lapsed, child, fetched>> /\ left' = Set(left, w, left[w] \ {x})
      BY <2>1, Zenon DEF ThreadEnds, jobs, rows
    <3>2. DOMAIN left' = Worker /\ \A v \in Worker : left'[v] \subseteq left[v]
      BY <1>1, <3>1, Zenon DEF Set
    <3> QED BY <3>1, <3>2, BehindStill, Zenon
  <2>2. ASSUME NEW o \in Outcomes \ {"unreadable"}, FlushStatement(w, o) PROVE Behind'
    <3>1. UNCHANGED <<lapsed, child, left, fetched>>
      BY <2>2, Zenon DEF FlushStatement
    <3>2. UNCHANGED attempt
      BY <2>2, SettleCounts, Zenon DEF FlushStatement, jobs, rows
    <3> QED BY <1>1, <3>1, <3>2, BehindStill, Zenon
  <2>3. CASE FlushBegin(w) \/ Release(w)
    BY <1>1, <2>3, BehindStill, Zenon DEF FlushBegin, Release, jobs, rows
  <2> QED BY <1>3, <2>1, <2>2, <2>3, BehindFinish, Zenon DEF Collecting
<1>4. ASSUME NEW w \in Worker, Supervising(w) PROVE Behind'
  <2>1. CASE Kill(w)
    <3>1. /\ UNCHANGED <<attempt, lapsed, fetched>>
          /\ child' = Set(child, w, {}) /\ left' = Set(left, w, {})
      BY <2>1, Zenon DEF Kill, jobs, rows
    <3>2. /\ DOMAIN left' = Worker
          /\ \A v \in Worker : left'[v] \subseteq left[v] /\ child'[v] \subseteq child[v]
      BY <1>1, <3>1, Zenon DEF Set
    <3>3. \A v \in Worker : fetched'[v] \cup child'[v] \subseteq fetched[v] \cup child[v]
      BY <3>1, <3>2, Zenon
    <3> QED BY <3>1, <3>2, <3>3, BehindStill, Zenon
  <2>2. CASE SessionFails(w)
    <3>1. UNCHANGED <<attempt, left, lapsed, child>> /\ fetched' = Set(fetched, w, {})
      BY <2>2, Zenon DEF SessionFails, FetchKeyedAbort, jobs, rows
    <3>2. \A v \in Worker : fetched'[v] \cup child'[v] \subseteq fetched[v] \cup child[v]
      BY <1>1, <3>1, Zenon DEF Set
    <3> QED BY <1>1, <3>1, <3>2, BehindStill, Zenon
  <2>3. CASE HandBackEnds(w)
    <3>1. UNCHANGED <<attempt, left, child, fetched>> /\ lapsed \subseteq lapsed'
      BY <2>3, Zenon DEF HandBackEnds, ReclaimApply, ReclaimFails, jobs, rows
    <3> QED BY <1>1, <3>1, BehindStill, Zenon
  <2>4. CASE HandBackAbandon(w) \/ \E E \in SUBSET Job : HandBackScan(w, E)
    <3>1. UNCHANGED <<attempt, left, lapsed, child, fetched>>
      BY <2>4, Zenon DEF HandBackAbandon, AbandonLeases, HandBackScan, ReclaimScan, local, jobs, rows
    <3> QED BY <1>1, <3>1, BehindStill, Zenon
  <2>5. CASE \/ Connect(w) \/ SpawnFails(w) \/ DrainBegin(w) \/ DrainEnds(w)
             \/ SessionStops(w) \/ SessionErrs(w) \/ Restart(w) \/ GiveUp(w)
    <3>1. UNCHANGED <<attempt, left, lapsed, child, fetched>>
      BY <2>5, Zenon DEF Connect, SpawnFails, DrainBegin, DrainEnds, SessionStops, SessionErrs,
                         Restart, GiveUp, jobs, rows
    <3> QED BY <1>1, <3>1, BehindStill, Zenon
  <2> QED BY <1>4, <2>1, <2>2, <2>3, <2>4, <2>5, Zenon DEF Supervising
<1>5. ASSUME NEW p, Killed(p) PROVE Behind'
  <2> DEFINE gone == {w \in Worker : Process[w] = p}
  <2>1. /\ fetched' = [w \in Worker |-> IF w \in gone THEN {} ELSE fetched[w]]
        /\ child' = [w \in Worker |-> IF w \in gone THEN {} ELSE child[w]]
        /\ left' = [w \in Worker |-> IF w \in gone THEN {} ELSE left[w]]
        /\ UNCHANGED <<attempt, lapsed>>
    BY <1>5, Zenon DEF Killed, Disconnect, rows
  <2> HIDE DEF gone
  <2>2. DOMAIN left' = Worker
    BY <2>1, Zenon
  <2>3. \A w \in Worker : /\ left'[w] \subseteq left[w]
                          /\ fetched'[w] \subseteq fetched[w] /\ child'[w] \subseteq child[w]
    BY <2>1, Zenon
  <2>4. \A w \in Worker : fetched'[w] \cup child'[w] \subseteq fetched[w] \cup child[w]
    BY <2>3, Zenon
  <2> QED BY <2>1, <2>2, <2>3, <2>4, BehindStill, Zenon
<1>6. ASSUME NEW j, NEW w, NEW p,
             \/ Arrives(j) \/ Lapses(j) \/ RenewSnapshot(w) \/ RenewApply(w) \/ Recovering
             \/ Shutdown(p) \/ UNCHANGED allvars
      PROVE  Behind'
  <2>1. UNCHANGED <<left, child, fetched>> /\ lapsed \subseteq lapsed'
    BY <1>6, Zenon DEF Arrives, Lapses, RenewSnapshot, RenewApply, Recovering, RecoverApply,
                       RecoverFails, RecoverScan, Shutdown, allvars, local
  <2>2. UNCHANGED attempt
    BY <1>6, Zenon DEF Arrives, Enqueue, ComesDue, Lapses, LeaseExpires, RenewSnapshot, RenewApply,
                       RenewLeases, Recovering, RecoverApply, RecoverFails, RecoverScan, ReclaimApply,
                       ReclaimFails, ReclaimScan, Shutdown, allvars, jobs, rows
  <2> QED BY <1>1, <2>1, <2>2, BehindStill, Zenon
<1> QED BY <1>2, <1>3, <1>4, <1>5, <1>6, Zenon DEF WorkerNext

-----------------------------------------------------------------------------
\* A step of the supervisor, as the table sees it.
TableStep == Next \/ UNCHANGED vars

\* Statements that leave the table as it is.
LEMMA NoStatement == UNCHANGED jobs => TableStep
BY Zenon DEF jobs, vars, TableStep

\* The dispatcher sends FETCH_UNKEYED, FETCH_KEYED and DISCARD_MANY.
LEMMA TableDispatching == ASSUME NEW w \in Worker, Dispatching(w) PROVE TableStep
<1>1. CASE FetchLock(w)
  BY <1>1, Zenon DEF FetchLock, TableStep, Next
<1>2. CASE FetchFails(w)
  BY <1>2, NoStatement, Zenon DEF FetchFails, TableStep, Next
<1>3. CASE Dispatch(w)
  BY <1>3, NoStatement, Zenon DEF Dispatch
<1>4. ASSUME NEW S \in SUBSET Job, FetchFirst(w, S) \/ FetchSecond(w, S) \/ FetchLost(w, S)
      PROVE  TableStep
  <2>1. FetchUnkeyed(w, S) \/ FetchKeyedCommit(w, S) \/ UNCHANGED jobs
    BY <1>4, Zenon DEF FetchFirst, FetchSecond, FetchLost
  <2> QED BY <2>1, NoStatement, Zenon DEF TableStep, Next
<1>5. ASSUME NEW x \in fetched[w], DispatchDiscard(w, x) PROVE TableStep
  <2>1. (x[1] \in Held(w) /\ DiscardMany(w, {x[1]})) \/ UNCHANGED jobs
    BY <1>5, Zenon DEF DispatchDiscard
  <2>2. x[1] \in Held(w) => {x[1]} \in SUBSET Job
    BY DEF Held
  <2> QED BY <2>1, <2>2, NoStatement, Zenon DEF TableStep, Next
<1> QED BY <1>1, <1>2, <1>3, <1>4, <1>5, Zenon DEF Dispatching

\* The collector sends COMPLETE, RETRY_MANY and DISCARD_MANY.
LEMMA TableCollecting == ASSUME NEW w \in Worker, Collecting(w) PROVE TableStep
<1>1. ASSUME NEW o \in Outcomes \ {"unreadable"}, FlushStatement(w, o) PROVE TableStep
  <2> DEFINE T == {j \in Job : <<j, o>> \in flushing[w]} \cap Held(w)
  <2>1. Settle(w, o, T) \/ UNCHANGED jobs
    BY <1>1, Zenon DEF FlushStatement
  <2>2. T \in SUBSET Job /\ o \in {"success", "result", "retry", "terminal"}
    BY DEF Outcomes
  <2> HIDE DEF T
  <2>3. UNCHANGED jobs \/ Complete(w, T) \/ RetryMany(w, T) \/ DiscardMany(w, T)
    BY <2>1, <2>2, Zenon DEF Settle
  <2> QED BY <2>2, <2>3, NoStatement, Zenon DEF TableStep, Next
<1>2. ASSUME NEW x, NEW o, Finish(w, x, o) \/ ThreadEnds(w, x) PROVE TableStep
  BY <1>2, NoStatement, Zenon DEF Finish, ThreadEnds
<1>3. CASE FlushBegin(w) \/ Release(w)
  BY <1>3, NoStatement, Zenon DEF FlushBegin, Release
<1> QED BY <1>1, <1>2, <1>3, Zenon DEF Collecting

\* hand_back sends the statement that ends leases, and a RECLAIM; a session that
\* fails has its open admission rolled back.
LEMMA TableSupervising == ASSUME NEW w \in Worker, Supervising(w) PROVE TableStep
<1>1. w \in Sweeper
  BY WorkerConfig
<1>2. CASE SessionFails(w)
  BY <1>2, NoStatement, Zenon DEF SessionFails, TableStep, Next
<1>3. CASE HandBackAbandon(w)
  <2>1. AbandonLeases(w, handing[w] \cap Held(w)) \/ UNCHANGED jobs
    BY <1>3, Zenon DEF HandBackAbandon
  <2>2. handing[w] \cap Held(w) \in SUBSET Job
    BY DEF Held
  <2> QED BY <2>1, <2>2, NoStatement, Zenon DEF TableStep, Next
<1>4. CASE HandBackEnds(w)
  <2>1. ReclaimApply(w) \/ ReclaimFails(w) \/ UNCHANGED jobs
    BY <1>4, Zenon DEF HandBackEnds
  <2> QED BY <1>1, <2>1, NoStatement, Zenon DEF TableStep, Next
<1>5. ASSUME NEW E \in SUBSET Job, HandBackScan(w, E) PROVE TableStep
  BY <1>1, <1>5, Zenon DEF HandBackScan, TableStep, Next
<1>6. CASE \/ Connect(w) \/ SpawnFails(w) \/ DrainBegin(w) \/ DrainEnds(w) \/ Kill(w)
           \/ SessionStops(w) \/ SessionErrs(w) \/ Restart(w) \/ GiveUp(w)
  BY <1>6, NoStatement, Zenon
     DEF Connect, SpawnFails, DrainBegin, DrainEnds, Kill, SessionStops, SessionErrs, Restart, GiveUp
<1> QED BY <1>2, <1>3, <1>4, <1>5, <1>6, Zenon DEF Supervising

\* Every step of every task is one statement on the table, or none.
LEMMA OneStatement == [WorkerNext]_allvars => [Next]_vars
<1> SUFFICES ASSUME [WorkerNext]_allvars PROVE TableStep
  BY Zenon DEF TableStep
<1>1. ASSUME NEW j \in Job, Arrives(j) \/ Lapses(j) PROVE TableStep
  <2>1. Enqueue(j, "due") \/ ComesDue(j) \/ LeaseExpires(j)
    BY <1>1, Zenon DEF Arrives, Lapses
  <2>2. "due" \in {"due", "later"}
    OBVIOUS
  <2> QED BY <2>1, <2>2, Zenon DEF TableStep, Next
<1>2. ASSUME NEW w \in Worker, RenewSnapshot(w) \/ RenewApply(w) PROVE TableStep
  <2>1. RenewLeases(w, renewing[w] \cap Held(w)) \/ UNCHANGED jobs
    BY <1>2, Zenon DEF RenewSnapshot, RenewApply
  <2>2. renewing[w] \cap Held(w) \in SUBSET Job
    BY DEF Held
  <2> QED BY <2>1, <2>2, NoStatement, Zenon DEF TableStep, Next
<1>3. CASE Recovering
  <2>1. Recover \in Sweeper
    BY WorkerConfig
  <2>2. ReclaimApply(Recover) \/ ReclaimFails(Recover) \/ \E E \in SUBSET Job : ReclaimScan(Recover, E)
    BY <1>3, Zenon DEF Recovering, RecoverApply, RecoverFails, RecoverScan
  <2> QED BY <2>1, <2>2, Zenon DEF TableStep, Next
<1>4. ASSUME NEW p, Killed(p) PROVE TableStep
  <2> DEFINE gone == {w \in Worker : Process[w] = p}
  <2>1. gone \in SUBSET (Worker \cup Sweeper) /\ Disconnect(gone)
    BY <1>4 DEF Killed
  <2> HIDE DEF gone
  <2> QED BY <2>1, Zenon DEF TableStep, Next
<1>5. ASSUME NEW p, Shutdown(p) PROVE TableStep
  BY <1>5, NoStatement, Zenon DEF Shutdown
<1>6. CASE UNCHANGED allvars
  BY <1>6, NoStatement, Zenon DEF allvars
<1> QED BY <1>1, <1>2, <1>3, <1>4, <1>5, <1>6, TableDispatching, TableCollecting, TableSupervising,
           Zenon DEF WorkerNext

\* A job whose lease never ran out, and was never reclaimed live, executes once
\* at a time in all children together, for any number of workers, processes and
\* failures (session, hand_back, fetch, flush): an execution that overlaps a later
\* one is the thread of a synchronous body that a timeout failed (_call).
THEOREM SoleExecution == WorkerSpec => []OneExecution
<1>1. WorkerInit => TypeOK /\ Behind
  <2>1. WorkerInit => Behind
    BY Zenon DEF WorkerInit, Empty, Behind
  <2> QED BY <2>1, InitType, Zenon DEF WorkerInit
<1>2. ASSUME TypeOK, SoleInv, Behind PROVE OneExecution
  <2> SUFFICES ASSUME NEW j \in Job \ lapsed, NEW v \in Worker, NEW w \in Worker,
                      NEW x \in Executions(v), NEW y \in Executions(w),
                      x[1] = j, y[1] = j, x[2] <= y[2]
               PROVE  (v = w /\ x = y) \/ (x \in left[v] /\ x[2] < y[2])
    BY Zenon DEF OneExecution
  <2>1. ~Gone(x) /\ ~Gone(y) /\ attempt[j] \in Nat
    BY <1>2 DEF Gone, TypeOK
  <2>2. /\ x \in child[v] => Leased(v, j) /\ x = <<j, attempt[j]>>
        /\ y \in child[w] => Leased(w, j) /\ y = <<j, attempt[j]>>
    BY <1>2, <2>1, Zenon DEF SoleInv, Sole
  <2>3. /\ x \in left[v] => x = <<j, x[2]>> /\ x[2] \in Nat /\ (y \in child[w] => x[2] < attempt[j])
        /\ y \in left[w] => y = <<j, y[2]>> /\ y[2] \in Nat /\ (x \in child[v] => y[2] < attempt[j])
    BY <1>2, <2>1, Zenon DEF Behind
  <2>4. CASE x \in child[v] /\ y \in child[w]
    BY <2>2, <2>4, Zenon DEF Leased, Held
  <2>5. CASE x \in child[v] /\ y \in left[w]
    <3>1. x[2] = attempt[j]
      BY <2>2, <2>5
    <3> QED BY <2>1, <2>3, <2>5, <3>1
  <2>6. CASE x \in left[v] /\ y \in child[w]
    <3>1. y[2] = attempt[j]
      BY <2>2, <2>6
    <3> QED BY <2>3, <2>6, <3>1
  <2>7. CASE x \in left[v] /\ y \in left[w]
    <3>1. CASE x[2] = y[2]
      <4>1. v = w
        BY <1>2, <2>1, <2>7, <3>1, Zenon DEF Behind
      <4> QED BY <2>3, <2>7, <3>1, <4>1, Zenon
    <3>2. CASE x[2] # y[2]
      BY <2>3, <2>7, <3>2
    <3> QED BY <3>1, <3>2, Zenon
  <2> QED BY <2>4, <2>5, <2>6, <2>7, Zenon DEF Executions
<1>3. [WorkerNext]_allvars => [Next]_vars
  BY OneStatement, Zenon
<1> QED BY <1>1, <1>2, <1>3, SoleStart, SoleStep, BehindStep, NextType, PTL DEF WorkerSpec

\* The supervisor only sends statements: every behaviour of it is, on the table,
\* a behaviour of JobQueue, so that all that is proved of the table under
\* arbitrary callers holds under the supervisor, whatever fails.
THEOREM SupervisorImplementsQueue == WorkerSpec => Spec
<1>1. WorkerInit => Init
  BY Zenon DEF WorkerInit
<1> QED BY <1>1, OneStatement, PTL DEF WorkerSpec, Spec

\* What an application may rely on, and the limits of keys, hold of the whole:
\* workers that fail, die, lose replies and report late included.
THEOREM SupervisorKeepsPromises == WorkerSpec => ImplementsLifecycle /\ []KeyedLimit
<1> QED BY SupervisorImplementsQueue, QueueImplementsLifecycle, AdmissionCorrect, PTL
=============================================================================
