----------------------------- MODULE RedisProofs ----------------------------
(***************************************************************************)
(* The properties of RedisBackend for any jobs, clients and levels, and    *)
(* that it implements JobLifecycle.                                        *)
(***************************************************************************)
EXTENDS RedisLifecycle, TLAPS

\* The part of RedisTypeOK the argument uses.
Typed ==
  /\ ready \in [Level -> [Job -> {"none", "later", "due"}]]
  /\ leased \in [Job -> {"none", "live", "expired"}]
  /\ payload \subseteq Job
  /\ claimed \in [Client -> SUBSET Job] /\ held \in [Client -> SUBSET Job]
  /\ abandoning \in [Client -> SUBSET Job]

\* What the scripts keep for a job that was never reclaimed under a live client.
\* Between the two pipelines of abandon it is nowhere, and its client's alone.
Sound(j) ==
  /\ \A l, m \in Level : ready[l][j] # "none" /\ ready[m][j] # "none" => l = m
  /\ \A l \in Level : ready[l][j] # "none" => leased[j] = "none" /\ j \in payload
  /\ leased[j] # "none" => j \in payload
  /\ \A c \in Client : j \in claimed[c] \cup held[c] => leased[j] # "none"
  /\ \A c \in Client : j \in abandoning[c] =>
        j \in payload /\ leased[j] = "none" /\ \A l \in Level : ready[l][j] = "none"
  /\ \A c, d \in Client : j \in Has(c) /\ j \in Has(d) => c = d
  /\ j \in payload \ dropped =>
        \/ \E l \in Level : ready[l][j] # "none"
        \/ leased[j] # "none"
        \/ \E c \in Client : j \in abandoning[c]

RedisInv == Typed /\ \A j \in Job \ overtaken : Sound(j)

-----------------------------------------------------------------------------
\* The clamp of Backend::level: every priority has a level.
LEMMA LevelInRange == \A priority \in Priority : level(priority) \in Level
  BY RedisConstants DEF Priority, level, Level

\* There is a most urgent level, to which reclaim and abandon return jobs.
LEMMA LevelZero == 0 \in Level
  BY RedisConstants DEF Level

\* A job whose rows and clients a step leaves alone stays sound.
LEMMA Untouched ==
  ASSUME NEW j \in Job, Sound(j), UNCHANGED clients,
         \A l \in Level : ready'[l][j] = ready[l][j], leased'[j] = leased[j],
         j \in payload' <=> j \in payload, dropped' = dropped
  PROVE  Sound(j)'
  BY DEF Sound, Has, clients

\* Nothing is enqueued at first.
LEMMA RedisStart == Init => RedisInv
  BY DEF Init, RedisInv, Typed, Sound, Has

\* enqueue keeps the invariant: the id is new to Redis and to every client.
LEMMA RedisEnqueue ==
  ASSUME RedisInv, NEW j \in Job, NEW priority \in Priority, NEW score \in {"due", "later"},
         enqueue(j, priority, score)
  PROVE  RedisInv'
<1>1. level(priority) \in Level
  BY LevelInRange
<1> DEFINE lv == level(priority)
<1>2. /\ ready' = AddReady(lv, {j}, score) /\ payload' = payload \cup {j}
      /\ j \notin payload /\ leased[j] = "none" /\ \A l \in Level : ready[l][j] = "none"
      /\ \A c \in Client : j \notin Has(c)
      /\ UNCHANGED <<leased, claimed, held, abandoning, overtaken, dropped>>
  BY DEF enqueue, Known, Queued, clients, ghosts
<1> HIDE DEF lv
<1>3. Typed'
  BY <1>1, <1>2 DEF RedisInv, Typed, AddReady, lv
<1>4. ASSUME NEW i \in Job \ overtaken' PROVE Sound(i)'
  <2>1. Sound(i)
    BY <1>2 DEF RedisInv
  <2>2. \A l \in Level : ready'[l][i] = IF l = lv /\ i = j THEN score ELSE ready[l][i]
    BY <1>1, <1>2 DEF RedisInv, Typed, AddReady
  <2>3. CASE i = j
    BY <1>1, <1>2, <2>1, <2>2, <2>3, Zenon DEF Sound, Has, lv
  <2>4. CASE i # j
    BY <1>2, <2>1, <2>2, <2>4, Untouched DEF clients
  <2> QED BY <2>3, <2>4
<1> QED BY <1>3, <1>4 DEF RedisInv

\* Time keeps it: a score or an expiry passes, and stays where it is.
LEMMA RedisComesDue ==
  ASSUME RedisInv, NEW j \in Job, NEW lv \in Level, ComesDue(lv, j) PROVE RedisInv'
<1>1. /\ ready' = AddReady(lv, {j}, "due") /\ ready[lv][j] = "later"
      /\ UNCHANGED <<leased, payload, claimed, held, abandoning, overtaken, dropped>>
  BY DEF ComesDue, clients, ghosts
<1>2. Typed'
  BY <1>1 DEF RedisInv, Typed, AddReady
<1>3. ASSUME NEW i \in Job, NEW l \in Level PROVE ready'[l][i] # "none" <=> ready[l][i] # "none"
  BY <1>1 DEF RedisInv, Typed, AddReady
<1>4. ASSUME NEW i \in Job \ overtaken' PROVE Sound(i)'
  <2>1. Sound(i) /\ i \in Job
    BY <1>1 DEF RedisInv
  <2>2. \A l \in Level : ready'[l][i] = "none" <=> ready[l][i] = "none"
    BY <1>3, <2>1
  <2>3. \A c \in Client : Has(c)' = Has(c)
    BY <1>1 DEF Has
  <2> QED BY <1>1, <2>1, <2>2, <2>3, Zenon DEF Sound
<1> QED BY <1>2, <1>4 DEF RedisInv

\* So does the expiry of a lease: the id stays among the leases.
LEMMA RedisLeaseExpires ==
  ASSUME RedisInv, NEW j \in Job, LeaseExpires(j) PROVE RedisInv'
<1>1. /\ leased' = SetLease({j}, "expired") /\ leased[j] = "live"
      /\ UNCHANGED <<ready, payload, claimed, held, abandoning, overtaken, dropped>>
  BY DEF LeaseExpires, clients, ghosts
<1>2. Typed'
  BY <1>1 DEF RedisInv, Typed, SetLease
<1>3. ASSUME NEW i \in Job PROVE leased'[i] # "none" <=> leased[i] # "none"
  BY <1>1 DEF RedisInv, Typed, SetLease
<1>4. ASSUME NEW i \in Job \ overtaken' PROVE Sound(i)'
  BY <1>1, <1>3, Zenon DEF RedisInv, Sound, Has
<1> QED BY <1>2, <1>4 DEF RedisInv

\* renew keeps it: only ids that are leased are touched.
LEMMA RedisRenew == ASSUME RedisInv, NEW c \in Client, renew(c) PROVE RedisInv'
<1>1. /\ leased' = SetLease({j \in held[c] : leased[j] # "none"}, "live")
      /\ UNCHANGED <<ready, payload, claimed, held, abandoning, overtaken, dropped>>
  BY DEF renew, RENEW, clients, ghosts
<1>2. Typed'
  BY <1>1 DEF RedisInv, Typed, SetLease
<1>3. ASSUME NEW i \in Job PROVE leased'[i] # "none" <=> leased[i] # "none"
  BY <1>1 DEF RedisInv, Typed, SetLease
<1>4. ASSUME NEW i \in Job \ overtaken' PROVE Sound(i)'
  BY <1>1, <1>3 DEF RedisInv, Sound, Has
<1> QED BY <1>2, <1>4 DEF RedisInv

-----------------------------------------------------------------------------
\* CLAIM keeps it: a job that is due is leased to nobody, so nobody has it, and
\* it leaves the one level it was at.
LEMMA RedisClaim ==
  ASSUME RedisInv, NEW c \in Client, NEW S \in [Level -> SUBSET Job], NEW limit,
         Claim(c, S, limit)
  PROVE  RedisInv'
<1> DEFINE ids == UNION {S[l] : l \in Level}
<1>1. /\ ready' = [l \in Level |-> [j \in Job |-> IF j \in S[l] THEN "none" ELSE ready[l][j]]]
      /\ leased' = SetLease(ids, "live") /\ claimed' = [claimed EXCEPT ![c] = ids]
      /\ \A l \in Level : S[l] \subseteq At(l, "due")
      /\ claimed[c] = {} /\ abandoning[c] = {}
      /\ UNCHANGED <<payload, held, abandoning, overtaken, dropped>>
  BY DEF Claim, Idle, Takes, ghosts
<1>2. ids \in SUBSET Job
  OBVIOUS
<1>3. \A i \in ids : \E l \in Level : i \in S[l] /\ ready[l][i] = "due"
  BY <1>1 DEF At
<1>4. ASSUME NEW i, NEW l \in Level, i \in S[l] PROVE i \in ids
  BY <1>4
<1> HIDE DEF ids
<1>5. Typed'
  BY <1>1, <1>2 DEF RedisInv, Typed, SetLease
<1>6. ASSUME NEW i \in Job \ overtaken' PROVE Sound(i)'
  <2>1. Sound(i)
    BY <1>1 DEF RedisInv
  <2>2. \A l \in Level : ready'[l][i] = IF i \in S[l] THEN "none" ELSE ready[l][i]
    BY <1>1
  <2>3. leased'[i] = IF i \in ids THEN "live" ELSE leased[i]
    BY <1>1 DEF SetLease
  <2>4. \A d \in Client : claimed'[d] = IF d = c THEN ids ELSE claimed[d]
    BY <1>1 DEF RedisInv, Typed
  <2>5. CASE i \in ids
    <3>1. PICK l \in Level : i \in S[l] /\ ready[l][i] = "due"
      BY <1>3, <2>5
    <3>2. leased[i] = "none" /\ i \in payload /\ \A d \in Client : i \notin Has(d)
      BY <2>1, <3>1 DEF Sound, Has
    <3>3. \A m \in Level : ready'[m][i] = "none"
      BY <2>1, <2>2, <3>1 DEF Sound
    <3> QED BY <1>1, <2>3, <2>4, <2>5, <3>2, <3>3 DEF Sound, Has
  <2>6. CASE i \notin ids
    <3>1. \A l \in Level : ready'[l][i] = ready[l][i]
      BY <1>4, <2>2, <2>6
    <3>2. \A d \in Client : i \in claimed'[d] <=> i \in claimed[d]
      BY <1>1, <2>4, <2>6
    <3> QED BY <1>1, <2>1, <2>3, <2>6, <3>1, <3>2 DEF Sound, Has
  <2> QED BY <2>5, <2>6
<1> QED BY <1>5, <1>6 DEF RedisInv

\* The reads of fetch keep it, and so does their failure: the leases stay.
LEMMA RedisFetch ==
  ASSUME RedisInv, NEW c \in Client, FetchReads(c) \/ FetchErrs(c) PROVE RedisInv'
<1>1. /\ claimed' = [claimed EXCEPT ![c] = {}]
      /\ held' \in {held, [held EXCEPT ![c] = @ \cup claimed[c]]}
      /\ UNCHANGED <<ready, leased, payload, abandoning, overtaken, dropped>>
  BY DEF FetchReads, FetchErrs, redis, ghosts
<1>2. Typed'
  BY <1>1 DEF RedisInv, Typed
<1>3. \A d \in Client : claimed'[d] \cup held'[d] \subseteq claimed[d] \cup held[d]
  BY <1>1 DEF RedisInv, Typed
<1>4. ASSUME NEW i \in Job \ overtaken' PROVE Sound(i)'
  BY <1>1, <1>3 DEF RedisInv, Sound, Has
<1> QED BY <1>2, <1>4 DEF RedisInv

\* The end of a client keeps it: what it was abandoning is on record.
LEMMA RedisDies == ASSUME RedisInv, NEW c \in Client, Dies(c) PROVE RedisInv'
<1>1. /\ claimed' = [claimed EXCEPT ![c] = {}] /\ held' = [held EXCEPT ![c] = {}]
      /\ abandoning' = [abandoning EXCEPT ![c] = {}] /\ dropped' = dropped \cup abandoning[c]
      /\ UNCHANGED <<ready, leased, payload, overtaken>>
  BY DEF Dies, redis
<1>2. Typed'
  BY <1>1 DEF RedisInv, Typed
<1>3. ASSUME NEW i \in Job \ overtaken' PROVE Sound(i)'
  BY <1>1 DEF RedisInv, Typed, Sound, Has
<1> QED BY <1>2, <1>3 DEF RedisInv

-----------------------------------------------------------------------------
\* complete keeps it: what the client held was its alone and queued nowhere.
LEMMA RedisComplete ==
  ASSUME RedisInv, NEW c \in Client, NEW S \in SUBSET Job, complete(c, S) PROVE RedisInv'
<1>1. /\ leased' = SetLease(S, "none") /\ payload' = payload \ S /\ S \subseteq held[c]
      /\ held' = [held EXCEPT ![c] = @ \ S] /\ claimed[c] = {} /\ abandoning[c] = {}
      /\ UNCHANGED <<ready, claimed, abandoning, overtaken, dropped>>
  BY DEF complete, LetGo, Idle
<1>2. Typed'
  BY <1>1 DEF RedisInv, Typed, SetLease
<1>3. ASSUME NEW i \in Job \ overtaken' PROVE Sound(i)'
  <2>1. Sound(i) /\ leased'[i] = IF i \in S THEN "none" ELSE leased[i]
    BY <1>1 DEF RedisInv, SetLease
  <2>2. \A d \in Client : held'[d] = IF d = c THEN held[c] \ S ELSE held[d]
    BY <1>1 DEF RedisInv, Typed
  <2>3. CASE i \in S
    <3>1. /\ leased[i] # "none" /\ \A l \in Level : ready[l][i] = "none"
          /\ \A d \in Client : i \in Has(d) => d = c
      BY <1>1, <2>1, <2>3 DEF Sound, Has
    <3>2. \A d \in Client : i \notin Has(d)'
      BY <1>1, <2>2, <2>3, <3>1 DEF Has
    <3> QED BY <1>1, <2>1, <2>3, <3>1, <3>2 DEF Sound, Has
  <2>4. CASE i \notin S
    BY <1>1, <2>1, <2>2, <2>4 DEF Sound, Has
  <2> QED BY <2>3, <2>4
<1> QED BY <1>2, <1>3 DEF RedisInv

\* The first pipeline of abandon keeps it.
LEMMA RedisAbandonLeases ==
  ASSUME RedisInv, NEW c \in Client, NEW S \in SUBSET Job, AbandonLeases(c, S) PROVE RedisInv'
<1>1. /\ leased' = SetLease(S, "none") /\ S \subseteq held[c]
      /\ held' = [held EXCEPT ![c] = @ \ S] /\ claimed[c] = {} /\ abandoning[c] = {}
      /\ abandoning' = [abandoning EXCEPT ![c] = S]
      /\ UNCHANGED <<ready, payload, claimed, overtaken, dropped>>
  BY DEF AbandonLeases, LetGo, Idle, ghosts
<1>2. Typed'
  BY <1>1 DEF RedisInv, Typed, SetLease
<1>3. ASSUME NEW i \in Job \ overtaken' PROVE Sound(i)'
  <2>1. Sound(i) /\ leased'[i] = IF i \in S THEN "none" ELSE leased[i]
    BY <1>1 DEF RedisInv, SetLease
  <2>2. \A d \in Client : /\ held'[d] = IF d = c THEN held[c] \ S ELSE held[d]
                          /\ abandoning'[d] = IF d = c THEN S ELSE abandoning[d]
    BY <1>1 DEF RedisInv, Typed
  <2>3. CASE i \in S
    <3>1. /\ leased[i] # "none" /\ i \in payload /\ \A l \in Level : ready[l][i] = "none"
          /\ \A d \in Client : i \in Has(d) => d = c
      BY <1>1, <2>1, <2>3 DEF Sound, Has
    <3>2. \A d \in Client : i \in Has(d)' => d = c
      BY <1>1, <2>2, <3>1 DEF Has
    <3>3. \A d \in Client : i \notin claimed'[d] \cup held'[d]
      BY <1>1, <2>2, <2>3, <3>1 DEF Has
    <3>4. i \in abandoning'[c]
      BY <2>2, <2>3
    <3> QED BY <1>1, <2>1, <2>3, <3>1, <3>2, <3>3, <3>4 DEF Sound
  <2>4. CASE i \notin S
    BY <1>1, <2>1, <2>2, <2>4 DEF Sound, Has
  <2> QED BY <2>3, <2>4
<1> QED BY <1>2, <1>3 DEF RedisInv

\* The second pipeline of abandon keeps it: the ids were nowhere else.
LEMMA RedisAbandonReady == ASSUME RedisInv, NEW c \in Client, AbandonReady(c) PROVE RedisInv'
<1> DEFINE S == abandoning[c]
<1>1. /\ ready' = AddReady(0, S, "due") /\ abandoning' = [abandoning EXCEPT ![c] = {}]
      /\ UNCHANGED <<leased, payload, claimed, held, overtaken, dropped>>
  BY DEF AbandonReady, ghosts
<1>2. Typed'
  BY <1>1, LevelZero DEF RedisInv, Typed, AddReady
<1>3. ASSUME NEW i \in Job \ overtaken' PROVE Sound(i)'
  <2>1. Sound(i)
    BY <1>1 DEF RedisInv
  <2>2. \A l \in Level : ready'[l][i] = IF l = 0 /\ i \in S THEN "due" ELSE ready[l][i]
    BY <1>1 DEF RedisInv, Typed, AddReady
  <2>3. \A d \in Client : abandoning'[d] = IF d = c THEN {} ELSE abandoning[d]
    BY <1>1 DEF RedisInv, Typed
  <2>4. CASE i \in S
    <3>1. \A d \in Client : i \in abandoning[d] => d = c
      BY <2>1, <2>4 DEF Sound, Has
    <3> QED BY <1>1, <2>1, <2>2, <2>3, <2>4, <3>1, LevelZero DEF Sound, Has
  <2>5. CASE i \notin S
    BY <1>1, <2>1, <2>2, <2>3, <2>5 DEF Sound, Has
  <2> QED BY <2>4, <2>5
<1> QED BY <1>2, <1>3 DEF RedisInv

\* retry keeps it: the job goes from its lease to one level.
LEMMA RedisRetry ==
  ASSUME RedisInv, NEW c \in Client, NEW j \in Job, NEW priority \in Priority,
         NEW score \in {"due", "later"}, retry(c, j, priority, score)
  PROVE  RedisInv'
<1> DEFINE lv == level(priority)
<1>1. lv \in Level
  BY LevelInRange
<1>2. /\ leased' = SetLease({j}, "none") /\ ready' = AddReady(lv, {j}, score) /\ j \in held[c]
      /\ held' = [held EXCEPT ![c] = @ \ {j}] /\ claimed[c] = {} /\ abandoning[c] = {}
      /\ UNCHANGED <<payload, claimed, abandoning, overtaken, dropped>>
  BY DEF retry, LetGo, Idle, ghosts
<1> HIDE DEF lv
<1>3. Typed'
  BY <1>1, <1>2 DEF RedisInv, Typed, SetLease, AddReady
<1>4. ASSUME NEW i \in Job \ overtaken' PROVE Sound(i)'
  <2>1. Sound(i) /\ leased'[i] = IF i = j THEN "none" ELSE leased[i]
    BY <1>2 DEF RedisInv, SetLease
  <2>2. \A l \in Level : ready'[l][i] = IF l = lv /\ i = j THEN score ELSE ready[l][i]
    BY <1>1, <1>2 DEF RedisInv, Typed, AddReady
  <2>3. \A d \in Client : held'[d] = IF d = c THEN held[c] \ {j} ELSE held[d]
    BY <1>2 DEF RedisInv, Typed
  <2>4. CASE i = j
    <3>1. /\ leased[i] # "none" /\ i \in payload /\ \A l \in Level : ready[l][i] = "none"
          /\ \A d \in Client : i \in Has(d) => d = c
      BY <1>2, <2>1, <2>4 DEF Sound, Has
    <3>2. \A d \in Client : i \notin Has(d)'
      BY <1>2, <2>3, <2>4, <3>1 DEF Has
    <3> QED BY <1>1, <1>2, <2>1, <2>2, <2>4, <3>1, <3>2, Zenon DEF Sound, Has
  <2>5. CASE i # j
    <3>1. \A l \in Level : ready'[l][i] = ready[l][i]
      BY <2>2, <2>5
    <3>2. \A d \in Client : i \in held'[d] <=> i \in held[d]
      BY <2>3, <2>5
    <3> QED BY <1>2, <2>1, <2>5, <3>1, <3>2, Zenon DEF Sound, Has
  <2> QED BY <2>4, <2>5
<1> QED BY <1>3, <1>4 DEF RedisInv

\* reclaim_expired keeps it: a job taken from a live client is set apart, and any
\* other expired one is in nobody's hands.
LEMMA RedisReclaim ==
  ASSUME RedisInv, NEW S \in SUBSET Job, NEW limit, reclaim_expired(S, limit) PROVE RedisInv'
<1>1. /\ leased' = SetLease(S, "none") /\ ready' = AddReady(0, S, "due")
      /\ \A i \in S : leased[i] = "expired"
      /\ overtaken' = overtaken \cup {j \in S : \E c \in Client : j \in claimed[c] \cup held[c]}
      /\ UNCHANGED <<payload, claimed, held, abandoning, dropped>>
  BY DEF reclaim_expired, RECLAIM, Leased, clients
<1>2. Typed'
  BY <1>1, LevelZero DEF RedisInv, Typed, SetLease, AddReady
<1>3. ASSUME NEW i \in Job \ overtaken' PROVE Sound(i)'
  <2>1. Sound(i) /\ leased'[i] = IF i \in S THEN "none" ELSE leased[i]
    BY <1>1 DEF RedisInv, SetLease
  <2>2. \A l \in Level : ready'[l][i] = IF l = 0 /\ i \in S THEN "due" ELSE ready[l][i]
    BY <1>1 DEF RedisInv, Typed, AddReady
  <2>3. CASE i \in S
    <3>1. \A c \in Client : i \notin Has(c)
      BY <1>1, <1>3, <2>1, <2>3 DEF Sound, Has
    <3>2. i \in payload /\ \A l \in Level : ready[l][i] = "none"
      BY <1>1, <2>1, <2>3 DEF Sound
    <3> QED BY <1>1, <2>1, <2>2, <2>3, <3>1, <3>2, LevelZero DEF Sound, Has
  <2>4. CASE i \notin S
    BY <1>1, <2>1, <2>2, <2>4 DEF Sound, Has
  <2> QED BY <2>3, <2>4
<1> QED BY <1>2, <1>3 DEF RedisInv

-----------------------------------------------------------------------------
\* Every step keeps the invariant.
LEMMA RedisStep == RedisInv /\ [Next]_vars => RedisInv'
<1> SUFFICES ASSUME RedisInv, [Next]_vars PROVE RedisInv'
  OBVIOUS
<1>1. CASE UNCHANGED vars
  BY <1>1 DEF vars, redis, clients, ghosts, RedisInv, Typed, Sound, Has
<1>2. ASSUME NEW c \in Client,
             \/ FetchReads(c) \/ FetchErrs(c) \/ renew(c) \/ AbandonReady(c) \/ Dies(c)
             \/ \E S \in SUBSET Job : complete(c, S) \/ discard(c, S) \/ AbandonLeases(c, S)
      PROVE  RedisInv'
  BY <1>2, RedisFetch, RedisRenew, RedisAbandonReady, RedisDies, RedisComplete,
     RedisAbandonLeases DEF discard
<1> QED
  BY <1>1, <1>2, RedisEnqueue, RedisComesDue, RedisLeaseExpires, RedisReclaim, RedisClaim,
     RedisRetry DEF Next

\* The invariant holds in every reachable state.
LEMMA RedisCorrect == Spec => []RedisInv
  BY RedisStart, RedisStep, PTL DEF Spec

-----------------------------------------------------------------------------
\* A job is queued at one level or leased, never both, for any number of clients
\* and levels.
THEOREM RedisOnePlace == Spec => []OnePlace
<1>1. RedisInv => OnePlace
  BY DEF RedisInv, Sound, OnePlace, Queued
<1> QED BY <1>1, RedisCorrect, PTL

\* A job is in the hands of one client, and leased while it is.
THEOREM RedisSoleHolder == Spec => []SoleHolder
<1>1. RedisInv => SoleHolder
  BY DEF RedisInv, Sound, SoleHolder
<1> QED BY <1>1, RedisCorrect, PTL

\* An accepted job is queued, leased or being abandoned until it is settled,
\* unless its client dies between the two pipelines of abandon.
THEOREM RedisNeverLost == Spec => []NeverLost
<1>1. RedisInv => NeverLost
  BY DEF RedisInv, Typed, Sound, NeverLost, Queued
<1> QED BY <1>1, RedisCorrect, PTL

\* Whatever a CLAIM can return has a payload.
THEOREM RedisClaimable == Spec => []ClaimableHasPayload
<1>1. RedisInv => ClaimableHasPayload
  BY DEF RedisInv, Sound, ClaimableHasPayload, Queued
<1> QED BY <1>1, RedisCorrect, PTL
-----------------------------------------------------------------------------
(***************************************************************************)
(* The attempt hash.  It is counted in the CLAIM script, once for each     *)
(* level an id is found at.                                                *)
(***************************************************************************)
INSTANCE FiniteSetTheorems

\* What RedisTypeOK says beyond Typed.
Counted ==
  /\ attempt \in [Job -> 0 .. MaxAttempt]
  /\ settled \subseteq Job /\ overtaken \subseteq Job /\ dropped \subseteq Job
  /\ \A j \in Job \ overtaken : attempt[j] # 0 => j \in payload

\* CLAIM counts a claim for the ids it takes and for no other; what it takes was
\* queued, so it has a payload.
LEMMA CountClaim ==
  ASSUME RedisInv, Counted, NEW c \in Client, NEW S \in [Level -> SUBSET Job], NEW limit,
         Claim(c, S, limit)
  PROVE  Counted'
<1> DEFINE at(j) == {l \in Level : j \in S[l]}
           times(j) == Cardinality(at(j))
<1>1. /\ attempt' = [j \in Job |-> attempt[j] + times(j)]
      /\ \A j \in UNION {S[l] : l \in Level} : attempt[j] + times(j) <= MaxAttempt
      /\ \A l \in Level : S[l] \subseteq At(l, "due")
      /\ UNCHANGED <<payload, settled, overtaken, dropped>>
  BY DEF Claim, Takes, ghosts
<1>2. IsFiniteSet(Level)
  BY FS_Interval, RedisConstants DEF Level
<1>3. ASSUME NEW j \in Job
      PROVE  /\ times(j) \in Nat
             /\ at(j) = {} => attempt'[j] = attempt[j]
             /\ at(j) # {} => attempt'[j] \in 0 .. MaxAttempt /\ (j \in payload \/ j \in overtaken)
  <2>1. times(j) \in Nat
    <3>1. at(j) \in SUBSET Level
      OBVIOUS
    <3> QED BY <1>2, <3>1, FS_Subset, FS_CardinalityType
  <2>2. at(j) = {} => times(j) = 0
    BY FS_EmptySet
  <2>3. attempt[j] \in 0 .. MaxAttempt /\ attempt'[j] = attempt[j] + times(j)
    BY <1>1 DEF Counted
  <2>4. ASSUME at(j) # {}
        PROVE  attempt[j] + times(j) <= MaxAttempt /\ (j \in payload \/ j \in overtaken)
    <3>1. PICK l \in Level : j \in S[l]
      BY <2>4
    <3>2. ready[l][j] = "due"
      BY <1>1, <3>1 DEF At
    <3>3. j \in UNION {S[m] : m \in Level}
      BY <3>1
    <3>4. j \in payload \/ j \in overtaken
      BY <3>2 DEF RedisInv, Sound
    <3> QED BY <1>1, <3>3, <3>4
  <2> HIDE DEF times, at
  <2> QED BY <2>1, <2>2, <2>3, <2>4, RedisConstants
<1> HIDE DEF times, at
<1>4. \A j \in Job : attempt'[j] \in 0 .. MaxAttempt
  BY <1>3 DEF Counted
<1>5. attempt' \in [Job -> 0 .. MaxAttempt]
  BY <1>1, <1>4
<1> QED BY <1>1, <1>3, <1>5 DEF Counted

\* Every other step leaves the hash, or empties fields of it.
LEMMA CountStep == RedisInv /\ Counted /\ [Next]_vars => Counted'
<1> SUFFICES ASSUME RedisInv, Counted, [Next]_vars PROVE Counted'
  OBVIOUS
<1>1. CASE UNCHANGED vars
  BY <1>1 DEF vars, redis, ghosts, Counted
<1>2. ASSUME NEW j \in Job, NEW priority \in Priority, NEW score \in {"due", "later"},
             enqueue(j, priority, score)
      PROVE  Counted'
  BY <1>2 DEF enqueue, ghosts, Counted
<1>3. ASSUME NEW j \in Job, LeaseExpires(j) \/ \E l \in Level : ComesDue(l, j) PROVE Counted'
  BY <1>3 DEF LeaseExpires, ComesDue, ghosts, Counted
<1>4. ASSUME NEW S \in SUBSET Job, NEW limit, reclaim_expired(S, limit) PROVE Counted'
  BY <1>4 DEF reclaim_expired, Counted
<1>5. ASSUME NEW c \in Client, NEW S \in SUBSET Job, complete(c, S) PROVE Counted'
  BY <1>5, RedisConstants DEF complete, Counted
<1>6. ASSUME NEW c \in Client,
             \/ FetchReads(c) \/ FetchErrs(c) \/ renew(c) \/ AbandonReady(c)
             \/ \E S \in SUBSET Job : AbandonLeases(c, S)
             \/ \E j \in Job, priority \in Priority, score \in {"due", "later"} :
                  retry(c, j, priority, score)
      PROVE  Counted'
  BY <1>6 DEF FetchReads, FetchErrs, renew, AbandonReady, AbandonLeases, retry, redis, ghosts,
              Counted
<1>7. ASSUME NEW c \in Client, Dies(c) PROVE Counted'
  BY <1>7 DEF Dies, redis, Counted, RedisInv, Typed
<1> QED
  BY <1>1, <1>2, <1>3, <1>4, <1>5, <1>6, <1>7, CountClaim DEF Next, discard

\* The keys of Redis hold what they should, and a job's attempt counter goes with
\* its payload.
THEOREM RedisTypeCorrect == Spec => []RedisTypeOK
<1>1. Init => Counted
  BY RedisConstants DEF Init, Counted
<1>2. RedisInv /\ Counted => RedisTypeOK
  BY DEF RedisInv, Typed, Counted, RedisTypeOK
<1> QED BY <1>1, <1>2, RedisCorrect, CountStep, PTL DEF Spec

-----------------------------------------------------------------------------
(***************************************************************************)
(* The life of a job.                                                      *)
(***************************************************************************)
\* A finished job has no payload left; with RedisInv, nobody has a lease on it.
Gone == \A j \in settled \ overtaken : j \notin payload

\* No step brings the payload of a finished job back.
LEMMA GoneStep == RedisInv /\ Gone /\ [Next]_vars => Gone'
<1> SUFFICES ASSUME RedisInv, Gone, [Next]_vars PROVE Gone'
  OBVIOUS
<1>1. CASE UNCHANGED <<payload, settled>> /\ overtaken \subseteq overtaken'
  BY <1>1, Zenon DEF Gone
<1>2. ASSUME NEW j \in Job, NEW priority \in Priority, NEW score \in {"due", "later"},
             enqueue(j, priority, score)
      PROVE  Gone'
  BY <1>2, Zenon DEF enqueue, Known, ghosts, Gone
<1>3. ASSUME NEW c \in Client, NEW S \in SUBSET Job, complete(c, S) PROVE Gone'
  BY <1>3, Zenon DEF complete, Gone
<1>4. ASSUME \/ \E j \in Job, l \in Level : ComesDue(l, j)
             \/ \E j \in Job : LeaseExpires(j)
             \/ \E S \in SUBSET Job, limit \in 1 .. MaxLimit : reclaim_expired(S, limit)
             \/ UNCHANGED vars
      PROVE  UNCHANGED <<payload, settled>> /\ overtaken \subseteq overtaken'
  BY <1>4, Zenon DEF ComesDue, LeaseExpires, reclaim_expired, vars, redis, ghosts
<1>5. ASSUME NEW c \in Client,
             \/ \E S \in [Level -> SUBSET Job], limit \in 1 .. MaxLimit : Claim(c, S, limit)
             \/ FetchReads(c) \/ FetchErrs(c) \/ renew(c) \/ AbandonReady(c) \/ Dies(c)
             \/ \E S \in SUBSET Job : AbandonLeases(c, S)
             \/ \E j \in Job, priority \in Priority, score \in {"due", "later"} :
                  retry(c, j, priority, score)
      PROVE  UNCHANGED <<payload, settled>> /\ overtaken \subseteq overtaken'
  BY <1>5, Zenon DEF Claim, FetchReads, FetchErrs, renew, AbandonReady, Dies, AbandonLeases, retry,
                     redis, ghosts
<1> QED BY <1>1, <1>2, <1>3, <1>4, <1>5, Zenon DEF Next, discard

\* What the life of a job sees of a step.
LifeStep == [Lifecycle!LifeNext]_(Lifecycle!life)

\* A step that gives and takes no lease and no payload leaves the life of every
\* job as it is.
LEMMA LifeStays ==
  ASSUME UNCHANGED <<payload, settled, overtaken>>,
         \A j \in Job : leased'[j] = "none" <=> leased[j] = "none"
  PROVE  LifeStep
<1>1. Status' = Status
  BY Zenon DEF Status
<1> QED BY <1>1, Zenon DEF LifeStep, Lifecycle!life

\* A job that has a lease and was not taken from its client is running.
LEMMA LeasedRuns ==
  ASSUME RedisInv, Gone, NEW j \in Job, j \notin overtaken, leased[j] # "none"
  PROVE  Status[j] = "running" /\ j \in payload /\ j \notin settled
BY Zenon DEF RedisInv, Sound, Gone, Status

\* enqueue submits the job.
LEMMA LifeEnqueue ==
  ASSUME NEW j \in Job, NEW priority, NEW score, enqueue(j, priority, score)
  PROVE  LifeStep
<1>1. /\ j \notin payload /\ j \notin settled /\ leased[j] = "none"
      /\ payload' = payload \cup {j} /\ UNCHANGED <<leased, settled, overtaken>>
  BY Zenon DEF enqueue, Known, ghosts
<1>2. CASE j \in overtaken
  <2>1. Status' = Status
    BY <1>1, <1>2, Zenon DEF Status
  <2> QED BY <1>1, <2>1, Zenon DEF LifeStep, Lifecycle!life
<1>3. CASE j \notin overtaken
  <2>1. Status[j] = "absent"
    BY <1>1, <1>3, Zenon DEF Status
  <2>2. Status' = Lifecycle!Becomes({j}, "available")
    BY <1>1, <1>3, Zenon DEF Status, Lifecycle!Becomes
  <2>3. Lifecycle!Submit({j})
    BY <1>1, <2>1, <2>2, Zenon DEF Lifecycle!Submit, Lifecycle!In
  <2> QED BY <2>3, Zenon DEF LifeStep, Lifecycle!LifeNext
<1> QED BY <1>2, <1>3, Zenon

\* CLAIM starts the jobs it takes: what is queued has a payload and no lease.
LEMMA LifeClaim ==
  ASSUME RedisInv, Gone, NEW c \in Client, NEW S \in [Level -> SUBSET Job], NEW limit,
         Claim(c, S, limit)
  PROVE  LifeStep
<1> DEFINE ids == UNION {S[l] : l \in Level}
           T == ids \ overtaken
<1>1. /\ leased' = SetLease(ids, "live") /\ \A l \in Level : S[l] \subseteq At(l, "due")
      /\ UNCHANGED <<payload, settled, overtaken>>
  BY Zenon DEF Claim, Takes, ghosts
<1>2. ids \in SUBSET Job
  OBVIOUS
<1>3. ASSUME NEW j \in T PROVE Status[j] = "available" /\ j \in Job /\ j \notin settled
  <2>1. PICK l \in Level : ready[l][j] = "due"
    BY <1>1, <1>3, Zenon DEF At
  <2>2. j \in Job /\ Sound(j) /\ j \notin overtaken
    BY <1>2, <1>3, Zenon DEF RedisInv
  <2>3. leased[j] = "none" /\ j \in payload
    BY <2>1, <2>2 DEF Sound
  <2> QED BY <2>2, <2>3, Zenon DEF Gone, Status
<1> HIDE DEF ids
<1>4. Status' = Lifecycle!Becomes(T, "running")
  <2>1. \A j \in Job : leased'[j] = IF j \in ids THEN "live" ELSE leased[j]
    BY <1>1, Zenon DEF SetLease
  <2>2. ASSUME NEW j \in Job PROVE Status'[j] = IF j \in T THEN "running" ELSE Status[j]
    <3>1. CASE j \in T
      BY <1>1, <1>3, <2>1, <3>1 DEF Status
    <3>2. CASE j \notin T
      BY <1>1, <2>1, <3>2, Zenon DEF Status
    <3> QED BY <3>1, <3>2, Zenon
  <2> QED BY <2>2, Zenon DEF Status, Lifecycle!Becomes
<1>5. Lifecycle!Room'
  BY Zenon DEF Lifecycle!Room
<1>6. Lifecycle!Start(T) /\ T \in SUBSET Job
  BY <1>1, <1>3, <1>4, <1>5, Zenon DEF Lifecycle!Start, Lifecycle!In, Lifecycle!DependsOn
<1> QED BY <1>6, Zenon DEF LifeStep, Lifecycle!LifeNext

\* complete and discard finish what their client holds.
LEMMA LifeComplete ==
  ASSUME RedisInv, Gone, NEW c \in Client, NEW S \in SUBSET Job, complete(c, S)
  PROVE  LifeStep
<1> DEFINE T == S \ overtaken
<1>1. /\ leased' = SetLease(S, "none") /\ payload' = payload \ S /\ S \subseteq held[c]
      /\ settled' = settled \cup S /\ overtaken' = overtaken
  BY Zenon DEF complete
<1>2. ASSUME NEW j \in T PROVE Status[j] = "running" /\ j \in Job
  <2>1. j \in Job /\ j \notin overtaken /\ leased[j] # "none"
    BY <1>1, Zenon DEF RedisInv, Sound
  <2> QED BY <2>1, LeasedRuns, Zenon
<1>3. Status' = Lifecycle!Becomes(T, "completed")
  <2>1. \A j \in Job : leased'[j] = IF j \in S THEN "none" ELSE leased[j]
    BY <1>1, Zenon DEF SetLease
  <2> QED BY <1>1, <2>1, Zenon DEF Status, Lifecycle!Becomes
<1>4. settled' \ overtaken' = (settled \ overtaken) \cup T
  BY <1>1, Zenon
<1>5. Lifecycle!Finish(T) /\ T \in SUBSET Job
  BY <1>2, <1>3, <1>4, Zenon DEF Lifecycle!Finish, Lifecycle!In
<1> QED BY <1>5, Zenon DEF LifeStep, Lifecycle!LifeNext

\* A step that takes leases away and finishes nothing returns the jobs to wait;
\* what is taken from a client that is still there is given up.
LEMMA LifeReturns ==
  ASSUME RedisInv, Gone, NEW S \in SUBSET Job, \A j \in S \ overtaken : leased[j] # "none",
         leased' = SetLease(S, "none"), UNCHANGED <<payload, settled>>,
         overtaken \subseteq overtaken', overtaken' \subseteq overtaken \cup S
  PROVE  LifeStep
<1> DEFINE T == S \ overtaken
<1>1. ASSUME NEW j \in T
      PROVE  Status[j] = "running" /\ j \in Job /\ j \in payload /\ j \notin settled
  BY LeasedRuns, Zenon
<1>2. \A j \in Job : leased'[j] = IF j \in S THEN "none" ELSE leased[j]
  BY Zenon DEF SetLease
<1>3. ASSUME NEW j \in Job
      PROVE  IF j \in T THEN Status'[j] \in {"available", "discarded"} ELSE Status'[j] = Status[j]
  <2>1. CASE j \in T
    BY <1>1, <1>2, <2>1, Zenon DEF Status
  <2>2. CASE j \notin T
    BY <1>2, <2>2, Zenon DEF Status
  <2> QED BY <2>1, <2>2, Zenon
<1>4. Status' \in [Job -> Lifecycle!Statuses]
  BY Zenon DEF Status, Lifecycle!Statuses
<1>5. settled' \ overtaken' = settled \ overtaken
  BY <1>1, Zenon
<1>6. Lifecycle!Return(T) /\ T \in SUBSET Job
  BY <1>1, <1>3, <1>4, <1>5, Zenon DEF Lifecycle!Return, Lifecycle!In, Lifecycle!Moves
<1> QED BY <1>6, Zenon DEF LifeStep, Lifecycle!LifeNext

\* Every step of the backend is a step in the life of its jobs, or none.
LEMMA LifeSteps == RedisInv /\ Gone /\ [Next]_vars => LifeStep
<1> SUFFICES ASSUME RedisInv, Gone, [Next]_vars PROVE LifeStep
  OBVIOUS
<1>1. ASSUME NEW j \in Job, LeaseExpires(j) \/ \E l \in Level : ComesDue(l, j)
      PROVE  LifeStep
  <2>1. UNCHANGED <<payload, settled, overtaken>>
    BY <1>1, Zenon DEF ComesDue, LeaseExpires, ghosts
  <2>2. \A i \in Job : leased'[i] = "none" <=> leased[i] = "none"
    BY <1>1 DEF ComesDue, LeaseExpires, SetLease
  <2> QED BY <2>1, <2>2, LifeStays, Zenon
<1>2. ASSUME NEW c \in Client,
             FetchReads(c) \/ FetchErrs(c) \/ renew(c) \/ AbandonReady(c) \/ Dies(c)
      PROVE  LifeStep
  <2>1. UNCHANGED <<payload, settled, overtaken>>
    BY <1>2, Zenon DEF FetchReads, FetchErrs, renew, AbandonReady, Dies, redis, ghosts
  <2>2. \A i \in Job : leased'[i] = "none" <=> leased[i] = "none"
    BY <1>2 DEF FetchReads, FetchErrs, renew, RENEW, AbandonReady, Dies, redis, SetLease
  <2> QED BY <2>1, <2>2, LifeStays, Zenon
<1>3. CASE UNCHANGED vars
  BY <1>3, LifeStays, Zenon DEF vars, redis, ghosts
<1>4. ASSUME NEW c \in Client, NEW j \in Job, NEW priority, NEW score,
             retry(c, j, priority, score)
      PROVE  LifeStep
  <2>1. /\ leased' = SetLease({j}, "none") /\ j \in held[c]
        /\ UNCHANGED <<payload, settled, overtaken>>
    BY <1>4, Zenon DEF retry, ghosts
  <2>2. \A i \in {j} \ overtaken : leased[i] # "none"
    BY <2>1, Zenon DEF RedisInv, Sound
  <2> QED BY <2>1, <2>2, LifeReturns, Zenon
<1>5. ASSUME NEW c \in Client, NEW S \in SUBSET Job, AbandonLeases(c, S) PROVE LifeStep
  <2>1. /\ leased' = SetLease(S, "none") /\ S \subseteq held[c]
        /\ UNCHANGED <<payload, settled, overtaken>>
    BY <1>5, Zenon DEF AbandonLeases, ghosts
  <2>2. \A i \in S \ overtaken : leased[i] # "none"
    BY <2>1, Zenon DEF RedisInv, Sound
  <2> QED BY <2>1, <2>2, LifeReturns, Zenon
<1>6. ASSUME NEW S \in SUBSET Job, NEW limit, reclaim_expired(S, limit) PROVE LifeStep
  <2>1. /\ leased' = SetLease(S, "none") /\ \A i \in S : leased[i] = "expired"
        /\ UNCHANGED <<payload, settled>>
        /\ overtaken \subseteq overtaken' /\ overtaken' \subseteq overtaken \cup S
    BY <1>6, Zenon DEF reclaim_expired, RECLAIM, Leased
  <2> QED BY <2>1, LifeReturns, Zenon
<1> QED BY <1>1, <1>2, <1>3, <1>4, <1>5, <1>6, LifeEnqueue, LifeClaim, LifeComplete, Zenon
        DEF Next, discard

\* The Redis backend implements the life of a job that the Postgres queue does,
\* for any number of jobs, clients and levels.
THEOREM RedisImplements == Spec => RedisImplementsLifecycle
<1>1. Init => Gone /\ Lifecycle!LifeInit
  <2>1. ASSUME Init PROVE Status = [j \in Job |-> "absent"]
    BY <2>1, Zenon DEF Init, Status
  <2> QED BY <2>1, Zenon DEF Init, Gone, Lifecycle!LifeInit
<1>2. RedisInv /\ Gone /\ [Next]_vars => [Lifecycle!LifeNext]_(Lifecycle!life)
  BY LifeSteps, Zenon DEF LifeStep
<1> QED BY <1>1, <1>2, RedisCorrect, GoneStep, PTL
        DEF Spec, RedisImplementsLifecycle, Lifecycle!LifeSpec
=============================================================================
