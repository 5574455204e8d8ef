---------------------------- MODULE RedisBackend ----------------------------
(***************************************************************************)
(* The Redis backend (gylo-redis/src/lib.rs): one sorted set of due times  *)
(* per priority level, one of lease expiries, and two hashes.  A Lua       *)
(* script or a MULTI pipeline is one step; fetch is a script and two       *)
(* reads, and abandon is two pipelines, so others come in between.         *)
(*                                                                         *)
(* Nothing in Redis names the holder of a lease.  A client is a worker     *)
(* that calls the backend with ids a fetch gave it, however late; Redis    *)
(* itself neither crashes nor loses writes here.                           *)
(***************************************************************************)
EXTENDS Integers, FiniteSets

CONSTANTS
  Job, Client,
  LEVELS,       \* priority levels, 0 the most urgent
  MaxLimit,     \* largest `limit` of fetch and reclaim_expired
  MaxAttempt    \* claims of one job (a bound of the model)

ASSUME RedisConstants ==
  LEVELS \in Nat \ {0} /\ MaxLimit \in Nat \ {0} /\ MaxAttempt \in Nat

VARIABLES
  ready,       \* ready[l][j]: "none", or a score in the future or the past
  leased,      \* leased[j]: "none", or an expiry in the future or the past
  payload,     \* ids with a field in the payload hash
  attempt,     \* the attempt hash; 0 where there is no field
  claimed,     \* claimed[c]: ids of c's fetch between the script and its reads
  held,        \* held[c]: ids c has fetched and not settled
  abandoning,  \* abandoning[c]: ids between the two pipelines of abandon
  settled,     \* ids completed or discarded
  overtaken,   \* ids whose lease expired and was reclaimed under a live client
  dropped      \* ids whose client died between the pipelines of abandon

redis == <<ready, leased, payload, attempt>>
clients == <<claimed, held, abandoning>>
ghosts == <<settled, overtaken, dropped>>
vars == <<redis, clients, ghosts>>

Level == 0 .. LEVELS - 1
At(l, score) == {j \in Job : ready[l][j] = score}
Queued(j) == {l \in Level : ready[l][j] # "none"}
Leased(score) == {j \in Job : leased[j] = score}
Known == payload \cup {j \in Job : Queued(j) # {} \/ leased[j] # "none"} \cup settled
Has(c) == claimed[c] \cup held[c] \cup abandoning[c]
\* a Backend is borrowed mutably by each call: one at a time
Idle(c) == claimed[c] = {} /\ abandoning[c] = {}

\* ZADD of every id of S to one level, and to the leases
AddReady(l, S, score) ==
  [ready EXCEPT ![l] = [j \in Job |-> IF j \in S THEN score ELSE @[j]]]
SetLease(S, score) == [j \in Job |-> IF j \in S THEN score ELSE leased[j]]

Init ==
  /\ ready = [l \in Level |-> [j \in Job |-> "none"]]
  /\ leased = [j \in Job |-> "none"]
  /\ payload = {} /\ attempt = [j \in Job |-> 0]
  /\ claimed = [c \in Client |-> {}]
  /\ held = [c \in Client |-> {}]
  /\ abandoning = [c \in Client |-> {}]
  /\ settled = {} /\ overtaken = {} /\ dropped = {}

\* Mutant of level: the clamp is off by one at the top.
levelTooHigh(priority) ==
  IF priority < 0 THEN 0 ELSE IF priority > LEVELS THEN LEVELS ELSE priority

level(priority) ==
  IF priority < 0 THEN 0 ELSE IF priority > LEVELS - 1 THEN LEVELS - 1 ELSE priority
Priority == -1 .. LEVELS

\* The id is the caller's: enqueue does not look whether it is known.  That it is
\* fresh is the caller's promise, and the guard here; an id enqueued again, after
\* a lost reply say, would be in two places.
enqueue(j, priority, score) ==
  /\ j \notin Known \cup dropped
  /\ \A c \in Client : j \notin Has(c)
  /\ payload' = payload \cup {j}
  /\ ready' = AddReady(level(priority), {j}, score)
  /\ UNCHANGED <<leased, attempt, clients, ghosts>>

\* now_millis() passes a due time, or the expiry of a lease
ComesDue(l, j) ==
  /\ ready[l][j] = "later"
  /\ ready' = AddReady(l, {j}, "due")
  /\ UNCHANGED <<leased, payload, attempt, clients, ghosts>>

LeaseExpires(j) ==
  /\ leased[j] = "live"
  /\ leased' = SetLease({j}, "expired")
  /\ UNCHANGED <<ready, payload, attempt, clients, ghosts>>

(***************************************************************************)
(* fetch.  CLAIM takes the due ids of each level in turn until the limit;  *)
(* an id found at two levels is counted, and returned, twice.              *)
(***************************************************************************)
\* S[l] is what ZRANGEBYSCORE returns at level l with `remaining` left
Takes(S, l, remaining) ==
  /\ S[l] \subseteq At(l, "due")
  /\ Cardinality(S[l]) =
       IF remaining < Cardinality(At(l, "due")) THEN remaining
       ELSE Cardinality(At(l, "due"))
Count(S, l) == Cardinality(UNION {{<<k, j>> : j \in S[k]} : k \in 0 .. l - 1})

Claim(c, S, limit) ==
  LET ids == UNION {S[l] : l \in Level}
      times(j) == Cardinality({l \in Level : j \in S[l]})
  IN  /\ Idle(c) /\ ids # {}
      /\ \A l \in Level : Takes(S, l, limit - Count(S, l))
      /\ \A j \in ids : attempt[j] + times(j) <= MaxAttempt
      /\ ready' = [l \in Level |-> [j \in Job |->
                     IF j \in S[l] THEN "none" ELSE ready[l][j]]]
      /\ leased' = SetLease(ids, "live")
      /\ attempt' = [j \in Job |-> attempt[j] + times(j)]
      /\ claimed' = [claimed EXCEPT ![c] = ids]
      /\ UNCHANGED <<payload, held, abandoning, ghosts>>

\* the two HMGETs; one id without a payload fails the fetch for all of them
FetchReads(c) ==
  /\ claimed[c] # {} /\ claimed[c] \subseteq payload
  /\ held' = [held EXCEPT ![c] = @ \cup claimed[c]]
  /\ claimed' = [claimed EXCEPT ![c] = {}]
  /\ UNCHANGED <<redis, abandoning, ghosts>>

FetchErrs(c) ==
  /\ claimed[c] # {}
  /\ claimed' = [claimed EXCEPT ![c] = {}]
  /\ UNCHANGED <<redis, held, abandoning, ghosts>>

(***************************************************************************)
(* The calls of a client that has fetched.                                 *)
(***************************************************************************)
LetGo(c, S) == held' = [held EXCEPT ![c] = @ \ S]

\* Mutant of complete: the attempt counter is left in its hash.
completeKeepsAttempt(c, S) ==
  /\ Idle(c) /\ S # {} /\ S \subseteq held[c]
  /\ leased' = SetLease(S, "none")
  /\ payload' = payload \ S
  /\ settled' = settled \cup S
  /\ LetGo(c, S)
  /\ UNCHANGED <<ready, attempt, claimed, abandoning, overtaken, dropped>>

\* Mutant of complete: the lease stays, to lapse.
completeKeepsLease(c, S) ==
  /\ Idle(c) /\ S # {} /\ S \subseteq held[c]
  /\ payload' = payload \ S
  /\ attempt' = [j \in Job |-> IF j \in S THEN 0 ELSE attempt[j]]
  /\ settled' = settled \cup S
  /\ LetGo(c, S)
  /\ UNCHANGED <<ready, leased, claimed, abandoning, overtaken, dropped>>

complete(c, S) ==
  /\ Idle(c) /\ S # {} /\ S \subseteq held[c]
  /\ leased' = SetLease(S, "none")
  /\ payload' = payload \ S
  /\ attempt' = [j \in Job |-> IF j \in S THEN 0 ELSE attempt[j]]
  /\ settled' = settled \cup S
  /\ LetGo(c, S)
  /\ UNCHANGED <<ready, claimed, abandoning, overtaken, dropped>>

discard(c, S) == complete(c, S)

\* Mutant of retry: the lease is left behind.
retryKeepsLease(c, j, priority, score) ==
  /\ Idle(c) /\ j \in held[c]
  /\ ready' = AddReady(level(priority), {j}, score)
  /\ LetGo(c, {j})
  /\ UNCHANGED <<leased, payload, attempt, claimed, abandoning, ghosts>>

retry(c, j, priority, score) ==
  /\ Idle(c) /\ j \in held[c]
  /\ leased' = SetLease({j}, "none")
  /\ ready' = AddReady(level(priority), {j}, score)
  /\ LetGo(c, {j})
  /\ UNCHANGED <<payload, attempt, claimed, abandoning, ghosts>>

\* RENEW touches the ids that are leased, to whomever
RENEW(S) == leased' = SetLease({j \in S : leased[j] # "none"}, "live")

renew(c) ==
  /\ Idle(c) /\ held[c] # {}
  /\ RENEW(held[c])
  /\ UNCHANGED <<ready, payload, attempt, clients, ghosts>>

AbandonLeases(c, S) ==
  /\ Idle(c) /\ S # {} /\ S \subseteq held[c]
  /\ leased' = SetLease(S, "none")
  /\ abandoning' = [abandoning EXCEPT ![c] = S]
  /\ LetGo(c, S)
  /\ UNCHANGED <<ready, payload, attempt, claimed, ghosts>>

AbandonReady(c) ==
  /\ abandoning[c] # {}
  /\ ready' = AddReady(0, abandoning[c], "due")
  /\ abandoning' = [abandoning EXCEPT ![c] = {}]
  /\ UNCHANGED <<leased, payload, attempt, claimed, held, ghosts>>

\* The client dies, or its connection does: Redis keeps what it has.
Dies(c) ==
  /\ Has(c) # {}
  /\ dropped' = dropped \cup abandoning[c]
  /\ claimed' = [claimed EXCEPT ![c] = {}]
  /\ held' = [held EXCEPT ![c] = {}]
  /\ abandoning' = [abandoning EXCEPT ![c] = {}]
  /\ UNCHANGED <<redis, settled, overtaken>>

\* RECLAIM moves ids from the leases to level 0, whatever level they had
RECLAIM(S) ==
  /\ leased' = SetLease(S, "none")
  /\ ready' = AddReady(0, S, "due")

\* Mutant of reclaim_expired: any lease will do.
reclaim_any(S, limit) ==
  /\ S # {} /\ S \subseteq Leased("expired") \cup Leased("live")
  /\ RECLAIM(S)
  /\ overtaken' = overtaken \cup
       {j \in S \cap Leased("expired") : \E c \in Client : j \in claimed[c] \cup held[c]}
  /\ UNCHANGED <<payload, attempt, clients, settled, dropped>>

reclaim_expired(S, limit) ==
  /\ S # {} /\ S \subseteq Leased("expired")
  /\ Cardinality(S) <= limit
  /\ S # Leased("expired") => Cardinality(S) = limit
  /\ RECLAIM(S)
  /\ overtaken' = overtaken \cup
       {j \in S : \E c \in Client : j \in claimed[c] \cup held[c]}
  /\ UNCHANGED <<payload, attempt, clients, settled, dropped>>

Next ==
  \/ \E j \in Job, priority \in Priority, score \in {"due", "later"} :
       enqueue(j, priority, score)
  \/ \E j \in Job, l \in Level : ComesDue(l, j)
  \/ \E j \in Job : LeaseExpires(j)
  \/ \E S \in SUBSET Job, limit \in 1 .. MaxLimit : reclaim_expired(S, limit)
  \/ \E c \in Client :
       \/ \E S \in [Level -> SUBSET Job], limit \in 1 .. MaxLimit : Claim(c, S, limit)
       \/ FetchReads(c) \/ FetchErrs(c) \/ renew(c) \/ AbandonReady(c) \/ Dies(c)
       \/ \E S \in SUBSET Job : complete(c, S) \/ discard(c, S) \/ AbandonLeases(c, S)
       \/ \E j \in Job, priority \in Priority, score \in {"due", "later"} :
            retry(c, j, priority, score)

Spec == Init /\ [][Next]_vars

(***************************************************************************)
(* Properties.  Each exempts the jobs whose expired lease was reclaimed    *)
(* under a client that is still there: what that client does next is not   *)
(* told apart from what the new holder does.                               *)
(***************************************************************************)
\* The keys hold what they should; the attempt counter of a job goes with
\* its payload, so a finished job leaves nothing behind.
RedisTypeOK ==
  /\ ready \in [Level -> [Job -> {"none", "later", "due"}]]
  /\ leased \in [Job -> {"none", "live", "expired"}]
  /\ payload \subseteq Job /\ attempt \in [Job -> 0 .. MaxAttempt]
  /\ {claimed, held, abandoning} \subseteq [Client -> SUBSET Job]
  /\ settled \subseteq Job /\ overtaken \subseteq Job /\ dropped \subseteq Job
  /\ \A j \in Job \ overtaken : attempt[j] # 0 => j \in payload

\* A job is in one place: queued at one level, or leased, never both, so one
\* CLAIM cannot return it twice nor two workers run it, as long as callers of
\* enqueue do not use an id twice and its lease was not reclaimed under a client.
OnePlace ==
  \A j \in Job \ overtaken :
     /\ \A l, m \in Queued(j) : l = m
     /\ leased[j] # "none" => Queued(j) = {}

\* "what makes the claim exactly-once": a job is in the hands of one client,
\* and until that client gives it up it stays leased, whoever fetches,
\* reclaims or abandons beside it.
SoleHolder ==
  \A j \in Job \ overtaken : \A c \in Client :
     /\ \A d \in Client \ {c} : ~(j \in Has(c) /\ j \in Has(d))
     /\ j \in claimed[c] \cup held[c] => leased[j] # "none"

\* An accepted job is queued or leased until it is settled, whoever dies or
\* loses a reply, except between the two pipelines of abandon: there it is
\* in no set, and a client that dies at that point takes it along.
NeverLost ==
  \A j \in payload \ (overtaken \cup dropped) :
     \/ Queued(j) # {} \/ leased[j] # "none"
     \/ \E c \in Client : j \in abandoning[c]

\* Whatever a CLAIM can return has a payload: one id without it would fail
\* the fetch of its whole batch, every time.  A completed job, in particular,
\* does not come back when its lease would have lapsed.
ClaimableHasPayload ==
  \A j \in Job \ overtaken :
     Queued(j) # {} \/ leased[j] # "none" => j \in payload

=============================================================================
