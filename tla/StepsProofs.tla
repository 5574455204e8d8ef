---------------------------- MODULE StepsProofs ----------------------------
(***************************************************************************)
(* DurableSteps for any number of steps, child slots, attempts, runs and   *)
(* failures: control never passes an unrecorded step, and a run that knew  *)
(* the record and was alone agrees with it.                                *)
(***************************************************************************)
EXTENDS DurableSteps, TLAPS

\* An update of a map at a key it may lack (StepAcks._waiting by a run without a
\* slot) leaves the map well typed.
LEMMA UpdateTyped ==
    ASSUME NEW D, NEW R, NEW f \in [D -> R], NEW k, NEW v, k \in D => v \in R
    PROVE  [f EXCEPT ![k] = v] \in [D -> R]
BY Zenon

Stages == {"none", "body", "wait", "raised", "returned", "over"}

Typed ==
    /\ runs \in 0..MaxRuns /\ recorded \in [Step -> 0..MaxRuns]
    /\ pos \in [Run -> 1..(Steps + 1)] /\ stage \in [Run -> Stages]
    /\ have \in [Run -> [Step -> 0..MaxRuns]] /\ known \in [Run -> SUBSET Step]
    /\ socket \subseteq Run \X Step
    /\ acks \in [Child \X Step -> Nat] /\ waiting \in [Child \X Step -> 0..MaxRuns]

\* Runs that were not dispatched yet left no trace.
Fresh == \A e \in Run : e > runs => stage[e] = "none" /\ pos[e] = 1 /\ e \notin repeated

\* A Stored frame under way, a result in a StepContext and a step left behind
\* each have their row in gylo_step.
Durable ==
    /\ \A c \in Child, s \in Step : acks[<<c, s>>] > 0 => recorded[s] # 0
    /\ \A e \in Run, s \in Step : have[e][s] # 0 \/ s < pos[e] => recorded[s] # 0

\* Records on a socket are those of live runs, and a run that was alone is.
Alone ==
    /\ \A x \in socket : x[1] \in Alive
    /\ \A e \in Alive \ shared : Alive = {e}

\* What a run that is alone and knew the record has seen: the record, but for
\* its own step that is stored and not acknowledged yet.
Seen(e) ==
    /\ e \notin repeated
    /\ \A s \in known[e] : have[e][s] # 0
    /\ stage[e] = "wait" => have[e][pos[e]] = 0
    /\ \A s \in Step :
        /\ \/ have[e][s] = recorded[s]
           \/ have[e][s] = 0 /\ recorded[s] = e /\ s = pos[e] /\ stage[e] # "body"
        /\ (<<e, s>> \in socket /\ recorded[s] = 0) => s = pos[e] /\ stage[e] # "body"

Seers == Alive \ (blind \cup shared)

StepsInv == Typed /\ Fresh /\ Durable /\ Alone /\ \A e \in Seers : Seen(e)

\* Before the first dispatch nothing is recorded, sent or running.
LEMMA StepsStart == Init => StepsInv
<1> SUFFICES ASSUME Init PROVE StepsInv
  OBVIOUS
<1>1. Typed
  BY StepConfig DEF Init, Typed, Stages, Step
<1>2. Fresh /\ Alone /\ \A e \in Seers : Seen(e)
  BY DEF Init, Fresh, Alone, Seers, Alive
<1>3. Durable
  BY DEF Init, Durable, Step
<1> QED BY <1>1, <1>2, <1>3 DEF StepsInv

\* The dispatcher starts a run, with the steps on record or without.
LEMMA StepsDispatch ==
    ASSUME StepsInv, NEW c \in Child, NEW loaded \in BOOLEAN, Dispatch(c, loaded)
    PROVE  StepsInv'
<1> USE DEF StepsInv
<1> DEFINE e == runs + 1
           prior == Prior(attempt + 1, loaded)
<1>1. e \in Run /\ runs' = e /\ e > runs
  BY StepConfig DEF Dispatch, Typed, Run
<1>2. prior \in [Step -> 0..MaxRuns] /\ \A s \in Step : prior[s] # 0 => recorded[s] # 0
  BY StepConfig DEF Prior, Typed
<1>3. /\ stage' = [stage EXCEPT ![e] = "body"] /\ have' = [have EXCEPT ![e] = prior]
      /\ known' = [known EXCEPT ![e] = OnRecord]
      /\ UNCHANGED <<recorded, pos, socket, acks, waiting, repeated>>
      /\ blind' = IF prior = recorded THEN blind ELSE blind \cup {e}
      /\ shared' = IF Alive = {} THEN shared ELSE shared \cup Alive \cup {e}
  BY DEF Dispatch, frames
<1>4. Alive' = Alive \cup {e} /\ e \notin Alive
  BY <1>1, <1>3 DEF Alive, Typed, Fresh
<1> HIDE DEF prior
<1>5. Typed'
  BY <1>1, <1>2, <1>3 DEF Typed, OnRecord, Stages, Run
<1>6. Fresh'
  BY <1>1, <1>3 DEF Fresh, Typed, Run
<1>7. Durable'
  BY <1>1, <1>2, <1>3 DEF Durable, Typed
<1>8. Alone'
  BY <1>3, <1>4 DEF Alone
<1>9. \A r \in Seers' : Seen(r)'
  <2> SUFFICES ASSUME NEW r \in Seers' PROVE Seen(r)'
    OBVIOUS
  <2>1. r = e /\ Alive = {} /\ prior = recorded
    BY <1>3, <1>4 DEF Seers
  <2>2. /\ e \notin repeated' /\ known'[e] = OnRecord /\ have'[e] = recorded
        /\ stage'[e] = "body"
    BY <1>1, <1>3, <2>1 DEF Fresh, Typed
  <2>3. \A s \in Step : <<e, s>> \notin socket'
    BY <1>3, <1>4 DEF Alone
  <2> QED BY <1>3, <2>1, <2>2, <2>3 DEF Seen, OnRecord
<1> QED BY <1>5, <1>6, <1>7, <1>8, <1>9

\* step() returns a result it was sent.
LEMMA StepsReplay ==
    ASSUME StepsInv, NEW e \in Run, Replay(e)
    PROVE  StepsInv'
<1> USE DEF StepsInv
<1>1. /\ pos' = [pos EXCEPT ![e] = pos[e] + 1] /\ stage[e] = "body"
      /\ pos[e] \in Step /\ have[e][pos[e]] # 0 /\ e \in Alive /\ e <= runs
      /\ UNCHANGED <<recorded, runs, stage, have, socket, acks, waiting, blind, shared,
                     repeated, known>>
  BY DEF Replay, frames, history, Alive, Fresh, Typed, Run
<1>2. pos'[e] = pos[e] + 1 /\ \A r \in Run : r # e => pos'[r] = pos[r]
  BY <1>1 DEF Typed
<1>3. pos[e] \in 1..Steps /\ Steps \in Nat
  BY <1>1, StepConfig DEF Step
<1>4. Typed'
  <2>1. pos[e] + 1 \in 1..(Steps + 1)
    BY <1>3
  <2>2. pos' \in [Run -> 1..(Steps + 1)]
    BY <1>1, <2>1 DEF Typed
  <2> QED BY <1>1, <2>2 DEF Typed
<1>5. Fresh' /\ Alone'
  BY <1>1, <1>2 DEF Fresh, Alone, Alive, Typed, Run
<1>6. Durable'
  <2>1. \A s \in Step : s < pos[e] + 1 => s < pos[e] \/ s = pos[e]
    BY <1>3 DEF Step
  <2>2. \A r \in Run, s \in Step : have[r][s] # 0 \/ s < pos'[r] => recorded[s] # 0
    <3> SUFFICES ASSUME NEW r \in Run, NEW s \in Step, have[r][s] # 0 \/ s < pos'[r]
                 PROVE  recorded[s] # 0
      OBVIOUS
    <3>1. CASE r = e
      BY <1>1, <1>2, <2>1, <3>1 DEF Durable
    <3>2. CASE r # e
      BY <1>2, <3>2 DEF Durable
    <3> QED BY <3>1, <3>2
  <2> QED BY <1>1, <2>2 DEF Durable
<1>7. \A r \in Seers' : Seen(r)'
  <2> SUFFICES ASSUME NEW r \in Seers PROVE Seen(r)'
    BY <1>1 DEF Seers, Alive
  <2>1. r = e /\ Seen(e)
    BY <1>1 DEF Alone, Seers
  <2> QED BY <1>1, <1>2, <2>1 DEF Seen
<1> QED BY <1>4, <1>5, <1>6, <1>7

\* step() does the work, writes its Record and registers its future.
LEMMA StepsWork ==
    ASSUME StepsInv, NEW e \in Run, Work(e)
    PROVE  StepsInv'
<1> USE DEF StepsInv
<1>1. /\ stage' = [stage EXCEPT ![e] = "wait"] /\ stage[e] = "body"
      /\ socket' \in {socket, socket \cup {<<e, pos[e]>>}}
      /\ waiting' = [waiting EXCEPT ![<<where[e], pos[e]>>] = e]
      /\ repeated' = IF pos[e] \in known[e] THEN repeated \cup {e} ELSE repeated
      /\ pos[e] \in Step /\ have[e][pos[e]] = 0
      /\ UNCHANGED <<recorded, runs, pos, have, acks, blind, shared, known>>
  BY DEF Work
<1>2. /\ Alive' = Alive /\ e \in Alive /\ e <= runs
      /\ stage'[e] = "wait" /\ \A r \in Run : r # e => stage'[r] = stage[r]
  BY <1>1 DEF Alive, Typed, Fresh, Run
<1>3. Typed'
  <2>1. waiting' \in [Child \X Step -> 0..MaxRuns]
    <3>1. e \in 0..MaxRuns
      BY DEF Run
    <3> QED BY <1>1, <3>1, UpdateTyped DEF Typed
  <2> QED BY <1>1, <2>1 DEF Typed, Stages
<1>4. Fresh'
  BY <1>1, <1>2 DEF Fresh, Typed, Run
<1>5. Durable' /\ Alone'
  BY <1>1, <1>2 DEF Durable, Alone
<1>6. \A r \in Seers' : Seen(r)'
  <2> SUFFICES ASSUME NEW r \in Seers PROVE Seen(r)'
    BY <1>1, <1>2 DEF Seers
  <2>1. r = e /\ Seen(e)
    BY <1>2 DEF Alone, Seers
  <2>2. pos[e] \notin known[e]
    BY <1>1, <2>1 DEF Seen
  <2> QED BY <1>1, <1>2, <2>1, <2>2 DEF Seen
<1> QED BY <1>3, <1>4, <1>5, <1>6

\* The collector records a step and acknowledges it, or does neither.
LEMMA StepsRecord ==
    ASSUME StepsInv, NEW x \in socket, NEW stored \in BOOLEAN, Record(x[1], x[2], stored)
    PROVE  StepsInv'
<1> USE DEF StepsInv
<1> DEFINE e == x[1]
           t == x[2]
<1>1. e \in Run /\ t \in Step /\ e # 0 /\ e \in Alive /\ x = <<e, t>>
  BY DEF Typed, Run, Alone
<1>2. /\ socket' = socket \ {x}
      /\ UNCHANGED <<runs, where, pos, stage, have, waiting, blind, shared, repeated, known>>
  BY <1>1 DEF Record, execs
<1> HIDE DEF e, t
<1>3. CASE stored
  <2>1. /\ recorded' = [recorded EXCEPT ![t] = IF recorded[t] = 0 THEN e ELSE recorded[t]]
        /\ \/ acks' = [acks EXCEPT ![<<where[e], t>>] = acks[<<where[e], t>>] + 1]
           \/ acks' = acks
    BY <1>3 DEF Record, record_step, Acked, e, t
  <2>2. /\ recorded'[t] = (IF recorded[t] = 0 THEN e ELSE recorded[t]) /\ recorded'[t] # 0
        /\ \A s \in Step : s # t => recorded'[s] = recorded[s]
    BY <1>1, <2>1 DEF Typed
  <2>3. Typed'
    <3>1. recorded' \in [Step -> 0..MaxRuns]
      BY <1>1, <2>1 DEF Typed, Run
    <3>2. acks' \in [Child \X Step -> Nat]
      <4>1. <<where[e], t>> \in Child \X Step => acks[<<where[e], t>>] + 1 \in Nat
        BY DEF Typed
      <4>2. acks \in [Child \X Step -> Nat]
        BY DEF Typed
      <4>3. [acks EXCEPT ![<<where[e], t>>] = acks[<<where[e], t>>] + 1] \in [Child \X Step -> Nat]
        BY <4>1, <4>2, UpdateTyped
      <4> QED BY <2>1, <4>2, <4>3, Zenon
    <3> QED BY <1>2, <3>1, <3>2 DEF Typed
  <2>4. Durable'
    <3>1. \A c \in Child, s \in Step : s # t => acks'[<<c, s>>] = acks[<<c, s>>]
      BY <2>1 DEF Typed
    <3> QED BY <1>1, <1>2, <2>2, <3>1 DEF Durable
  <2>5. \A r \in Seers : Seen(r)'
    <3> SUFFICES ASSUME NEW r \in Seers PROVE Seen(r)'
      OBVIOUS
    <3>1. r = e /\ Seen(e)
      BY <1>1 DEF Alone, Seers
    <3>2. e \notin repeated' /\ \A s \in known'[e] : have'[e][s] # 0
      BY <1>2, <3>1 DEF Seen
    <3>3. stage'[e] = "wait" => have'[e][pos'[e]] = 0
      BY <1>2, <3>1 DEF Seen
    <3>4. ASSUME NEW s \in Step
          PROVE  /\ \/ have'[e][s] = recorded'[s]
                    \/ have'[e][s] = 0 /\ recorded'[s] = e /\ s = pos'[e] /\ stage'[e] # "body"
                 /\ (<<e, s>> \in socket' /\ recorded'[s] = 0) => s = pos'[e] /\ stage'[e] # "body"
      <4>1. CASE s # t
        BY <1>2, <2>2, <3>1, <4>1 DEF Seen
      <4>2. CASE s = t /\ recorded[t] # 0
        BY <1>2, <2>2, <3>1, <4>2 DEF Seen
      <4>3. CASE s = t /\ recorded[t] = 0
        <5>1. have[e][t] = 0 /\ t = pos[e] /\ stage[e] # "body"
          BY <1>1, <3>1, <4>3 DEF Seen
        <5> QED BY <1>2, <2>2, <4>3, <5>1
      <4> QED BY <4>1, <4>2, <4>3
    <3> QED BY <3>1, <3>2, <3>3, <3>4 DEF Seen
  <2> QED BY <1>2, <2>3, <2>4, <2>5 DEF Fresh, Alone, Seers, Alive
<1>4. CASE ~stored
  <2>1. UNCHANGED <<recorded, acks>>
    BY <1>4 DEF Record
  <2>2. Typed' /\ Fresh' /\ Durable' /\ Alone'
    BY <1>2, <2>1 DEF Typed, Fresh, Durable, Alone, Alive
  <2>3. \A r \in Seers : Seen(r)'
    BY <1>2, <2>1 DEF Seen
  <2> QED BY <1>2, <2>2, <2>3 DEF Seers, Alive
<1> QED BY <1>3, <1>4

\* resolve(): the run whose future is registered goes on.
LEMMA StepsResolve ==
    ASSUME StepsInv, NEW c \in Child, NEW t \in Step, Resolve(c, t)
    PROVE  StepsInv'
<1> USE DEF StepsInv
<1> DEFINE e == waiting[<<c, t>>]
<1>1. /\ acks[<<c, t>>] > 0 /\ recorded[t] # 0
      /\ acks' = [acks EXCEPT ![<<c, t>>] = acks[<<c, t>>] - 1]
      /\ waiting' = [waiting EXCEPT ![<<c, t>>] = 0]
      /\ UNCHANGED <<recorded, runs, socket, blind, shared, repeated, known>>
  BY DEF Resolve, history, Durable
<1>2. acks' \in [Child \X Step -> Nat] /\ waiting' \in [Child \X Step -> 0..MaxRuns]
  BY <1>1, StepConfig DEF Typed
<1>3. \A d \in Child, s \in Step : acks'[<<d, s>>] > 0 => recorded[s] # 0
  BY <1>1 DEF Durable, Typed
<1>4. CASE e # 0 /\ stage[e] = "wait" /\ pos[e] = t
  <2>1. e \in Run /\ e \in Alive /\ e <= runs
    BY <1>4, StepConfig DEF Typed, Run, Alive, Fresh
  <2>2. /\ have' = [have EXCEPT ![e][t] = e] /\ pos' = [pos EXCEPT ![e] = t + 1]
        /\ stage' = [stage EXCEPT ![e] = "body"]
    BY <1>4 DEF Resolve
  <2> HIDE DEF e
  <2>3. /\ have'[e] = [have[e] EXCEPT ![t] = e] /\ pos'[e] = t + 1 /\ stage'[e] = "body"
        /\ \A r \in Run : r # e =>
            have'[r] = have[r] /\ pos'[r] = pos[r] /\ stage'[r] = stage[r]
    BY <2>1, <2>2 DEF Typed
  <2>4. /\ have'[e][t] = e /\ \A s \in Step : s # t => have'[e][s] = have[e][s]
        /\ have[e] \in [Step -> 0..MaxRuns]
    BY <2>1, <2>3 DEF Typed
  <2>5. t \in 1..Steps /\ Steps \in Nat /\ e \in 0..MaxRuns
    BY <2>1, StepConfig DEF Step, Run
  <2>6. Typed'
    <3>1. pos' \in [Run -> 1..(Steps + 1)] /\ stage' \in [Run -> Stages]
      BY <2>1, <2>2, <2>5 DEF Typed, Stages
    <3>2. have' \in [Run -> [Step -> 0..MaxRuns]]
      BY <2>1, <2>2, <2>5 DEF Typed
    <3> QED BY <1>1, <1>2, <3>1, <3>2 DEF Typed
  <2>7. Alive' = Alive
    BY <1>4, <2>1, <2>3 DEF Alive, e
  <2>8. Fresh' /\ Alone'
    BY <1>1, <2>1, <2>3, <2>7 DEF Fresh, Alone, Typed, Run
  <2>9. Durable'
    <3> SUFFICES ASSUME NEW r \in Run, NEW s \in Step, have'[r][s] # 0 \/ s < pos'[r]
                 PROVE  recorded[s] # 0
      BY <1>1, <1>3 DEF Durable
    <3>1. CASE r # e
      BY <2>3, <3>1 DEF Durable
    <3>2. CASE r = e /\ s # t
      <4>1. s < t + 1 => s < t
        BY <2>5, <3>2 DEF Step
      <4> QED BY <1>4, <2>1, <2>3, <2>4, <3>2, <4>1 DEF Durable, e
    <3> QED BY <1>1, <3>1, <3>2
  <2>10. \A r \in Seers' : Seen(r)'
    <3> SUFFICES ASSUME NEW r \in Seers PROVE Seen(r)'
      BY <1>1, <2>7 DEF Seers
    <3>1. r = e /\ Seen(e)
      BY <2>1 DEF Alone, Seers
    <3>2. recorded[t] = e
      BY <1>1, <1>4, <3>1, Zenon DEF Seen, e
    <3>3. \A s \in known[e] : s \in Step
      BY <2>1 DEF Typed
    <3>4. e \notin repeated' /\ \A s \in known'[e] : have'[e][s] # 0
      BY <1>1, <1>4, <2>4, <3>1, <3>3 DEF Seen
    <3>5. \A s \in Step : have'[e][s] = recorded'[s]
      <4> SUFFICES ASSUME NEW s \in Step, s # t PROVE have[e][s] = recorded[s]
        BY <1>1, <2>4, <3>2
      <4> QED BY <1>4, <3>1, Zenon DEF Seen, e
    <3>6. \A s \in Step : ~(<<e, s>> \in socket' /\ recorded'[s] = 0)
      <4> SUFFICES ASSUME NEW s \in Step, <<e, s>> \in socket, recorded[s] = 0 PROVE FALSE
        BY <1>1
      <4> QED BY <1>1, <1>4, <3>1 DEF Seen, e
    <3> QED BY <2>3, <3>1, <3>4, <3>5, <3>6, Zenon DEF Seen
  <2> QED BY <2>6, <2>8, <2>9, <2>10
<1>5. CASE ~(e # 0 /\ stage[e] = "wait" /\ pos[e] = t)
  <2>1. UNCHANGED <<have, pos, stage>>
    BY <1>5 DEF Resolve
  <2>2. Typed' /\ Fresh' /\ Durable' /\ Alone'
    BY <1>1, <1>2, <1>3, <2>1, SMTT(30) DEF Typed, Fresh, Durable, Alone, Alive
  <2>3. \A r \in Seers' : Seen(r)'
    <3> SUFFICES ASSUME NEW r \in Seers PROVE Seen(r)'
      BY <1>1, <2>1 DEF Seers, Alive
    <3> QED BY <1>1, <2>1 DEF Seen
  <2> QED BY <2>2, <2>3
<1> QED BY <1>4, <1>5

\* A body that raises, times out or returns keeps what it has seen.
LEMMA StepsEnds ==
    ASSUME StepsInv, NEW e \in Run, Raise(e) \/ Return(e)
    PROVE  StepsInv'
<1> USE DEF StepsInv
<1>1. PICK end \in {"raised", "returned"} : stage' = [stage EXCEPT ![e] = end]
  BY DEF Raise, Return
<1>2. /\ UNCHANGED <<recorded, runs, pos, have, socket, acks, waiting, blind, shared,
                     repeated, known>>
      /\ stage[e] \in {"body", "wait"}
  BY DEF Raise, Return, frames, history
<1>3. /\ stage'[e] \in {"raised", "returned"} /\ Alive' = Alive /\ e <= runs
      /\ \A r \in Run : r # e => stage'[r] = stage[r]
  BY <1>1, <1>2 DEF Typed, Alive, Fresh, Run
<1>4. Typed' /\ Fresh'
  BY <1>1, <1>2, <1>3 DEF Typed, Fresh, Stages, Run
<1>5. Durable' /\ Alone'
  BY <1>2, <1>3 DEF Durable, Alone
<1>6. \A r \in Seers' : Seen(r)'
  <2> SUFFICES ASSUME NEW r \in Seers PROVE Seen(r)'
    BY <1>2, <1>3 DEF Seers
  <2>1. Seen(r) /\ r \in Run
    BY DEF Seers, Alive
  <2> QED BY <1>2, <1>3, <2>1 DEF Seen
<1> QED BY <1>4, <1>5, <1>6

\* Runs end, with nothing of theirs left on the socket: the record may have
\* grown, and no run that was alone is left.
LEMMA StepsOver ==
    ASSUME StepsInv, NEW S \in SUBSET Alive, S # {}, Over(S), runs' = runs,
           recorded' \in [Step -> 0..MaxRuns],
           \A s \in Step : recorded[s] # 0 => recorded'[s] # 0,
           socket' \subseteq socket, \A x \in socket' : x[1] \notin S,
           acks' \in [Child \X Step -> Nat],
           \A c \in Child, s \in Step : acks'[<<c, s>>] > 0 => acks[<<c, s>>] > 0,
           waiting' \in [Child \X Step -> 0..MaxRuns]
    PROVE  StepsInv'
<1> USE DEF StepsInv
<1>1. Alive' = Alive \ S
  BY DEF Over, Alive
<1>2. \A e \in S : e <= runs
  BY DEF Alive, Fresh, Typed, Run
<1>3. Typed'
  <2>1. pos' \in [Run -> 1..(Steps + 1)] /\ stage' \in [Run -> Stages]
    BY StepConfig DEF Over, Typed, Stages
  <2>2. have' \in [Run -> [Step -> 0..MaxRuns]] /\ known' \in [Run -> SUBSET Step]
    BY StepConfig DEF Over, Typed
  <2> QED BY <2>1, <2>2 DEF Typed
<1>4. Fresh'
  BY <1>2 DEF Over, Fresh, Typed, Run
<1>5. Durable'
  <2> SUFFICES ASSUME NEW e \in Run, NEW s \in Step, have'[e][s] # 0 \/ s < pos'[e]
               PROVE  recorded'[s] # 0
    BY DEF Durable
  <2>1. CASE e \in S
    <3>1. have'[e][s] = 0 /\ pos'[e] = 1
      BY <2>1 DEF Over
    <3> QED BY <3>1, StepConfig DEF Step
  <2>2. CASE e \notin S
    BY <2>2 DEF Over, Durable
  <2> QED BY <2>1, <2>2
<1>6. Alone'
  BY <1>1 DEF Over, Alone
<1>7. Seers' = {}
  BY <1>1 DEF Over, Seers, Alone
<1> QED BY <1>3, <1>4, <1>5, <1>6, <1>7

\* The outcome of a run is read after its records.
LEMMA StepsSettle ==
    ASSUME StepsInv, NEW e \in Run, Settle(e)
    PROVE  StepsInv'
<1>1. {e} \in SUBSET Alive /\ Over({e})
  BY DEF Settle, Alive
<1>2. UNCHANGED <<runs, recorded, socket, acks, waiting>>
  BY DEF Settle, frames
<1>3. \A x \in socket' : x[1] \notin {e}
  BY <1>2 DEF Settle, Unsent, StepsInv, Typed
<1> QED BY <1>1, <1>2, <1>3, StepsOver, Zenon DEF StepsInv, Typed

\* A child dies, and what it sent is recorded before its job is handed back.
LEMMA StepsCrash ==
    ASSUME StepsInv, NEW c \in Child, NEW K \in SUBSET socket, Crash(c, K)
    PROVE  StepsInv'
<1> USE DEF StepsInv
<1> DEFINE mine == {e \in Alive : where[e] = c}
           sent == {x \in socket : where[x[1]] = c}
<1>1. /\ mine # {} /\ mine \in SUBSET Alive /\ Over(mine) /\ runs' = runs
      /\ socket' = socket \ sent
  BY DEF Crash
<1>2. \A x \in socket' : x[1] \notin mine
  BY <1>1
<1>3. PICK first \in [Step -> 0..MaxRuns] :
        recorded' = [s \in Step |-> IF recorded[s] = 0 THEN first[s] ELSE recorded[s]]
  BY DEF Crash
<1>4. /\ recorded' \in [Step -> 0..MaxRuns]
      /\ \A s \in Step : recorded[s] # 0 => recorded'[s] # 0
  BY <1>3 DEF Typed
<1>5. /\ acks' = [x \in Child \X Step |-> IF x[1] = c THEN 0 ELSE acks[x]]
      /\ waiting' = [x \in Child \X Step |-> IF x[1] = c THEN 0 ELSE waiting[x]]
  BY DEF Crash
<1>6. /\ acks' \in [Child \X Step -> Nat] /\ waiting' \in [Child \X Step -> 0..MaxRuns]
      /\ \A d \in Child, s \in Step : acks'[<<d, s>>] > 0 => acks[<<d, s>>] > 0
  BY <1>5, StepConfig DEF Typed
<1> HIDE DEF mine, sent
<1> QED BY <1>1, <1>2, <1>4, <1>6, StepsOver

\* Frames are lost, with the collector or with dispatch, and nothing else changes.
LEMMA StepsLost ==
    ASSUME StepsInv, NEW c \in Child, Deafen(c) \/ Close(c)
    PROVE  StepsInv'
<1> USE DEF StepsInv
<1>1. /\ UNCHANGED <<recorded, runs, pos, stage, have, waiting, blind, shared, repeated, known>>
      /\ socket' \subseteq socket
  BY DEF Deafen, Close, execs, history
<1>2. /\ acks' \in [Child \X Step -> Nat]
      /\ \A d \in Child, s \in Step : acks'[<<d, s>>] > 0 => acks[<<d, s>>] > 0
  <2>1. CASE Deafen(c)
    BY <2>1 DEF Deafen, Typed
  <2>2. CASE Close(c)
    <3>1. PICK lost \in [Step -> 0..MaxRuns] :
            /\ \A s \in Step : lost[s] <= acks[<<c, s>>]
            /\ acks' = [x \in Child \X Step |-> IF x[1] = c THEN acks[x] - lost[x[2]] ELSE acks[x]]
      BY <2>2 DEF Close
    <3>2. ASSUME NEW d \in Child, NEW s \in Step
          PROVE  /\ acks'[<<d, s>>] \in Nat
                 /\ acks'[<<d, s>>] > 0 => acks[<<d, s>>] > 0
      <4>1. /\ acks[<<d, s>>] \in Nat /\ lost[s] \in Nat
            /\ d = c => lost[s] <= acks[<<d, s>>]
        BY <3>1, StepConfig DEF Typed
      <4>2. acks'[<<d, s>>] = IF d = c THEN acks[<<d, s>>] - lost[s] ELSE acks[<<d, s>>]
        BY <3>1
      <4> QED BY <4>1, <4>2
    <3>3. \A x \in Child \X Step : acks'[x] \in Nat
      BY <3>2
    <3> QED BY <3>1, <3>2, <3>3
  <2> QED BY <2>1, <2>2
<1>3. Typed' /\ Fresh' /\ Durable' /\ Alone'
  BY <1>1, <1>2 DEF Typed, Fresh, Durable, Alone, Alive
<1>4. \A r \in Seers' : Seen(r)'
  <2> SUFFICES ASSUME NEW r \in Seers PROVE Seen(r)'
    BY <1>1 DEF Seers, Alive
  <2> QED BY <1>1 DEF Seen
<1> QED BY <1>3, <1>4

\* abandon() fails the runs that wait, and forgets their futures.
LEMMA StepsEndOfFile ==
    ASSUME StepsInv, NEW c \in Child, EndOfFile(c)
    PROVE  StepsInv'
<1> USE DEF StepsInv
<1>1. /\ UNCHANGED <<recorded, runs, pos, have, socket, acks, blind, shared, repeated, known>>
      /\ waiting' = [x \in Child \X Step |-> IF x[1] = c THEN 0 ELSE waiting[x]]
  BY DEF EndOfFile, history
<1>2. /\ DOMAIN stage' = Run
      /\ \A r \in Run : stage'[r] = stage[r] \/ (stage[r] = "wait" /\ stage'[r] = "raised")
  BY DEF EndOfFile
<1>3. Alive' = Alive
  BY <1>2 DEF Alive
<1>4. Typed'
  <2>1. stage' = [e \in Run |-> stage'[e]]
    BY DEF EndOfFile
  <2>2. stage' \in [Run -> Stages]
    BY <1>2, <2>1 DEF Typed, Stages
  <2>3. waiting' \in [Child \X Step -> 0..MaxRuns]
    BY <1>1, StepConfig DEF Typed
  <2> QED BY <1>1, <2>2, <2>3 DEF Typed
<1>5. Fresh' /\ Durable' /\ Alone'
  BY <1>1, <1>2, <1>3 DEF Fresh, Durable, Alone
<1>6. \A r \in Seers' : Seen(r)'
  <2> SUFFICES ASSUME NEW r \in Seers PROVE Seen(r)'
    BY <1>1, <1>3 DEF Seers
  <2>1. Seen(r) /\ r \in Run
    BY DEF Seers, Alive
  <2> QED BY <1>1, <1>2, <2>1 DEF Seen
<1> QED BY <1>4, <1>5, <1>6

\* The invariant is kept by every step of the children, of the supervisor and of
\* an operator.
LEMMA StepsNext == StepsInv /\ [Next]_vars => StepsInv'
<1> SUFFICES ASSUME StepsInv, [Next]_vars PROVE StepsInv'
  OBVIOUS
<1>1. ASSUME NEW c \in Child, NEW loaded \in BOOLEAN, Dispatch(c, loaded) PROVE StepsInv'
  BY <1>1, StepsDispatch
<1>2. ASSUME NEW c \in Child, NEW s \in Step, Resolve(c, s) PROVE StepsInv'
  BY <1>2, StepsResolve
<1>3. ASSUME NEW c \in Child, NEW K \in SUBSET socket, Crash(c, K) PROVE StepsInv'
  BY <1>3, StepsCrash
<1>4. ASSUME NEW e \in Run, Replay(e) \/ Work(e) \/ Raise(e) \/ Return(e) \/ Settle(e)
      PROVE  StepsInv'
  BY <1>4, StepsReplay, StepsWork, StepsEnds, StepsSettle
<1>5. ASSUME NEW x \in socket, NEW stored \in BOOLEAN, Record(x[1], x[2], stored)
      PROVE  StepsInv'
  BY <1>5, StepsRecord
<1>6. CASE Lapse \/ OperatorRetry \/ UNCHANGED vars
  <2>1. UNCHANGED <<recorded, runs, pos, stage, have, socket, acks, waiting, blind, shared,
                    repeated, known>>
    BY <1>6 DEF Lapse, OperatorRetry, vars, execs, frames, history
  <2>2. Typed' /\ Fresh' /\ Durable' /\ Alone'
    BY <2>1, SMTT(30) DEF StepsInv, Typed, Fresh, Durable, Alone, Alive
  <2>3. \A r \in Seers' : Seen(r)'
    BY <2>1, SMTT(30) DEF StepsInv, Seers, Alive, Seen
  <2> QED BY <2>2, <2>3 DEF StepsInv
<1>7. ASSUME NEW c \in Child, Deafen(c) \/ Close(c) \/ EndOfFile(c) PROVE StepsInv'
  BY <1>7, StepsLost, StepsEndOfFile
<1> QED BY <1>1, <1>2, <1>3, <1>4, <1>5, <1>6, <1>7 DEF Next

-----------------------------------------------------------------------------
\* The invariant holds in every reachable state of the children and the collector.
LEMMA StepsAlways == Spec => []StepsInv
BY StepsStart, StepsNext, PTL DEF Spec

\* StepContext.step returns only once the step is on record, for any number of
\* overlapping runs whose acknowledgements cross.
THEOREM StepsDurable == Spec => []DurableBeforeNext
<1>1. StepsInv => DurableBeforeNext
  BY DEF StepsInv, Durable, DurableBeforeNext, Alive
<1> QED BY <1>1, StepsAlways, PTL

\* A run sent the record and never accompanied by another has seen the record and
\* repeated none of it, whichever statements failed and children died before it.
THEOREM StepsConsistent == Spec => []StepsAgree
<1>1. StepsInv => StepsAgree
  <2> SUFFICES ASSUME StepsInv, NEW e \in Seers
               PROVE  e \notin repeated /\ \A s \in Step : s < pos[e] => have[e][s] = recorded[s]
    BY DEF StepsAgree, Seers
  <2>1. Seen(e) /\ pos[e] \in Int
    BY DEF StepsInv, Seers, Alive, Typed
  <2>2. \A s \in Step : s < pos[e] => s # pos[e]
    BY <2>1
  <2> QED BY <2>1, <2>2, Zenon DEF Seen
<1> QED BY <1>1, StepsAlways, PTL

-----------------------------------------------------------------------------
\* What TypeOK says beyond Typed.
RowTyped ==
    /\ status \in {"available", "running", "completed", "discarded"}
    /\ attempt \in 0..MaxAttempts /\ holder \in Child \cup {0}
    /\ where \in [Run -> Child \cup {0}]
    /\ blind \subseteq Run /\ shared \subseteq Run /\ repeated \subseteq Run
    /\ denied \subseteq Run /\ late \subseteq Run
    /\ link \in [Child -> {"open", "closing", "ended"}] /\ deaf \subseteq Child
    /\ faults \in 0..MaxFaults /\ resets \in 0..MaxResets

\* The end of runs (Over) and the verdict on the row keep their types.
LEMMA RowOver ==
    ASSUME RowTyped, NEW S, Over(S), UNCHANGED <<attempt, holder, link, faults, resets>>,
           deaf' \subseteq Child,
           status' \in {"available", "running", "completed", "discarded"}
    PROVE  RowTyped'
BY DEF RowTyped, Over

\* Every step leaves a row a worker or an operator may find: attempts stay within
\* max_attempts whatever lapses, fails or is retried.
LEMMA RowStep == Typed /\ RowTyped /\ [Next]_vars => RowTyped'
<1> SUFFICES ASSUME Typed, RowTyped, [Next]_vars PROVE RowTyped'
  OBVIOUS
<1>1. CASE UNCHANGED vars
  BY <1>1 DEF vars, row, execs, lines, history, RowTyped
<1>2. ASSUME NEW c \in Child, NEW loaded \in BOOLEAN, Dispatch(c, loaded) PROVE RowTyped'
  <2>1. runs + 1 \in Run
    BY <1>2, StepConfig DEF Dispatch, Typed, Run
  <2>2. faults' \in 0..MaxFaults
    BY <1>2, StepConfig DEF Dispatch, Fault, RowTyped
  <2>3. shared' \subseteq Run /\ blind' \subseteq Run
    BY <1>2, <2>1 DEF Dispatch, Alive, RowTyped
  <2>4. attempt' \in 0..MaxAttempts /\ where' \in [Run -> Child \cup {0}]
    BY <1>2, <2>1, StepConfig DEF Dispatch, RowTyped
  <2> QED BY <1>2, <2>2, <2>3, <2>4 DEF Dispatch, lines, RowTyped
<1>3. ASSUME NEW c \in Child, NEW s \in Step, Resolve(c, s) PROVE RowTyped'
  BY <1>3 DEF Resolve, row, lines, history, RowTyped
<1>4. ASSUME NEW e \in Run, Replay(e) \/ Work(e) \/ Raise(e) \/ Return(e) PROVE RowTyped'
  BY <1>4 DEF Replay, Work, Raise, Return, row, lines, history, RowTyped
<1>5. ASSUME NEW e \in Run, Settle(e) PROVE RowTyped'
  BY <1>5, RowOver DEF Settle, Verdicts, Retried, lines, RowTyped
<1>6. ASSUME NEW c \in Child, NEW K, Crash(c, K) PROVE RowTyped'
  BY <1>6, RowOver DEF Crash, Retried, RowTyped
<1>7. ASSUME NEW x \in socket, NEW stored \in BOOLEAN, Record(x[1], x[2], stored)
      PROVE  RowTyped'
  <2>1. x[1] \in Run
    BY DEF Typed
  <2> QED BY <1>7, <2>1, StepConfig DEF Record, Fault, row, execs, lines, RowTyped
<1>8. CASE Lapse \/ OperatorRetry
  BY <1>8, StepConfig DEF Lapse, Retried, OperatorRetry, execs, lines, history, RowTyped
<1>9. ASSUME NEW c \in Child, Deafen(c) \/ Close(c) \/ EndOfFile(c) PROVE RowTyped'
  BY <1>9, StepConfig DEF Deafen, Close, EndOfFile, Fault, row, execs, history, RowTyped
<1> QED BY <1>1, <1>2, <1>3, <1>4, <1>5, <1>6, <1>7, <1>8, <1>9 DEF Next

\* The row, the frames and the contexts of StepContext stay well formed.
THEOREM StepsTyped == Spec => []TypeOK
<1>1. Init => RowTyped
  BY StepConfig DEF Init, RowTyped
<1>2. StepsInv => Typed
  BY DEF StepsInv
<1>3. StepsInv /\ RowTyped => TypeOK
  BY DEF StepsInv, Typed, Stages, RowTyped, TypeOK
<1> QED BY <1>1, <1>2, <1>3, StepsAlways, RowStep, PTL DEF Spec
=============================================================================
