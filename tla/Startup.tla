------------------------------ MODULE Startup -------------------------------
(***************************************************************************)
(* What a worker decides before and between its sessions, as functions of  *)
(* its settings: the features a backend has (gylo-core's capability.rs),   *)
(* Config::validate, and the pause before a child is started again         *)
(* (gylo-worker).  The assumptions compare them with what they stand for,  *)
(* over all short lists and small settings.                                *)
(***************************************************************************)
EXTENDS Integers, Sequences, SequencesExt, FiniteSetsExt

Feature ==
    {"durable_acknowledgement", "transactional_enqueue", "priorities", "delayed_jobs",
     "unique_jobs", "keyed_concurrency", "workflows", "durable_steps", "cron", "results"}

\* A backend's Capabilities, as the set of its features.
Postgres == Feature
Redis(durable) ==
    {"priorities", "delayed_jobs"} \cup (IF durable THEN {"durable_acknowledgement"} ELSE {})

supports(capabilities, feature) == feature \in capabilities

\* The first wanted feature the backend lacks, or "ok".
require(capabilities, wanted) ==
    LET missing == {i \in DOMAIN wanted : ~supports(capabilities, wanted[i])}
    IN  IF missing = {} THEN "ok" ELSE wanted[Min(missing)]

gaps(capabilities) == {feature \in Feature : ~supports(capabilities, feature)}

\* There is no third answer: a worker starts exactly when it wants nothing the
\* backend lacks, and is told the first feature that is missing otherwise.
ASSUME RequireIsExact ==
    \A capabilities \in {Postgres, Redis(TRUE), Redis(FALSE)} :
        \A wanted \in SeqOf({"durable_acknowledgement", "workflows", "cron", "priorities"}, 3) :
            LET answer == require(capabilities, wanted)
            IN  IF ToSet(wanted) \cap gaps(capabilities) = {} THEN answer = "ok"
                ELSE \E i \in DOMAIN wanted :
                         /\ answer = wanted[i] /\ answer \in gaps(capabilities)
                         /\ ToSet(SubSeq(wanted, 1, i - 1)) \subseteq capabilities

-----------------------------------------------------------------------------
Config ==
    [app : BOOLEAN, queues : 0..1, processes : 0..2, concurrency : 0..2, batch : -1..2,
     maintenance_interval : 0..3, lease : 0..3]

\* The settings in the order they are looked at, each with what is wrong with
\* it; `app` says that a path is given.
Faults(config) ==
    <<<<"app", ~config.app>>, <<"queues", config.queues = 0>>, <<"processes", config.processes = 0>>,
      <<"concurrency", config.concurrency = 0>>, <<"batch", config.batch < 1>>,
      <<"maintenance_interval", config.maintenance_interval >= config.lease>>>>

\* The first setting that is refused, or "ok".
validate(config) ==
    LET refused == SelectSeq(Faults(config), LAMBDA fault : fault[2])
    IN  IF refused = <<>> THEN "ok" ELSE refused[1][1]

\* Accepted settings give every child room for a job and a lease that outlives
\* the pause between two renewals.
ASSUME ValidatedCanWork ==
    \A config \in Config : validate(config) = "ok" =>
        /\ Min({config.concurrency, config.batch}) >= 1 /\ config.processes >= 1
        /\ config.maintenance_interval < config.lease

-----------------------------------------------------------------------------
\* In milliseconds.
RestartDelay == 250
RestartCeiling == 30000

\* The pause after so many failures in a row.
backoff(consecutive) == Min({RestartDelay * 2^Min({consecutive - 1, 16}), RestartCeiling})

\* The pause never shrinks while failures go on, never exceeds the ceiling, and
\* its shift stays inside 32 bits however long they do.
ASSUME BackoffGrows ==
    \A consecutive \in 1..64 :
        /\ backoff(consecutive) \in RestartDelay..RestartCeiling
        /\ backoff(consecutive) <= backoff(consecutive + 1)
        /\ 2^Min({consecutive - 1, 16}) < 2^30
=============================================================================
