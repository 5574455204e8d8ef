--------------------------- MODULE MCRedisBackend ---------------------------
(***************************************************************************)
(* Two clients and two jobs at two priority levels; each is claimed up to  *)
(* three times, one at a time or together.                                 *)
(***************************************************************************)
EXTENDS RedisBackend, TLC

CONSTANTS j1, j2, c1, c2

Symmetry == Permutations(Job) \cup Permutations(Client)

=============================================================================
