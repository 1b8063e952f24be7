---------------------------- MODULE MCRedisRelay ----------------------------
(* Small instances of RedisRelay.                                          *)
EXTENDS RedisRelay, TLC

Symmetry == Permutations(Tasks)
=============================================================================
