--------------------------- MODULE MCRedisSessions --------------------------
(***************************************************************************)
(* Four requests, which may all be for one IMSI or spread over two; two     *)
(* faults and one expiry, each of which may hit any command of any request. *)
(***************************************************************************)
EXTENDS RedisSessions, TLC

RedisSymmetry == Permutations(Requests) \cup Permutations(Imsis)
=============================================================================
