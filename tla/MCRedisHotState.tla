-------------------------- MODULE MCRedisHotState --------------------------
(***************************************************************************)
(* Two control planes share one key of each kind.  Hits are up to a window *)
(* apart, and three additions of risk exceed the u32.                      *)
(***************************************************************************)
EXTENDS RedisHotState

CONSTANTS a, b, k, s, e, i1

MCTimestamp == 0..2
=============================================================================
