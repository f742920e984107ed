------------------------- MODULE MCMemoryHotState -------------------------
(***************************************************************************)
(* One key and one entity: keys do not interact.  Hits span more than two  *)
(* windows and arrive up to one unit late; a score can saturate.           *)
(***************************************************************************)
EXTENDS MemoryHotState

CONSTANTS k, e, i1

MCTimestamp == 0..5
MCPoints == {1, 2}
=============================================================================
