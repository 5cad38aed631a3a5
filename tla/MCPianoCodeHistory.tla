---------------------------- MODULE MCPianoCodeHistory ----------------------------
(* A small lock: two keys and a code of three that does not overlap itself, *)
(* as PianoCode does not.                                                   *)
EXTENDS PianoCodeHistory

MCCode == <<1, 1, 2>>

ASSUME OverlapAssumption == DoesNotOverlap
=============================================================================
