----------------------------- MODULE MCWoodman -----------------------------
(***************************************************************************)
(* The Woodman room with tables of a few entries; a tick is about a second *)
(* of the program.  The file ends in the middle of the monologue's         *)
(* gestures, as after a failed read, or after them.                        *)
(***************************************************************************)
EXTENDS Woodman

E(p) == [position |-> p]

MCGestures == [monologue |-> <<E(0), E(1), E(2), E(0)>>,
               smile |-> <<E(0), E(1), E(0)>>]
=============================================================================
