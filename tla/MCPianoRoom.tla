---------------------------- MODULE MCPianoRoom ----------------------------
(* The piano room with small locks.                                         *)
EXTENDS PianoRoom

MCCode == <<1, 2>>
MCShortCode == <<1>>
=============================================================================
