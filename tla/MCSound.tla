------------------------------ MODULE MCSound ------------------------------
(* The player with small buffers and a few calls.                           *)
EXTENDS Sound
=============================================================================
