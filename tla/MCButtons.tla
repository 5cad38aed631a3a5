----------------------------- MODULE MCButtons -----------------------------
(* The button with delays of a few polls.                                   *)
EXTENDS Buttons
=============================================================================
