------------------------------ MODULE MCUartRx ------------------------------
(***************************************************************************)
(* A ring of four bytes, lines of one or two characters.                   *)
(***************************************************************************)
EXTENDS UartRx
=============================================================================
