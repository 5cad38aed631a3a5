---------------------------- MODULE MCMassStorage ----------------------------
(* The mass storage with commands of up to three chunks and two faults.     *)
EXTENDS MassStorage
=============================================================================
