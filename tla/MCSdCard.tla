------------------------------ MODULE MCSdCard ------------------------------
(* The SD card with its three threads.                                      *)
EXTENDS SdCard
=============================================================================
