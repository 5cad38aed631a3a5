-------------------------- MODULE MCVirtualTimers --------------------------
(***************************************************************************)
(* A counter that wraps after twelve ticks, a poll and two timers.         *)
(***************************************************************************)
EXTENDS VirtualTimers

ASSUME PaceAssumption == PollsKeepPace
=============================================================================
