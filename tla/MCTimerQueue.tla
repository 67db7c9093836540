---------------------------- MODULE MCTimerQueue ----------------------------
(* Model-checking instance of TimerQueue; the constants are in the cfg. *)
EXTENDS TimerQueue, TLC
=============================================================================
