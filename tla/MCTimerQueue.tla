---------------------------- MODULE MCTimerQueue ----------------------------
(***************************************************************************)
(* TimerQueue on a small instance.                                         *)
(***************************************************************************)
EXTENDS TimerQueue, TLC

\* Timers are interchangeable; used for the runs without liveness.
TimerSymmetry == Permutations(Timer)
=============================================================================
