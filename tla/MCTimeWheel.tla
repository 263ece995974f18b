---------------------------- MODULE MCTimeWheel -----------------------------
(***************************************************************************)
(* TimeWheel with a few slots and timers.                                  *)
(***************************************************************************)
EXTENDS TimeWheel
=============================================================================
