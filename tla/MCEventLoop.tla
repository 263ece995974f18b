---------------------------- MODULE MCEventLoop -----------------------------
(***************************************************************************)
(* EventLoop on a small instance: the loop thread and client threads, a    *)
(* few closures, one of them loop_quit's.                                  *)
(***************************************************************************)
EXTENDS EventLoop
=============================================================================
