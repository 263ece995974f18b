---------------------------- MODULE MCEndpoints ----------------------------
(***************************************************************************)
(* Instances of Endpoints.                                                 *)
(***************************************************************************)
EXTENDS Endpoints

Disciplined == {"calls", "destroys"}
=============================================================================
