-------------------------- MODULE MCTcpConnection ---------------------------
(***************************************************************************)
(* TcpConnection with a few bytes and a small kernel buffer.               *)
(***************************************************************************)
EXTENDS TcpConnection
=============================================================================
