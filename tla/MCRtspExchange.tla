--------------------------- MODULE MCRtspExchange --------------------------
(***************************************************************************)
(* Instances of RtspExchange.                                              *)
(***************************************************************************)
EXTENDS RtspExchange, TLC

Strings == STRING

\* Numbers are written in decimal.
Decimal == [n \in 0 .. 9 \cup {200} |-> ToString(n)]

SessionMethods == {"SETUP", "GET_PARAMETER"}
=============================================================================
