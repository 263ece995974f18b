--------------------------- MODULE MCRtpPeerPool ----------------------------
(***************************************************************************)
(* RtpPeerPool with a few peers and one client thread.                     *)
(***************************************************************************)
EXTENDS RtpPeerPool
=============================================================================
