------------------------- MODULE MCChannelDispatch --------------------------
(***************************************************************************)
(* ChannelDispatch on small instances, with two loops between which        *)
(* channels move.                                                          *)
(***************************************************************************)
EXTENDS ChannelDispatch, TLC

\* Channels are interchangeable, and so are loops.
Symmetry == Permutations(Channel) \cup Permutations(Loop)
=============================================================================
