---------------------------- MODULE CallbackUser ----------------------------
(***************************************************************************)
(* What the user of an endpoint does in the callbacks it is given.         *)
(***************************************************************************)
CONSTANT Styles  \* a set of: "calls" (connect, send), "destroys", or "both"

ASSUME StylesAssumption == Styles \subseteq {"calls", "destroys", "both"} /\ Styles # {}

\* In a callback a user of a style may call what is of the kind does.
MayDo(style, does) == style \in {does, "both"}
=============================================================================
