---------------------------- MODULE MCWidgetTree ----------------------------
(* Small instances of the widget tree for TLC. *)
EXTENDS WidgetTree, TLC

MCSymmetry == Permutations(Widgets) \cup Permutations(Pids)
=============================================================================
