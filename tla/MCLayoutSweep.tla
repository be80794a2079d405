----------------------------- MODULE MCLayoutSweep -----------------------------
(* LayoutSweep on a small instance, for TLC. *)
EXTENDS LayoutSweep, TLC

CONSTANTS l1, l2

\* Nothing distinguishes two layouts: what counts is the order they are run in.
MCSymmetry == Permutations(Layouts)
=============================================================================
