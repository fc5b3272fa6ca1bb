----------------------------- MODULE MCLayoutTree -----------------------------
(* Model checking of LayoutTree.  Splints are interchangeable, and so are   *)
(* the two axes.                                                           *)
EXTENDS LayoutTree

Symmetry == Permutations(Splint) \cup Permutations(Axis)
=============================================================================
