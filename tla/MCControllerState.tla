------------------------- MODULE MCControllerState --------------------------
(* Model-checking instance of ControllerState and of its refinement. *)
EXTENDS ControlRefinement, TLC

Symmetry == Permutations(Connection) \cup Permutations(Splint)

=============================================================================
